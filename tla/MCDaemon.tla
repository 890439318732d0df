----------------------------- MODULE MCDaemon -------------------------------
(***************************************************************************)
(* Instances of the daemon's parts that share no state with the run record *)
(* or the claim: the run handle, the durable log, the remote attempt, the  *)
(* reload, and what is read at a load or a launch. They are checked side   *)
(* by side: a behaviour runs one of them, chosen in its first state, and   *)
(* leaves the others where they start, so the state space is the sum of    *)
(* theirs and not the product.                                             *)
(***************************************************************************)
EXTENDS RunHandle, DurableLog, Reload, MCRemoteAttempt, WatchChain, Wiring,
        Credential, PromptWalk, Transcript, Approval

-----------------------------------------------------------------------------
(* Values of the constants.                                                *)

\* Output of a local run: a line with progress and a result, or one over the
\* limit.
OneLine == {<<<<"progress", "succeeded">>>>, <<<<"overlong">>>>}

\* The definition in force and an edit of each kind the reload tells apart.
Base == [valid |-> TRUE, policy |-> 1, tracker |-> <<1, 1>>, agent |-> 1,
         workspace |-> <<1, 1>>, lifetime |-> 1]
OneEditOfEach ==
    {Base, [Base EXCEPT !.policy = 2], [Base EXCEPT !.tracker = <<2, 1>>],
     [Base EXCEPT !.tracker = <<1, 2>>], [Base EXCEPT !.valid = FALSE],
     [Base EXCEPT !.lifetime = 2], [Base EXCEPT !.workspace = <<2, 1>>],
     [Base EXCEPT !.agent = 2]}

(* Two layouts: a link in the daemon's own directory to a file behind a      *)
(* release link, and a path whose own directory is itself a release link.    *)

Rel == <<"rel">>
Etc == <<"etc">>
CurLink == <<"rel", "cur">>
V1 == <<"rel", "v1">>
V2 == <<"rel", "v2">>
EtcW == <<"etc", "W">>

LinkedFile ==
    [path |-> EtcW,
     nodes |-> [p \in {Rel, Etc, V1, V2, CurLink, EtcW, Append(V1, "W"), Append(V2, "W")} |->
                  CASE p \in {Rel, Etc, V1, V2} -> Dir
                    [] p = CurLink -> Link(V1)
                    [] p = EtcW -> Link(Append(CurLink, "W"))
                    [] p = Append(V1, "W") -> File(1)
                    [] OTHER -> File(2)],
     choices |-> [p \in {CurLink, EtcW, Append(V1, "W")} |->
                  CASE p = CurLink -> {Link(V1), Link(V2), Missing}
                    [] p = EtcW -> {Link(Append(CurLink, "W")), File(4), Missing}
                    [] OTHER -> {File(1), File(3)}],
     shows |-> 1]

LinkedDir ==
    [path |-> Append(CurLink, "W"),
     nodes |-> [p \in {Rel, V1, V2, CurLink, Append(V1, "W"), Append(V2, "W")} |->
                  CASE p \in {Rel, V1, V2} -> Dir
                    [] p = CurLink -> Link(V1)
                    [] p = Append(V1, "W") -> File(1)
                    [] OTHER -> File(2)],
     choices |-> [p \in {CurLink, Append(V1, "W"), Append(V2, "W")} |->
                  CASE p = CurLink -> {Link(V1), Link(V2), Missing}
                    [] p = Append(V1, "W") -> {File(1), File(3), Missing}
                    [] OTHER -> {File(2), File(5)}],
     shows |-> 1]

MCLayouts == {LinkedFile, LinkedDir}

\* One source of each kind, one endpoint in two spellings, two identities that
\* a join without escapes would confuse, and a static entry per variable.
MCExchange(url, scope, identity, path) ==
    [kind |-> "octo_sts", url |-> url, scope |-> scope, identity |-> identity, path |-> path]
MCBlocks ==
    {[kind |-> "static", value |-> [text |-> "", vars |-> {"GITHUB_TOKEN"}]],
     [kind |-> "static", value |-> [text |-> "", vars |-> {"PUSH"}]],
     [kind |-> "static", value |-> [text |-> "x", vars |-> {}]],
     MCExchange("https://sts", <<"a", "#", "b">>, <<"c">>, "p"),
     MCExchange("https://sts", <<"a">>, <<"b", "#", "c">>, "p"),
     MCExchange("HTTPS://STS:443/", <<"a">>, <<"b", "#", "c">>, "q"),
     MCExchange("http://sts", <<"a">>, <<"b">>, "p"),
     [kind |-> "projected_oidc", url |-> "https://sts", scope |-> <<"t">>, identity |-> <<"s">>,
      path |-> "p", ttl |-> 2],
     [kind |-> "unknown"], [kind |-> "absent"]}
MCLeaves ==
    {[text |-> "", vars |-> {"GITHUB_TOKEN"}], [text |-> "", vars |-> {"PUSH"}],
     [text |-> "x", vars |-> {"PUSH"}], [text |-> "x", vars |-> {}], [text |-> "", vars |-> {"UNSET"}]}
MCStart == [n \in {"a", "b"} |->
    IF n = "a" THEN MCExchange("https://sts", <<"a">>, <<"b", "#", "c">>, "p")
    ELSE MCExchange("HTTPS://STS:443/", <<"a">>, <<"b", "#", "c">>, "q")]

(* Expressions for PromptWalk: fenced and plain leaves, the containers     *)
(* above them, bound names, a step into a bound name, and filters.         *)

Prop(name) == [kind |-> "prop", name |-> name]
Title == Ref("issue", <<Prop("title")>>)
State == Ref("issue", <<Prop("state")>>)
LabelList == Ref("issue", <<Prop("labels")>>)
BoundName == Ref("c", <<>>)
Indexed == Ref("issue", <<Prop("labels"), [kind |-> "dynamic", by |-> "c"]>>)

MCExpressions == [emit |-> {Title, BoundName, Filtered(BoundName, "slice"), Ref("c", <<Prop("size")>>), Filtered(State, "bogus"), Indexed},
                  test |-> {BoundName, State}, each |-> {LabelList}, value |-> {Literal, Title, BoundName}]
MCFewExpressions == [emit |-> {Title, Filtered(BoundName, "slice")}, test |-> {State}, each |-> {}, value |-> {Literal}]

(* Values and output for Transcript.  With a floor of three characters: a    *)
(* plain value, one that a replacement can spell, one with a long line, one  *)
(* whose lines are too short, one a carriage return makes too short, one     *)
(* that JSON escapes and one under the floor.                                *)

Plain == <<"a", "b", "b">>
Spelled == <<"*", "a", "q", "b">>
LongLine == <<"a", "b", "b", "n", "a">>
ShortLines == <<"a", "n", "b">>
CarriageReturned == <<"a", "b", "r", "n", "a">>
Quoted == <<"a", "q", "b">>
Short == <<"a", "b">>

MCSecrets == {{}, {Plain}, {Plain, Spelled}, {LongLine, Short}, {ShortLines}, {CarriageReturned}, {Quoted, LongLine}}
MCOutLines == {<<"a", "b", "b", "a", "q", "b">>, <<"a", "b", "b", "r">>, <<"a", "b", "r">>, <<"a">>, <<"a", "q", "b">>, <<"b">>}
MCErrChunks == {<<"a", "b">>, <<"b", "n", "a">>, <<"a", "q", "b">>}
MCPromptTexts == {<<"b", "a", "b", "b", "n", "a">>, <<"a", "n", "b", "a", "b", "b", "a", "q", "b">>}
MCMarker == <<"*">>

-----------------------------------------------------------------------------
(* The parts side by side.                                                *)

VARIABLE part  \* the part this behaviour runs

Parts == {"handle", "log", "reload", "attempt", "watch", "wiring",
          "credential", "prompt", "transcript", "approval"}
partsVars == <<part, handleVars, logVars, reloadVars, remoteVars, chainVars,
               wiringVars, credVars, promptVars, transcriptVars,
               approvalVars>>

\* Every part but p stays in its initial state.
OnlyPart(p) ==
    /\ p # "handle" => UNCHANGED handleVars
    /\ p # "log" => UNCHANGED logVars
    /\ p # "reload" => UNCHANGED reloadVars
    /\ p # "attempt" => UNCHANGED remoteVars
    /\ p # "watch" => UNCHANGED chainVars
    /\ p # "wiring" => UNCHANGED wiringVars
    /\ p # "credential" => UNCHANGED credVars
    /\ p # "prompt" => UNCHANGED promptVars
    /\ p # "transcript" => UNCHANGED transcriptVars
    /\ p # "approval" => UNCHANGED approvalVars
    /\ UNCHANGED part

PartsInit ==
    /\ part \in Parts
    /\ HandleInit /\ LogInit /\ ReloadInit /\ RemoteInit /\ ChainInit
    /\ WiringInit /\ CredInit /\ PromptInit /\ TranscriptInit /\ ApprovalInit

PartsNext ==
    \/ part = "handle" /\ HandleNext /\ OnlyPart("handle")
    \/ part = "log" /\ LogNext /\ OnlyPart("log")
    \/ part = "reload" /\ ReloadNext /\ OnlyPart("reload")
    \/ part = "attempt" /\ RemoteNext /\ OnlyPart("attempt")
    \/ part = "watch" /\ ChainNext /\ OnlyPart("watch")
    \/ part = "wiring" /\ WiringNext /\ OnlyPart("wiring")
    \/ part = "credential" /\ CredNext /\ OnlyPart("credential")
    \/ part = "prompt" /\ PromptNext /\ OnlyPart("prompt")
    \/ part = "transcript" /\ TranscriptNext /\ OnlyPart("transcript")
    \/ part = "approval" /\ ApprovalNext /\ OnlyPart("approval")

PartsSpec == PartsInit /\ [][PartsNext]_partsVars

-----------------------------------------------------------------------------
(* Properties, each of the part that runs. *)

\* A reload never changes the identity work runs under (Reload); a remote attempt
\* is started once, found again and read as one stream (RemoteAttempt). What the
\* run handle and the durable log promise, HandleSafe and LogSafe, is checked by
\* its own name.
RunsSafe ==
    /\ part = "reload" => ReloadSafe
    /\ part = "attempt" => RemoteSafe

\* The daemon runs the configuration its links lead to (WatchChain), hands each
\* consumer its own credential (Wiring) for as long as it is good (Credential),
\* renders no template it refused (PromptWalk), writes no secret down
\* (Transcript), and starts work on the content a standing approval covers and
\* on no other (Approval).
ConfigSafe ==
    /\ part = "watch" => ChainSafe
    /\ part = "wiring" => WiringSafe
    /\ part = "credential" => CredSafe
    /\ part = "prompt" => PromptSafe
    /\ part = "transcript" => TranscriptSafe
    /\ part = "approval" => ApprovalSafe
=============================================================================
