------------------------------- MODULE Wiring -------------------------------
(***************************************************************************)
(* Which credential reaches whom: the credential half of loading a         *)
(* workflow file (config/sources.go, credentials.go, publish.go, env.go    *)
(* and the descriptors of internal/credential), the adoption of an edited  *)
(* file by the adapters it changes (watch.go adapterChange, NewSources),   *)
(* and the environment an agent is launched with (harness.Environ and the  *)
(* checks of the provider block).                                          *)
(*                                                                         *)
(* A text of the file is abstracted to the daemon variables it refers to   *)
(* and the literal text besides; a resolved text, and the value *)
(* of a variable, are named by what they were assembled from.  The fields  *)
(* of an exchanged source keep their characters, because two descriptors   *)
(* are compared after being joined with an escaped separator.              *)
(***************************************************************************)
EXTENDS Integers, Sequences, FiniteSets

CONSTANTS
    DaemonVars,         \* variables set in the daemon's environment
    Blocks,             \* what an entry of credential_sources may say
    FileTexts,             \* texts an edit may write
    SourceNames,              \* names of credential_sources entries
    ExchangeTTL,        \* OctoMinFreshTTL
    LoadMargin,         \* CredentialTTLMargin
    StartSources,       \* the entries the file declares at first
    MaxFileEdits        \* bound on the edits of one file

FallbackTokenEnv == "GITHUB_TOKEN"
EnvAllowlist == {"PATH"}
BenNames == {"BEN_RUN_ID"}              \* names with the BEN_ prefix
OwnedEnv == {"CODEX_API_KEY"}           \* names another provider key sets
ChildNames == DaemonVars \cup {"PUSH_TOKEN"} \cup EnvAllowlist \cup BenNames \cup OwnedEnv

NoLeaf == [text |-> "", vars |-> {}]
Blank(leaf) == leaf = NoLeaf
Unnamed == "unnamed"

\* The sections of WORKFLOW.md this module reads.
BaseFile ==
    [sources |-> StartSources,
     trackerSource |-> Unnamed, token |-> NoLeaf, assignee |-> FALSE,
     apiKey |-> NoLeaf, env |-> {}, passthrough |-> {},
     publish |-> [kind |-> "", env |-> "", value |-> NoLeaf, source |-> Unnamed],
     substrate |-> Unnamed, review |-> Unnamed, shared |-> FALSE, timeout |-> 1]

-----------------------------------------------------------------------------
(* internal/credential: the descriptor of a source *)

\* escapeDescriptorField and the join with "#".
EscapedNothing(field) == field
EscapedField(field) ==
    LET esc[i \in 0..Len(field)] ==
          IF i = 0 THEN << >>
          ELSE esc[i - 1] \o (IF field[i] \in {"#", "\\"} THEN <<"\\", field[i]>> ELSE <<field[i]>>)
    IN esc[Len(field)]
Joined(fields) ==
    LET join[i \in 1..Len(fields)] ==
          IF i = 1 THEN EscapedField(fields[1])
          ELSE join[i - 1] \o <<"#">> \o EscapedField(fields[i])
    IN join[Len(fields)]

\* canonicalIssuerURL: two spellings of one endpoint are one issuer; anything
\* but a plain https URL is refused.
Canonical(url) ==
    CASE url \in {"https://sts", "HTTPS://STS:443/"} -> <<"sts">>
      [] url = "https://other" -> <<"other">>
      [] OTHER -> << >>

NoDescriptor == [kind |-> "refused", authority |-> << >>, binding |-> {}, ttl |-> 0]

EnvDescriptor(v) ==
    [kind |-> "static", authority |-> <<"env:", v>>, binding |-> {"env:", v}, ttl |-> 0]

\* LiteralDescriptor: the config site (or the one variable) is the authority,
\* and the value itself is part of the binding.
LiteralUnhashed(authority, leaf) ==
    [kind |-> "static", authority |-> authority, binding |-> {authority[2]}, ttl |-> 0]
LiteralDescriptor(authority, leaf) ==
    [kind |-> "static", authority |-> authority,
     binding |-> {authority[2], "sha256", leaf.text} \cup leaf.vars, ttl |-> 0]

\* StaticKind.Describe, parseOcto and parseProjectedOIDC.  A block holds the
\* fields of its kind; a blank one, or a reference where a literal is required,
\* is the empty sequence.
StaticDescribe(block) ==
    IF block.value.text = "" /\ Cardinality(block.value.vars) = 1
    THEN EnvDescriptor(CHOOSE v \in block.value.vars : TRUE)
    ELSE NoDescriptor
OctoDescribe(block) ==
    IF Canonical(block.url) = << >> \/ block.scope = << >> \/ block.identity = << >> \/ block.path = ""
    THEN NoDescriptor
    ELSE [kind |-> "octo_sts", ttl |-> ExchangeTTL,
          authority |-> <<"octo:">> \o Joined(<<Canonical(block.url), block.scope, block.identity>>),
          binding |-> {"path", block.path}]
OidcDescribe(block) ==
    IF Canonical(block.url) = << >> \/ block.scope = << >> \/ block.identity = << >> \/ block.path = ""
          \/ block.ttl <= 0
    THEN NoDescriptor
    ELSE [kind |-> "projected_oidc", ttl |-> block.ttl,
          authority |-> <<"projected-oidc:">> \o Joined(<<Canonical(block.url), block.scope, block.identity>>),
          binding |-> {"path", block.path}]

Describe(block) ==
    CASE block.kind = "static" -> StaticDescribe(block)
      [] block.kind = "octo_sts" -> OctoDescribe(block)
      [] block.kind = "projected_oidc" -> OidcDescribe(block)
      [] OTHER -> NoDescriptor

-----------------------------------------------------------------------------
(* config: the credential of each consumer.  `name` is the entry it came   *)
(* from, `literal` the resolved text, `variable` the variable read live.   *)

NoCredential ==
    [name |-> Unnamed, d |-> NoDescriptor, literal |-> NoLeaf, variable |-> ""]
Configured(cred) == cred.d.kind # "refused"
Bounded(cred) == cred.d.ttl > 0

Declared(wf) == {n \in SourceNames : wf.sources[n].kind # "absent"}

\* namedCredential: a static entry also carries the variable it names.
NamedCredential(wf, n) ==
    LET d == Describe(wf.sources[n]) IN
    [NoCredential EXCEPT !.name = n, !.d = d,
                         !.variable = IF d.kind = "static" THEN d.authority[2] ELSE ""]

\* credentialAuthorityFor: a token resolved from exactly one variable has that
\* variable's authority, any other is its own site.
TokenAuthority(leaf) ==
    IF Cardinality(leaf.vars) = 1
    THEN <<"env:", CHOOSE v \in leaf.vars : TRUE>>
    ELSE <<"site:", "tracker.provider.token">>

EnvCredential(v) == [NoCredential EXCEPT !.d = EnvDescriptor(v), !.variable = v]

\* trackerCredential: a named source, else the written token, else the
\* adapter's environment fallback.
TrackerCredential(wf) ==
    CASE wf.trackerSource # Unnamed -> NamedCredential(wf, wf.trackerSource)
      [] ~Blank(wf.token) -> [NoCredential EXCEPT
                                !.d = LiteralDescriptor(TokenAuthority(wf.token), wf.token),
                                !.literal = wf.token]
      [] OTHER -> EnvCredential(FallbackTokenEnv)

PublishCredential(wf) ==
    CASE wf.publish.kind = "" -> NoCredential
      [] wf.publish.kind = "token" -> EnvCredential(CHOOSE v \in wf.publish.value.vars : TRUE)
      [] OTHER -> NamedCredential(wf, wf.publish.source)

OptionalCredential(wf, n) == IF n = Unnamed THEN NoCredential ELSE NamedCredential(wf, n)

-----------------------------------------------------------------------------
(* The checks of a load, in the order load makes them *)

\* resolveEnvString: a referenced variable must be set.
Resolves(leaf) == leaf.vars \subseteq DaemonVars

\* validatePublish, validatePublishEnv and publishValueVar.
PublishNameAny(wf) == wf.publish.env # ""
PublishName(wf) ==
    wf.publish.env # "" /\ wf.publish.env \notin (BenNames \cup EnvAllowlist)
PublishValid(wf) ==
    LET p == wf.publish IN
    IF p.kind = ""
    THEN p.env = "" /\ Blank(p.value) /\ p.source = Unnamed
    ELSE /\ PublishName(wf)
         /\ Blank(p.value) \/ (p.value.text = "" /\ Cardinality(p.value.vars) = 1)
         /\ p.kind = "token" => ~Blank(p.value) /\ p.source = Unnamed
         /\ p.kind = "source" => Blank(p.value) /\ p.source # Unnamed

\* describeSources and the reference of each consumer to a declared entry.
SourcesResolve(wf) ==
    /\ \A n \in Declared(wf) : Describe(wf.sources[n]).kind # "refused"
    /\ {wf.trackerSource, wf.publish.source, wf.substrate, wf.review}
         \subseteq Declared(wf) \cup {Unnamed}
    /\ wf.trackerSource # Unnamed => Blank(wf.token)

\* checkCredentialSplit: the variables the tracker's credential is read from,
\* and those whose value an agent process receives.
TrackerVars(wf) ==
    LET cred == TrackerCredential(wf) IN
    (IF cred.name # Unnamed /\ cred.variable # "" THEN {cred.variable} ELSE {})
      \cup wf.token.vars
      \cup (IF wf.trackerSource = Unnamed /\ Blank(wf.token) THEN {FallbackTokenEnv} ELSE {})

AgentVarsByKey(wf) == wf.apiKey.vars \cup EnvAllowlist \cup wf.publish.value.vars
AgentVars(wf) ==
    LET cred == PublishCredential(wf) IN
    wf.apiKey.vars \cup wf.publish.value.vars
      \cup (IF cred.name # Unnamed /\ cred.variable # "" THEN {cred.variable} ELSE {})
      \cup EnvAllowlist \cup wf.passthrough

\* checkAuthoritySplit: no two consumers hold one authority, except a review
\* controller an attended deployment lets share the tracker's.
SameAuthority(a, b) == Configured(a) /\ Configured(b) /\ a.d.authority = b.d.authority
AuthoritySplitByName(wf) ==
    TrackerCredential(wf).name = Unnamed \/ TrackerCredential(wf).name # PublishCredential(wf).name
AuthoritySplit(wf) ==
    LET tracker == TrackerCredential(wf)
        publish == PublishCredential(wf)
        substrate == OptionalCredential(wf, wf.substrate)
        review == OptionalCredential(wf, wf.review) IN
    /\ ~SameAuthority(tracker, publish)
    /\ ~SameAuthority(substrate, tracker) /\ ~SameAuthority(substrate, publish)
    /\ ~SameAuthority(review, tracker) \/ wf.shared
    /\ ~SameAuthority(review, publish) /\ ~SameAuthority(review, substrate)

\* checkClaimAssignee and checkPublishTTL.
TimeoutFits(wf) ==
    Bounded(PublishCredential(wf)) => wf.timeout <= PublishCredential(wf).d.ttl - LoadMargin
AssigneeGiven(wf) == Bounded(TrackerCredential(wf)) => wf.assignee

\* The runner's provider block: CheckProviderEnv, CheckOwnedEnv and
\* CheckPublishEnv.
ProviderBlockValid(wf) ==
    LET given == wf.env \cup wf.passthrough IN
    /\ given \cap BenNames = {}
    /\ given \cap (OwnedEnv \cup {wf.publish.env}) = {}
    /\ wf.publish.env \notin OwnedEnv

Loads(wf) ==
    /\ Resolves(wf.token) /\ Resolves(wf.apiKey)
    /\ PublishValid(wf)
    /\ SourcesResolve(wf)
    /\ TrackerVars(wf) \cap AgentVars(wf) = {}
    /\ AuthoritySplit(wf) /\ AssigneeGiven(wf) /\ TimeoutFits(wf)
    /\ ProviderBlockValid(wf)

-----------------------------------------------------------------------------
(* What a built source hands out, and the environment of a launched agent *)

\* newSource: a named source is built from its block, a variable is read from
\* the environment, a literal is what load resolved.
Absent == [how |-> "none", who |-> << >>, from |-> {}]
Serves(wf, cred) ==
    CASE ~Configured(cred) -> Absent
      [] cred.d.kind # "static" ->
           LET block == wf.sources[cred.name] IN
           [how |-> block.kind, who |-> <<Canonical(block.url), block.scope, block.identity>>,
            from |-> {block.path}]
      [] cred.variable # "" -> [how |-> "text", who |-> << >>, from |-> {cred.variable}]
      [] OTHER -> [how |-> "text", who |-> <<cred.literal.text>>, from |-> cred.literal.vars]

VarValue(v) == [how |-> "text", who |-> << >>, from |-> {v}]
LeafValue(leaf) == [how |-> "text", who |-> <<leaf.text>>, from |-> leaf.vars]
FileText == [how |-> "text", who |-> <<"file">>, from |-> {}]
RunValue == [how |-> "ben", who |-> << >>, from |-> {}]

\* The part of a definition a runner is bound to (AgentBinding).
RunnerBinding(wf) ==
    [apiKey |-> wf.apiKey, env |-> wf.env, passthrough |-> wf.passthrough,
     publishEnv |-> wf.publish.env,
     publish |-> Serves(wf, PublishCredential(wf)), timeout |-> wf.timeout]

\* Environ, later layers over earlier ones: the allowlist, the passthrough, the
\* provider's env, its own keys, the publish credential, the run's BEN_ names.
Environ(b) ==
    [n \in ChildNames |->
       CASE n \in BenNames -> RunValue
         [] n = b.publishEnv -> b.publish
         [] n \in OwnedEnv /\ ~Blank(b.apiKey) -> LeafValue(b.apiKey)
         [] n \in b.env -> FileText
         [] n \in (EnvAllowlist \cup b.passthrough) \cap DaemonVars -> VarValue(n)
         [] OTHER -> Absent]

\* What the transcript redacts: the declared credential values, and of the
\* undeclared ones the forwarded values that survived and the publish token.
RedactsDeclared(b) ==
    (IF Blank(b.apiKey) THEN {} ELSE {LeafValue(b.apiKey)}) \cup (IF b.env = {} THEN {} ELSE {FileText})
Redacts(b) ==
    (IF Blank(b.apiKey) THEN {} ELSE {LeafValue(b.apiKey)})
      \cup (IF b.env = {} THEN {} ELSE {FileText})
      \cup {VarValue(v) : v \in {w \in b.passthrough \cap DaemonVars : Environ(b)[w] = VarValue(w)}}
      \cup (IF b.publishEnv = "" THEN {} ELSE {b.publish})

-----------------------------------------------------------------------------
VARIABLES
    wiringFile,     \* WORKFLOW.md and the edits made to it
    adopted,        \* the definition in force
    trackerServes,  \* what the running tracker adapter's source hands out
    runnerBound,    \* what the running agent runner was built with
    child           \* environment and redactions of a live agent

wiringVars == <<wiringFile, adopted, trackerServes, runnerBound, child>>

NoChild == [live |-> FALSE, env |-> [n \in ChildNames |-> Absent], redacts |-> {}]

WiringInit ==
    /\ wiringFile = [text |-> BaseFile, edits |-> 0]
    /\ adopted = BaseFile
    /\ trackerServes = Serves(BaseFile, TrackerCredential(BaseFile))
    /\ runnerBound = RunnerBinding(BaseFile)
    /\ child = NoChild

PublishBlocks ==
    {[kind |-> "token", env |-> e, value |-> v, source |-> Unnamed] :
        e \in {"", "PUSH_TOKEN", "BEN_RUN_ID", "CODEX_API_KEY"}, v \in FileTexts}
      \cup {[kind |-> k, env |-> "PUSH_TOKEN", value |-> NoLeaf, source |-> n] :
        k \in {"", "token", "source"}, n \in SourceNames}

\* A person rewrites one section of the file.
EditFile ==
    LET wf == wiringFile.text IN
    /\ wiringFile.edits < MaxFileEdits
    /\ \E next \in
           {[wf EXCEPT !.sources[n] = block] : n \in SourceNames, block \in Blocks}
             \cup {[wf EXCEPT !.trackerSource = n, !.assignee = TRUE] : n \in SourceNames \cup {Unnamed}}
             \cup {[wf EXCEPT !.token = leaf] : leaf \in FileTexts \cup {NoLeaf}}
             \cup {[wf EXCEPT !.apiKey = leaf] : leaf \in FileTexts}
             \cup {[wf EXCEPT !.env = {n}] : n \in {"PUSH_TOKEN", "CODEX_API_KEY"}}
             \cup {[wf EXCEPT !.passthrough = {n}] : n \in ChildNames}
             \cup {[wf EXCEPT !.publish = p] : p \in PublishBlocks}
             \cup {[wf EXCEPT !.substrate = n] : n \in SourceNames}
             \cup {[wf EXCEPT !.review = n, !.shared = s] : n \in SourceNames, s \in BOOLEAN}
             \cup {[wf EXCEPT !.timeout = t] : t \in 1..2} :
         /\ next # wf
         /\ wiringFile' = [text |-> next, edits |-> wiringFile.edits + 1]
    /\ UNCHANGED <<adopted, trackerServes, runnerBound, child>>

\* adapterChange: a definition is compared by its bindings, not by the names of
\* its sources.
BindingOf(cred) == <<cred.d.kind, cred.d.authority, cred.d.binding>>
TrackerChangeByName(old, new) ==
    <<old.trackerSource, old.token, old.assignee>> # <<new.trackerSource, new.token, new.assignee>>
TrackerChange(old, new) ==
    \/ BindingOf(TrackerCredential(old)) # BindingOf(TrackerCredential(new))
    \/ old.assignee # new.assignee
AgentChange(old, new) ==
    \/ <<old.apiKey, old.env, old.passthrough, old.publish.env, old.timeout>>
         # <<new.apiKey, new.env, new.passthrough, new.publish.env, new.timeout>>
    \/ BindingOf(PublishCredential(old)) # BindingOf(PublishCredential(new))

\* A file that loads is adopted; one that changes an adapter waits for quiet
\* and rebuilds just that adapter from the new definition.
AdoptFile ==
    LET next == wiringFile.text IN
    /\ next # adopted
    /\ Loads(next)
    /\ (TrackerChange(adopted, next) \/ AgentChange(adopted, next)) => ~child.live
    /\ adopted' = next
    /\ trackerServes' = IF TrackerChange(adopted, next)
                        THEN Serves(next, TrackerCredential(next)) ELSE trackerServes
    /\ runnerBound' = IF AgentChange(adopted, next) THEN RunnerBinding(next) ELSE runnerBound
    /\ UNCHANGED <<wiringFile, child>>

LaunchChild ==
    /\ ~child.live
    /\ child' = [live |-> TRUE, env |-> Environ(runnerBound), redacts |-> Redacts(runnerBound)]
    /\ UNCHANGED <<wiringFile, adopted, trackerServes, runnerBound>>

ChildExits ==
    /\ child.live
    /\ child' = NoChild
    /\ UNCHANGED <<wiringFile, adopted, trackerServes, runnerBound>>

WiringNext == EditFile \/ AdoptFile \/ LaunchChild \/ ChildExits

WiringSpec == WiringInit /\ [][WiringNext]_wiringVars

-----------------------------------------------------------------------------
(* Properties *)

\* The shape of the state.
WiringTypeOK ==
    /\ wiringFile.edits \in 0..MaxFileEdits
    /\ DOMAIN child.env = ChildNames /\ child.live \in BOOLEAN

\* No live agent holds a variable the tracker's credential is read from, by any
\* of the routes a value takes into its environment (credentials.go).
TrackerStaysHome ==
    \A n \in ChildNames :
        (child.live /\ trackerServes.how = "text") => child.env[n].from \cap trackerServes.from = {}

\* An adapter that a reload left running serves exactly what one built from the
\* definition in force would: equal bindings mean equal credentials.
AdoptedIsServed ==
    /\ trackerServes = Serves(adopted, TrackerCredential(adopted))
    /\ runnerBound = RunnerBinding(adopted)

\* Two consumers of an accepted definition are never handed the same
\* credential, whatever the entries are called (checkAuthoritySplit).
ConsumersAreSplit ==
    LET publish == runnerBound.publish IN
    (publish # Absent /\ trackerServes.how = publish.how) =>
        IF publish.how = "text" THEN trackerServes.from # publish.from
        ELSE trackerServes.who # publish.who

\* The publish credential is in the agent's environment under its own name: no
\* other layer of Environ overwrites it.
PublishReachesAgent ==
    (child.live /\ runnerBound.publishEnv # "") => child.env[runnerBound.publishEnv] = runnerBound.publish

\* Every value that entered the agent's environment by configuration is one
\* its transcript redacts.
ChildIsRedacted ==
    child.live => \A n \in ChildNames \ (EnvAllowlist \cup BenNames) :
        child.env[n] # Absent => child.env[n] \in child.redacts

WiringSafe ==
    /\ WiringTypeOK /\ TrackerStaysHome /\ AdoptedIsServed /\ ConsumersAreSplit
    /\ PublishReachesAgent /\ ChildIsRedacted

=============================================================================
