----------------------------- MODULE Credential -----------------------------
(***************************************************************************)
(* The credential sources of internal/credential at run time, and the      *)
(* publish credential an attempt is launched with (harness.MintPublish).   *)
(*                                                                         *)
(* A source of kind octo_sts exchanges the projected OIDC token for a      *)
(* short-lived credential: Fetch answers from a cache kept per purpose and *)
(* shares one fill among concurrent callers, FetchFresh always exchanges.  *)
(* A source of kind projected_oidc hands out the projection itself, read   *)
(* from disk on every call.  A static source reads the environment.  The   *)
(* issuer and the process that rotates the projection are external.        *)
(***************************************************************************)
EXTENDS Integers, FiniteSets

CONSTANTS
    Callers,            \* goroutines that ask a source for a token
    Minters,            \* those of them that launch attempts
    Purposes,           \* the partitions of the cache
    MinFreshTTL,        \* OctoMinFreshTTL, and min_ttl_ms of the projection
    TTLMargin,          \* CredentialTTLMargin
    DeadlineHandoff,    \* octoDeadlineHandoff
    IssuerLife,         \* the expiry the issuer documents
    HTTPTimeout,        \* octoHTTPTimeout
    AttemptTimeout,     \* limits.attempt_timeout_ms
    MaxTime,            \* bound on the clock
    MaxRotations        \* bound on changes of the projection

\* checkPublishTTL admitted the timeout, and the cushion under the documented
\* expiry covers the longest exchange.
ASSUME CredentialAssumption ==
    /\ {MinFreshTTL, TTLMargin, DeadlineHandoff, IssuerLife, HTTPTimeout,
        AttemptTimeout, MaxTime, MaxRotations} \subseteq Nat
    /\ AttemptTimeout <= MinFreshTTL - TTLMargin
    /\ MinFreshTTL + DeadlineHandoff + HTTPTimeout <= IssuerLife
    /\ "publish" \in Purposes /\ Minters \subseteq Callers

VARIABLES
    credClock,
    projection,     \* the file at oidc_token_path
    octoCache,      \* cached token per purpose
    octoFill,       \* inflight: the caller that fills a purpose's cache
    asking          \* one record per caller

credVars == <<credClock, projection, octoCache, octoFill, asking>>

NoToken == [born |-> -1, until |-> -1, dies |-> -1]
NoCaller == 0
SourceKinds == {"octo_sts", "projected_oidc", "static"}
Answers == {"none", "ok", "transient", "permanent", "unknown"}

\* pc: "exchange" while the request is out, "issued" once the issuer has
\* minted, "waiting" on another caller's fill, "told" when that fill is done,
\* "minted" holding a fresh publish token, "attempt" while the agent runs.
IdleCall == [pc |-> "idle", kind |-> "static", purpose |-> "publish", mint |-> FALSE,
         since |-> 0, sent |-> 0, tok |-> NoToken, answer |-> "none", left |-> 0]

CredInit ==
    /\ credClock = 0
    /\ projection = [state |-> "ours", exp |-> MinFreshTTL + 1, turn |-> 0]
    /\ octoCache = [p \in Purposes |-> NoToken]
    /\ octoFill = [p \in Purposes |-> NoCaller]
    /\ asking = [c \in Callers |-> IdleCall]

-----------------------------------------------------------------------------
(* What a call returns.  `left` is the life the token had when it was      *)
(* handed over; a minted token goes on to the launch gate.                 *)

Returned(call, tok, answer) ==
    [call EXCEPT !.pc = IF call.mint /\ answer = "ok" THEN "minted" ELSE "returned",
                 !.tok = tok, !.answer = answer, !.sent = 0,
                 !.since = IF call.mint /\ answer = "ok" THEN call.since ELSE 0,
                 !.left = IF answer = "ok" THEN tok.until - credClock ELSE 0]

\* Fetch of an octo source: the cache while more than the margin is left,
\* then a fill already under way, else this caller leads one.
CacheServesPastMargin(p) ==
    octoCache[p] # NoToken /\ credClock < octoCache[p].until
CacheServes(p) ==
    octoCache[p] # NoToken /\ credClock < octoCache[p].until - TTLMargin

OctoFetchCrowding(c, call) ==
    /\ IF CacheServes(call.purpose)
       THEN /\ asking' = [asking EXCEPT ![c] = Returned(call, octoCache[call.purpose], "ok")]
            /\ UNCHANGED octoFill
       ELSE /\ asking' = [asking EXCEPT ![c] = [call EXCEPT !.pc = "read"]]
            /\ octoFill' = [octoFill EXCEPT ![call.purpose] = c]
    /\ UNCHANGED octoCache
OctoFetch(c, call) ==
    /\ IF CacheServes(call.purpose)
       THEN /\ asking' = [asking EXCEPT ![c] = Returned(call, octoCache[call.purpose], "ok")]
            /\ UNCHANGED octoFill
       ELSE IF octoFill[call.purpose] # NoCaller
       THEN /\ asking' = [asking EXCEPT ![c] = [call EXCEPT !.pc = "waiting"]]
            /\ UNCHANGED octoFill
       ELSE /\ asking' = [asking EXCEPT ![c] = [call EXCEPT !.pc = "read"]]
            /\ octoFill' = [octoFill EXCEPT ![call.purpose] = c]
    /\ UNCHANGED octoCache

\* The leader of a fill: FetchFresh returned, so cache a success, publish the
\* answer to the waiters and take the fill down, all under the mutex.
Leads(c) == \E p \in Purposes : octoFill[p] = c

FillDoneQuietly(c, tok, answer) ==
    LET p == asking[c].purpose IN
    /\ asking' = [asking EXCEPT ![c] = Returned(@, tok, answer)]
    /\ IF Leads(c)
       THEN /\ octoFill' = [octoFill EXCEPT ![p] = NoCaller]
            /\ octoCache' = IF answer = "ok" THEN [octoCache EXCEPT ![p] = tok] ELSE octoCache
       ELSE UNCHANGED <<octoFill, octoCache>>
FillDone(c, tok, answer) ==
    LET p == asking[c].purpose
        waiters == {w \in Callers : asking[w].pc = "waiting" /\ asking[w].purpose = p} IN
    IF Leads(c)
    THEN /\ octoFill' = [octoFill EXCEPT ![p] = NoCaller]
         /\ octoCache' = IF answer = "ok" THEN [octoCache EXCEPT ![p] = tok] ELSE octoCache
         /\ asking' = [w \in Callers |->
                         CASE w = c -> Returned(asking[w], tok, answer)
                           [] w \in waiters -> [asking[w] EXCEPT !.pc = "told", !.tok = tok,
                                                                 !.answer = answer]
                           [] OTHER -> asking[w]]
    ELSE /\ asking' = [asking EXCEPT ![c] = Returned(@, tok, answer)]
         /\ UNCHANGED <<octoFill, octoCache>>

-----------------------------------------------------------------------------
(* The calls *)

\* fetch of a projected source: unreadable, foreign and short-lived
\* projections are refused, the last as weather.
ProjectedUntilExpiry == projection.exp + 1
ProjectedUntil == credClock + MinFreshTTL
ProjectedFetch(call) ==
    IF projection.state # "ours" THEN Returned(call, NoToken, "permanent")
    ELSE IF projection.exp - credClock < MinFreshTTL THEN Returned(call, NoToken, "transient")
    ELSE Returned(call, [born |-> credClock, until |-> ProjectedUntil, dies |-> projection.exp], "ok")

\* A static source has no deadline: an unset variable is permanent.
StaticFetch(call, set) == Returned(call, NoToken, IF set THEN "ok" ELSE "permanent")

\* MintPublish asks the fresh-only surface, so an octo source always exchanges;
\* it is the one consumer of the publish purpose.  Fetch and FetchFresh of the
\* other two kinds are the same call, so only the mint exercises them.
MintFromCache(c, call) == OctoFetch(c, call)
MintFresh(c, call) ==
    /\ asking' = [asking EXCEPT ![c] = [call EXCEPT !.pc = "read"]]
    /\ UNCHANGED <<octoFill, octoCache>>

Ask(c, kind, p, mint) ==
    LET call == [IdleCall EXCEPT !.kind = kind, !.purpose = p, !.mint = mint, !.since = credClock] IN
    /\ asking[c].pc = "idle"
    /\ mint <=> p = "publish"
    /\ mint => c \in Minters
    /\ kind # "octo_sts" => mint
    /\ CASE kind = "octo_sts" -> IF mint THEN MintFresh(c, call) ELSE OctoFetch(c, call)
         [] kind = "projected_oidc" -> /\ asking' = [asking EXCEPT ![c] = ProjectedFetch(call)]
                                       /\ UNCHANGED <<octoFill, octoCache>>
         [] kind = "static" -> /\ \E set \in BOOLEAN :
                                    asking' = [asking EXCEPT ![c] = StaticFetch(call, set)]
                               /\ UNCHANGED <<octoFill, octoCache>>
    /\ UNCHANGED <<credClock, projection>>

\* FetchFresh reads the projection from disk, then sends the exchange.
ReadProjection(c) ==
    /\ asking[c].pc = "read"
    /\ IF projection.state \in {"missing", "empty"}
       THEN FillDone(c, NoToken, "permanent")
       ELSE /\ asking' = [asking EXCEPT ![c].pc = "exchange", ![c].sent = credClock]
            /\ UNCHANGED <<octoFill, octoCache>>
    /\ UNCHANGED <<credClock, projection>>

\* The issuer mints: its clock starts here (external).
IssuerMints(c) ==
    /\ asking[c].pc = "exchange"
    /\ asking' = [asking EXCEPT ![c].pc = "issued",
                                ![c].tok = [born |-> credClock, until |-> -1,
                                            dies |-> credClock + IssuerLife]]
    /\ UNCHANGED <<credClock, projection, octoCache, octoFill>>

\* The answer is read: a contract counted from here, not an observed expiry.
MintedUntilDocumented(c) == credClock + IssuerLife
MintedUntil(c) == credClock + MinFreshTTL + DeadlineHandoff
FetchFreshReturns(c) ==
    /\ asking[c].pc = "issued"
    /\ FillDone(c, [asking[c].tok EXCEPT !.until = MintedUntil(c)], "ok")
    /\ UNCHANGED <<credClock, projection>>

\* classifyExchangeStatus and the other failures of FetchFresh: the request
\* timed out, the context ended, or the issuer answered a status.
ExchangeFailures == {"lost", "cancelled", "401", "404", "429", "500", "418", "empty"}
ClassOf(failure) ==
    CASE failure \in {"lost", "cancelled", "429", "500"} -> "transient"
      [] failure \in {"401", "404", "empty"} -> "permanent"
      [] OTHER -> "unknown"
FetchFreshFails(c) ==
    /\ asking[c].pc \in {"exchange", "issued"}
    /\ \E failure \in ExchangeFailures :
         /\ (asking[c].pc = "issued") => failure \in {"lost", "cancelled"}
         /\ FillDone(c, NoToken, ClassOf(failure))
    /\ UNCHANGED <<credClock, projection>>

\* A waiter takes the leader's exact answer, or its own context ended.
WaiterReturns(c) ==
    /\ asking[c].pc = "told"
    /\ asking' = [asking EXCEPT ![c] = Returned(@, @.tok, @.answer)]
    /\ UNCHANGED <<credClock, projection, octoCache, octoFill>>
WaiterCancelled(c) ==
    /\ asking[c].pc \in {"waiting", "told"}
    /\ asking' = [asking EXCEPT ![c] = Returned(@, NoToken, "transient")]
    /\ UNCHANGED <<credClock, projection, octoCache, octoFill>>

-----------------------------------------------------------------------------
(* The launch *)

\* MintPublish: a bounded source's token must outlive the attempt by the margin.
CoversAttemptBarely(call) == call.tok.until - credClock >= AttemptTimeout - TTLMargin
CoversAttempt(call) ==
    call.kind # "static" =>
        LET remaining == call.tok.until - credClock IN
        remaining >= TTLMargin /\ AttemptTimeout <= remaining - TTLMargin
MintPublish(c) ==
    /\ asking[c].pc = "minted"
    /\ asking' = [asking EXCEPT ![c] =
         IF CoversAttempt(@)
         THEN [@ EXCEPT !.pc = "attempt", !.sent = credClock]
         ELSE [@ EXCEPT !.pc = "returned", !.answer = "permanent",
                        !.sent = asking[c].left - (asking[c].tok.until - credClock)]]
    /\ UNCHANGED <<credClock, projection, octoCache, octoFill>>

\* The attempt ends at its timeout at the latest; any other call is over.
Ends(c) ==
    /\ asking[c].pc \in {"returned", "attempt"}
    /\ asking' = [asking EXCEPT ![c] = IdleCall]
    /\ UNCHANGED <<credClock, projection, octoCache, octoFill>>

-----------------------------------------------------------------------------
(* The environment: time, and the process that rotates the projection *)

\* The HTTP client gives up at its timeout, a waiter whose fill is done is
\* scheduled within a tick, and an attempt is stopped at its timeout.
TickCred ==
    /\ credClock < MaxTime
    /\ \A c \in Callers :
         /\ asking[c].pc # "told"
         /\ asking[c].pc \in {"exchange", "issued"} => credClock < asking[c].sent + HTTPTimeout
         /\ asking[c].pc = "attempt" => credClock < asking[c].sent + AttemptTimeout
    /\ credClock' = credClock + 1
    /\ UNCHANGED <<projection, octoCache, octoFill, asking>>

Rotate ==
    /\ projection.turn < MaxRotations
    /\ \E state \in {"missing", "empty", "stranger", "ours"} :
         projection' = [state |-> state, exp |-> credClock + MinFreshTTL + 1,
                        turn |-> projection.turn + 1]
    /\ UNCHANGED <<credClock, octoCache, octoFill, asking>>

\* A call that returned only has its answer to be looked at, so nothing runs
\* beside it.
CredNext ==
    \/ \E c \in Callers : Ends(c)
    \/ /\ \A c \in Callers : asking[c].pc # "returned"
       /\ \/ TickCred
          \/ Rotate
          \/ \E c \in Callers :
               \/ \E kind \in SourceKinds, p \in Purposes, mint \in BOOLEAN : Ask(c, kind, p, mint)
               \/ ReadProjection(c) \/ IssuerMints(c) \/ FetchFreshReturns(c) \/ FetchFreshFails(c)
               \/ WaiterReturns(c) \/ WaiterCancelled(c) \/ MintPublish(c)

CredSpec == CredInit /\ [][CredNext]_credVars

-----------------------------------------------------------------------------
(* Properties *)

Times == -1..(MaxTime + IssuerLife + MinFreshTTL)
TokenSet == [born : Times, until : Times, dies : Times]

\* The shape of the state.
CredTypeOK ==
    /\ credClock \in 0..MaxTime
    /\ octoCache \in [Purposes -> TokenSet]
    /\ octoFill \in [Purposes -> Callers \cup {NoCaller}]
    /\ \A c \in Callers : asking[c].tok \in TokenSet /\ asking[c].answer \in Answers

\* A deadline the source states is one the issuer honours: neither a cached
\* token nor one in a caller's hands claims to be usable after it expires
\* (octosts.go FetchFresh, projected_oidc.go fetch).
DeadlineIsHonoured ==
    /\ \A p \in Purposes : octoCache[p].until <= octoCache[p].dies
    /\ \A c \in Callers : asking[c].tok.until <= asking[c].tok.dies

\* What Fetch hands over has more than the margin of life left, whether it was
\* cached, filled by this caller or by another (octosts.go Fetch).
FetchLeavesMargin ==
    \A c \in Callers :
        (asking[c].kind = "octo_sts" /\ asking[c].pc = "returned" /\ asking[c].answer = "ok")
            => asking[c].left > TTLMargin

\* One fill per purpose, and nobody waits on a fill that has no leader: a
\* failed or cancelled leader still answers everyone who joined it.
FillIsShared ==
    /\ \A p \in Purposes :
         Cardinality({c \in Callers : /\ asking[c].pc \in {"read", "exchange", "issued"}
                                      /\ asking[c].purpose = p /\ ~asking[c].mint}) <= 1
    /\ \A c \in Callers : asking[c].pc = "waiting" =>
         /\ octoFill[asking[c].purpose] # NoCaller
         /\ asking[octoFill[asking[c].purpose]].pc \in {"read", "exchange", "issued"}

\* The agent's publish credential was minted for this attempt, and it is alive
\* with the margin to spare for as long as the attempt may run (MintPublish).
AttemptIsCovered ==
    \A c \in Callers : (asking[c].pc = "attempt" /\ asking[c].kind # "static") =>
        /\ asking[c].tok.born >= asking[c].since
        /\ asking[c].sent + AttemptTimeout + TTLMargin <= asking[c].tok.dies

\* A timeout that load admitted is one a launch can satisfy: an exchanged token
\* is refused for its lifetime only when the launch dawdled past the handoff
\* allowance (sources.go checkPublishTTL, octosts.go octoDeadlineHandoff).
RefusedFor(kind) ==
    {c \in Callers : /\ asking[c].kind = kind /\ asking[c].pc = "returned"
                     /\ asking[c].answer = "permanent" /\ asking[c].tok # NoToken}
LoadedTimeoutFits == \A c \in RefusedFor("octo_sts") : asking[c].sent > DeadlineHandoff

\* The same, of a projected publish source.
\* Not an invariant of the code: README, section 5.
LoadedTimeoutFitsProjection ==
    \A c \in RefusedFor("projected_oidc") : asking[c].sent > DeadlineHandoff

CredSafe ==
    /\ CredTypeOK /\ DeadlineIsHonoured /\ FetchLeavesMargin
    /\ FillIsShared /\ AttemptIsCovered /\ LoadedTimeoutFits

=============================================================================
