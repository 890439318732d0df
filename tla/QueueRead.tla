----------------------------- MODULE QueueRead ------------------------------
(***************************************************************************)
(* The queue read of the GitHub adapter (Fetch) and the conditional cache  *)
(* under it (condCache).  A fetch walks the pages of the issue list and,   *)
(* for each issue whose verdict still depends on them, reads its blockers. *)
(* Every GET goes through the cache: it carries the ETag of the entry it   *)
(* found, a 304 replays that entry's body with the headers stored beside   *)
(* it, and any other answer replaces or drops the entry.  The cache is     *)
(* bounded in entries and in bytes and evicts the least recently used.     *)
(*                                                                         *)
(* Other workers read through the same cache while a fetch is under way,   *)
(* and the tracker changes between any two requests, so an answer may be   *)
(* stored after a newer one.  An ETag stands for the body it was sent with.*)
(***************************************************************************)
EXTENDS Naturals, Integers, Sequences, FiniteSets, SequencesExt, FiniteSetsExt

CONSTANTS MaxIssues,      \* issues that ever enter the queue
          IssuesPerPage,  \* issues on a full page
          MaxCached, MaxBytes, MaxEntry,   \* the bounds of the cache
          MaxQueueEvents  \* changes of the tracker and failed requests, together

ASSUME QueueAssumption ==
    /\ {MaxIssues, IssuesPerPage, MaxCached, MaxBytes, MaxEntry, MaxQueueEvents} \subseteq Nat
    /\ IssuesPerPage > 0 /\ MaxCached > 0 /\ MaxEntry <= MaxBytes

VARIABLES queue,     \* the tracker: its issues, oldest first
          cached,    \* the cache: what is stored under a key
          recent,    \* the cache: the stored keys, least recently used first
          stored,    \* the cache: the running byte count
          request,   \* the requests in flight, per worker
          walk,      \* the fetch: where it is and what it has
          queueEvents,  \* changes and failures so far
          during     \* ghost: what was true of the queue since the fetch began

queueVars == <<queue, cached, recent, stored, request, walk, queueEvents, during>>

Issues == 1..MaxIssues
PageKeys == {<<"page", p>> : p \in 1..(MaxIssues + 1)}
BlockerKeys == {<<"blockers", i>> : i \in Issues}
Keys == PageKeys \cup BlockerKeys
Workers == {"fetch", "other"}

(* An issue's kind: ready to dispatch, ruled out by its own labels, state  *)
(* or assignees, a pull request the endpoint lists as well, or out of the  *)
(* queue.                                                                  *)
QueueKinds == {"ready", "ruledOut", "pull", "away"}
Dependencies == {"none", "open", "closed"}

Listed(q) == SelectSeq([i \in DOMAIN q |-> [id |-> i, kind |-> q[i].kind, depends |-> q[i].on # "none"]],
                       LAMBDA e : e.kind # "away")
PageBody(q, p) == LET all == Listed(q)
                      last == IF p * IssuesPerPage < Len(all) THEN p * IssuesPerPage ELSE Len(all)
                  IN SubSeq(all, (p - 1) * IssuesPerPage + 1, last)
Body(q, key) == IF key[1] = "page" THEN PageBody(q, key[2]) ELSE <<q[key[2]].on>>
MorePages(key) == key[1] = "page" /\ Len(Listed(queue)) > key[2] * IssuesPerPage

NoEntry == [on |-> FALSE]
NotModified == NoEntry
Entry(body, more) == [on |-> TRUE, body |-> body, more |-> more]
NoRequest == [at |-> "none"]
NoWalk == [at |-> "idle", page |-> 0, todo |-> <<>>, result |-> {}, more |-> FALSE]

-----------------------------------------------------------------------------
(* condCache.                                                              *)

OtherRecent(key) == SelectSeq(recent, LAMBDA k : k # key)
Touched(key) == Append(OtherRecent(key), key)

(* RoundTrip up to the send: the entry found here is the one whose ETag    *)
(* the request carries.                                                    *)
SendGet(w, key) ==
    /\ request' = [request EXCEPT ![w] = [at |-> "sent", key |-> key, entry |-> cached[key],
                                          seen |-> {Body(queue, key)}, answer |-> NotModified]]
    /\ recent' = IF cached[key].on THEN Touched(key) ELSE recent

OriginAnswers(w) ==
    /\ request[w].at = "sent"
    /\ LET r == request[w]
           fresh == r.entry.on /\ r.entry.body = Body(queue, r.key)
       IN request' = [request EXCEPT ![w].at = "answered",
                         ![w].answer = IF fresh THEN NotModified ELSE Entry(Body(queue, r.key), MorePages(r.key))]
    /\ UNCHANGED <<queue, cached, recent, stored, walk, queueEvents, during>>

SizeOf(body) == Len(body)

(* drop: the entry and its bytes go together.                              *)
Without(c, key) == [c EXCEPT !.of[key] = NoEntry, !.lru = SelectSeq(@, LAMBDA k : k # key),
                             !.bytes = @ - (IF c.of[key].on THEN SizeOf(c.of[key].body) ELSE 0)]

(* evictFor: least recently used first, until both bounds admit the body.  *)
EvictFor(c, n) ==
    LET fits(k) == /\ Len(c.lru) - k < MaxCached
                   /\ c.bytes - FoldSet(LAMBDA i, sum : sum + SizeOf(c.of[c.lru[i]].body), 0, 1..k) + n <= MaxBytes
        k == Min({j \in 0..Len(c.lru) : fits(j) \/ j = Len(c.lru)})
    IN FoldSet(LAMBDA i, rest : Without(rest, c.lru[i]), c, 1..k)

(* Mutant: the entry being replaced keeps its bytes on the books.          *)
StoreAnswerOver(c, key, entry) ==
    IF SizeOf(entry.body) > MaxEntry THEN Without(c, key)
    ELSE LET room == EvictFor(c, SizeOf(entry.body))
         IN [of |-> [room.of EXCEPT ![key] = entry],
             lru |-> Append(SelectSeq(room.lru, LAMBDA k : k # key), key),
             bytes |-> room.bytes + SizeOf(entry.body)]

(* store: whatever was there goes first; a body too large is not kept.     *)
StoreAnswer(c, key, entry) ==
    LET gone == Without(c, key)
        room == EvictFor(gone, SizeOf(entry.body))
    IN IF SizeOf(entry.body) > MaxEntry THEN gone
       ELSE [of |-> [room.of EXCEPT ![key] = entry], lru |-> Append(room.lru, key),
             bytes |-> room.bytes + SizeOf(entry.body)]

Cache == [of |-> cached, lru |-> recent, bytes |-> stored]
SetCache(c) == cached' = c.of /\ recent' = c.lru /\ stored' = c.bytes

(* Mutant: a 304 replays whatever is stored under the key by now.          *)
ReplyStored(w) ==
    LET r == request[w]
    IN IF r.answer.on THEN r.answer
       ELSE IF cached[r.key].on THEN cached[r.key] ELSE r.entry

(* replay: the entry the ETag came from.                                   *)
Reply(w) == LET r == request[w] IN IF r.answer.on THEN r.answer ELSE r.entry

Received(w) == IF request[w].answer.on THEN StoreAnswer(Cache, request[w].key, request[w].answer) ELSE Cache

-----------------------------------------------------------------------------
(* Fetch: list, and applyVerdict for every issue on a page.                *)

NeedsBlockers(e) == e.kind = "ready" /\ e.depends

(* Mutant: an issue that may have blockers is settled without asking.      *)
SettledAnyway(todo) == Len(todo)

(* The issues at the head of a page whose verdict takes no request.        *)
SettledHead(todo) == Min({k \in 0..Len(todo) : k = Len(todo) \/ NeedsBlockers(todo[k + 1])})

VerdictOf(e, blockers) == [id |-> e.id, ok |-> e.kind = "ready" /\ blockers # <<"open">>]

WalkedOn(wk) ==
    LET n == SettledHead(wk.todo)
        rest == SubSeq(wk.todo, n + 1, Len(wk.todo))
        got == wk.result \cup {VerdictOf(wk.todo[i], <<>>) : i \in 1..n}
    IN CASE rest # <<>> -> [wk EXCEPT !.at = "blockers", !.todo = rest, !.result = got]
         [] rest = <<>> /\ wk.more -> [wk EXCEPT !.at = "page", !.page = @ + 1, !.todo = rest, !.result = got]
         [] OTHER -> [wk EXCEPT !.at = "done", !.todo = rest, !.result = got]

WalkedPage(reply) ==
    WalkedOn([walk EXCEPT !.todo = SelectSeq(reply.body, LAMBDA e : e.kind # "pull"), !.more = reply.more])
WalkedBlockers(reply) ==
    WalkedOn([walk EXCEPT !.result = @ \cup {VerdictOf(Head(walk.todo), reply.body)}, !.todo = Tail(@)])

TrueNow(q) == [changed |-> FALSE,
               ready |-> {i \in DOMAIN q : q[i].kind = "ready"},
               free |-> {i \in DOMAIN q : q[i].on # "open"}]

FetchBegins ==
    /\ walk.at = "idle"
    /\ walk' = [NoWalk EXCEPT !.at = "page", !.page = 1]
    /\ during' = TrueNow(queue)
    /\ UNCHANGED <<queue, cached, recent, stored, request, queueEvents>>

FetchReturns ==
    /\ walk.at = "done"
    /\ walk' = NoWalk /\ during' = TrueNow(<<>>)
    /\ UNCHANGED <<queue, cached, recent, stored, request, queueEvents>>

FetchSends ==
    /\ walk.at \in {"page", "blockers"} /\ request["fetch"] = NoRequest
    /\ SendGet("fetch", IF walk.at = "page" THEN <<"page", walk.page>> ELSE <<"blockers", Head(walk.todo).id>>)
    /\ UNCHANGED <<queue, cached, stored, walk, queueEvents, during>>

FetchReceives ==
    /\ request["fetch"].at = "answered"
    /\ SetCache(Received("fetch"))
    /\ walk' = IF walk.at = "page" THEN WalkedPage(Reply("fetch")) ELSE WalkedBlockers(Reply("fetch"))
    /\ request' = [request EXCEPT !["fetch"] = NoRequest]
    /\ UNCHANGED <<queue, queueEvents, during>>

OtherSends ==
    /\ request["other"] = NoRequest
    /\ SendGet("other", <<"page", 1>>)
    /\ UNCHANGED <<queue, cached, stored, walk, queueEvents, during>>

OtherReceives ==
    /\ request["other"].at = "answered"
    /\ SetCache(Received("other"))
    /\ request' = [request EXCEPT !["other"] = NoRequest]
    /\ UNCHANGED <<queue, walk, queueEvents, during>>

(* A request fails; where an answer came without a usable body the entry   *)
(* is dropped.  The fetch fails closed: it returns no issues at all.       *)
RequestErrs(w) ==
    /\ request[w] # NoRequest /\ queueEvents < MaxQueueEvents
    /\ \E unusable \in BOOLEAN :
          SetCache(IF unusable THEN Without(Cache, request[w].key) ELSE Cache)
    /\ request' = [request EXCEPT ![w] = NoRequest]
    /\ walk' = IF w = "fetch" THEN NoWalk ELSE walk
    /\ during' = IF w = "fetch" THEN TrueNow(<<>>) ELSE during
    /\ queueEvents' = queueEvents + 1
    /\ UNCHANGED queue

(* The tracker changes: an issue enters the queue, or its kind or its      *)
(* blockers change.                                                        *)
QueueChanges ==
    /\ queueEvents < MaxQueueEvents
    /\ \/ /\ Len(queue) < MaxIssues
          /\ \E d \in Dependencies : queue' = Append(queue, [kind |-> "ready", on |-> d])
       \/ \E i \in DOMAIN queue, k \in QueueKinds : k # queue[i].kind /\ queue' = [queue EXCEPT ![i].kind = k]
       \/ \E i \in DOMAIN queue, d \in Dependencies : d # queue[i].on /\ queue' = [queue EXCEPT ![i].on = d]
    /\ queueEvents' = queueEvents + 1
    /\ during' = IF walk.at = "idle" THEN during
                 ELSE [changed |-> TRUE, ready |-> during.ready \cup TrueNow(queue').ready,
                       free |-> during.free \cup TrueNow(queue').free]
    /\ request' = [w \in Workers |-> IF request[w].at # "sent" THEN request[w]
                      ELSE [request[w] EXCEPT !.seen = @ \cup {Body(queue', request[w].key)}]]
    /\ UNCHANGED <<cached, recent, stored, walk>>

QueueInit ==
    /\ queue = <<[kind |-> "ready", on |-> "none"], [kind |-> "ready", on |-> "open"]>>
    /\ cached = [k \in Keys |-> NoEntry] /\ recent = <<>> /\ stored = 0
    /\ request = [w \in Workers |-> NoRequest] /\ walk = NoWalk
    /\ queueEvents = 0 /\ during = TrueNow(<<>>)

QueueNext ==
    \/ FetchBegins \/ FetchSends \/ FetchReceives \/ FetchReturns \/ OtherSends \/ OtherReceives \/ QueueChanges
    \/ \E w \in Workers : OriginAnswers(w) \/ RequestErrs(w)

QueueSpec == QueueInit /\ [][QueueNext]_queueVars

-----------------------------------------------------------------------------
QueueTypeOK ==
    /\ \A i \in DOMAIN queue : queue[i].kind \in QueueKinds /\ queue[i].on \in Dependencies
    /\ walk.at \in {"idle", "page", "blockers", "done"} /\ queueEvents \in 0..MaxQueueEvents

(* The cache holds what its books say and no more than its bounds, through *)
(* replacements, evictions and answers stored out of order.                *)
CacheIsAccounted ==
    LET on == {k \in Keys : cached[k].on}
    IN /\ ToSet(recent) = on /\ Len(recent) = Cardinality(on) /\ Len(recent) <= MaxCached
       /\ stored = FoldSet(LAMBDA k, sum : sum + SizeOf(cached[k].body), 0, on)
       /\ stored <= MaxBytes

(* A body handed to a caller, cached or not, was the tracker's own while   *)
(* the request was under way.                                              *)
AnswersAreCurrent ==
    \A w \in Workers : request[w].at = "answered" => Reply(w).body \in request[w].seen

(* An issue is reported dispatchable only if, during this fetch, it stood  *)
(* ready in the queue and had no open blocker.                             *)
VerdictWasTrue ==
    walk.at = "done" => \A r \in walk.result : r.ok => r.id \in during.ready /\ r.id \in during.free

(* Where nothing changed during the fetch, each verdict is the right one.  *)
QuietVerdictIsExact ==
    (walk.at = "done" /\ ~during.changed) =>
        \A r \in walk.result : r.ok <=> (queue[r.id].kind = "ready" /\ queue[r.id].on # "open")

QueueSafe == QueueTypeOK /\ CacheIsAccounted /\ AnswersAreCurrent /\ VerdictWasTrue /\ QuietVerdictIsExact

(* Fetch is documented as the read of every issue carrying the required    *)
(* labels: one during which nothing changed returns all of them.           *)
(* Not an invariant of the code: README, section 5.                        *)
QuietFetchIsComplete ==
    (walk.at = "done" /\ ~during.changed) =>
        {r.id : r \in walk.result} = {i \in DOMAIN queue : queue[i].kind \notin {"away", "pull"}}
=============================================================================
