----------------------------- MODULE ReviewSweep -----------------------------
(***************************************************************************)
(* The review controller's sweep (internal/reviewctl): candidates are      *)
(* discovered a slice at a time, kept in a queue until they settle, and     *)
(* every request passes a gate that paces, backs off and bounds the sweep.  *)
(* Times are what is left of them, so that the clock needs no bound.        *)
(***************************************************************************)
EXTENDS Naturals, Sequences, FiniteSets, SequencesExt

CONSTANTS Listing,       \* per phase, the pages of issue numbers it lists
          Price,      \* Price[n]: what settling issue n costs
          SweepBudget, PaceRequests, PaceWindow, LatestBackoff

ASSUME SweepAssumption == SweepBudget > 0 /\ PaceRequests > 0 /\ LatestBackoff > 0

VARIABLES fgate,      \* the reservation point
          scan,      \* the retained discovery cursor
          sweep,     \* the sweep that runs
          pendQ,   \* candidates not settled yet
          retryAt,   \* retryBudgetAt
          tried,     \* issues attempted since the scan began
          passedBy   \* sweeps that spent the budget on others while n waited

sweepVars == <<fgate, scan, sweep, pendQ, retryAt, tried, passedBy>>

Candidate == DOMAIN Price
Classes == {"candidates", "issue"}
\* Two sweeps for each candidate ahead, then its own.
Patience == 2 * Cardinality(Candidate)

NoScan == [phase |-> 0, page |-> 0, seen |-> {}]
AtRestSweep == [pc |-> "rest", dedicated |-> FALSE, found |-> <<>>, left |-> 0]
Lower(n) == IF n = 0 THEN 0 ELSE n - 1
UpTo(n, m) == IF n < m THEN n ELSE m

SweepInit ==
    /\ fgate = [window |-> 0, paced |-> 0, blocked |-> 0, used |-> 0, failures |-> [c \in Classes |-> 0]]
    /\ scan = NoScan /\ sweep = AtRestSweep
    /\ pendQ = <<>> /\ retryAt = 0 /\ tried = {}
    /\ passedBy = [n \in Candidate |-> 0]

Tick ==
    /\ fgate.window + fgate.blocked > 0
    /\ fgate' = [fgate EXCEPT !.window = Lower(@), !.blocked = Lower(@)]
    /\ UNCHANGED <<scan, sweep, pendQ, retryAt, tried, passedBy>>

-----------------------------------------------------------------------------
(* The gate. *)

\* acquire: a backoff and a spent budget refuse, a full window waits.
Refusal == IF fgate.blocked > 0 THEN "rate" ELSE IF fgate.used >= SweepBudget THEN "budget" ELSE ""
MustWait == fgate.window > 0 /\ fgate.paced >= PaceRequests

Acquired(g) ==
    IF g.window = 0 THEN [g EXCEPT !.window = PaceWindow, !.paced = 1, !.used = @ + 1]
    ELSE [g EXCEPT !.paced = @ + 1, !.used = @ + 1]

\* secondaryBackoffUntil: doubled for each refusal in a row, saturating.
Backoff(failures) == UpTo(2 ^ (failures - 1), LatestBackoff)

\* A response: what it says of the rate and for how long.
Responses ==
    [limited : {FALSE}, secondary : {FALSE}, told : {0}] \union
    [limited : BOOLEAN, secondary : {FALSE}, told : 1..LatestBackoff] \union
    [limited : {TRUE}, secondary : {TRUE}, told : 0..1]

Failed(g, class) == [g EXCEPT !.failures[class] = UpTo(@ + 1, LatestBackoff)]
Until(g, class, r) == IF r.told > 0 THEN r.told ELSE Backoff(g.failures[class])

\* observe: a declared backoff closes the gate and is never shortened.
GateObserved(g, class, r) ==
    IF ~r.limited /\ r.told = 0 THEN g
    ELSE LET h == IF r.secondary THEN Failed(g, class) ELSE g
             u == Until(h, class, r)
         IN  [h EXCEPT !.blocked = IF u > @ THEN u ELSE @]

Succeed(g, class) == [g EXCEPT !.failures[class] = 0]

\* do: one request, any of its redirects another pass of the gate.
Do(class, r, ok) ==
    LET g == GateObserved(Acquired(fgate), class, r)
    IN  fgate' = IF ok THEN Succeed(g, class) ELSE g

-----------------------------------------------------------------------------
(* Discovery: Candidates. *)

StartScan == [phase |-> 1, page |-> 1, seen |-> {}]
LastPage(s) == s.page = Len(Listing[s.phase])

\* The cursor after a page: the next page, the next phase, or the end.
ScanAfter(s) ==
    LET got == [s EXCEPT !.seen = @ \union ToSet(Listing[s.phase][s.page])]
    IN  IF ~LastPage(s) THEN [got EXCEPT !.page = @ + 1]
        ELSE IF s.phase < Len(Listing) THEN [got EXCEPT !.phase = @ + 1, !.page = 1]
        ELSE NoScan

NewOn(s) == SelectSeq(Listing[s.phase][s.page], LAMBDA n : n \notin s.seen)
DiscoveryLimit == IF SweepBudget \div 2 < 1 THEN 1 ELSE SweepBudget \div 2

\* appendPending.
Appended(q, found) == q \o SelectSeq(found, LAMBDA n : n \notin ToSet(q))

\* How long each has been waiting, once a sweep has spent its budget.
Waited(spent, next, keep) ==
    [n \in Candidate |-> IF n \notin ToSet(next) \/ n = keep THEN 0
                         ELSE IF spent THEN UpTo(passedBy[n] + 1, Patience + 1) ELSE passedBy[n]]

BeginSweep ==
    /\ sweep.pc = "rest"
    /\ fgate' = [fgate EXCEPT !.used = 0]
    /\ IF retryAt # 0
       THEN /\ sweep' = [AtRestSweep EXCEPT !.pc = "head", !.dedicated = TRUE]
            /\ UNCHANGED <<scan, tried>>
       ELSE /\ sweep' = [AtRestSweep EXCEPT !.pc = "discover"]
            /\ scan' = IF scan = NoScan THEN StartScan ELSE scan
            /\ tried' = IF scan = NoScan THEN {} ELSE tried
    /\ UNCHANGED <<pendQ, retryAt, passedBy>>

\* Mutant: a slice that failed reports nothing.
DiscoveredOrNothing(err, found) ==
    /\ pendQ' = Appended(pendQ, IF err = "" THEN found ELSE <<>>)
    /\ retryAt' = IF err = "budget" /\ pendQ' # <<>> THEN pendQ'[1] ELSE retryAt
    /\ passedBy' = Waited(err = "budget", pendQ', 0)
    /\ sweep' = IF err = "" THEN [sweep EXCEPT !.pc = "head", !.found = <<>>] ELSE AtRestSweep

\* The slice ends: what it found joins the queue, with or without an error.
Discovered(err, found) ==
    /\ pendQ' = Appended(pendQ, found)
    /\ retryAt' = IF err = "budget" /\ pendQ' # <<>> THEN pendQ'[1] ELSE retryAt
    /\ passedBy' = Waited(err = "budget", pendQ', 0)
    /\ sweep' = IF err = "" THEN [sweep EXCEPT !.pc = "head", !.found = <<>>] ELSE AtRestSweep

DiscoverRefused ==
    /\ sweep.pc = "discover" /\ Refusal # ""
    /\ Discovered(Refusal, sweep.found)
    /\ UNCHANGED <<fgate, scan, tried>>

DiscoverPage ==
    /\ sweep.pc = "discover" /\ Refusal = "" /\ ~MustWait
    /\ \E r \in Responses, how \in {"page", "redirect", "error"} :
          /\ r.limited => how = "error"
          /\ Do("candidates", r, how = "page")
          /\ CASE how = "error" -> Discovered(IF r.limited THEN "rate" ELSE "error", sweep.found) /\ UNCHANGED scan
               [] how = "redirect" -> UNCHANGED <<scan, sweep, pendQ, retryAt, passedBy>>
               [] how = "page" ->
                    /\ scan' = ScanAfter(scan)
                    /\ IF scan' = NoScan \/ fgate'.used >= DiscoveryLimit
                       THEN Discovered("", sweep.found \o NewOn(scan))
                       ELSE sweep' = [sweep EXCEPT !.found = @ \o NewOn(scan)] /\ UNCHANGED <<pendQ, retryAt, passedBy>>
    /\ UNCHANGED tried

-----------------------------------------------------------------------------
(* The loop over the queue. *)

NextIssue ==
    /\ sweep.pc = "head"
    /\ IF pendQ = <<>>
       THEN sweep' = AtRestSweep /\ retryAt' = 0 /\ UNCHANGED tried
       ELSE /\ sweep' = [sweep EXCEPT !.pc = "issue", !.left = Price[pendQ[1]]]
            /\ tried' = tried \union {pendQ[1]}
            /\ UNCHANGED retryAt
    /\ UNCHANGED <<fgate, scan, pendQ, passedBy>>

\* Reconcile is refused the network: the sweep ends here.  A spent budget gets
\* the issue one sweep of its own, and after that the back of the queue.
Rotated == Tail(pendQ) \o <<pendQ[1]>>

\* Mutant: the exhausted issue keeps its place.
StoppedStubborn(err) ==
    IF err # "budget" THEN <<pendQ, retryAt>>
    ELSE IF sweep.dedicated /\ pendQ[1] = retryAt THEN <<pendQ, 0>>
    ELSE <<pendQ, pendQ[1]>>

Stopped(err) ==
    IF err # "budget" THEN <<pendQ, retryAt>>
    ELSE IF sweep.dedicated /\ pendQ[1] = retryAt THEN <<Rotated, 0>>
    ELSE <<pendQ, pendQ[1]>>

SweepStops(err) ==
    /\ pendQ' = Stopped(err)[1] /\ retryAt' = Stopped(err)[2]
    /\ passedBy' = Waited(err = "budget", pendQ', pendQ[1])
    /\ sweep' = AtRestSweep

\* Mutant: the retry is not forgotten once the issue has settled.
IssueDoneOwing ==
    /\ pendQ' = Tail(pendQ) /\ UNCHANGED retryAt
    /\ passedBy' = [passedBy EXCEPT ![pendQ[1]] = 0]
    /\ sweep' = [sweep EXCEPT !.pc = "head", !.left = 0, !.dedicated = @ /\ retryAt # pendQ[1]]

\* The issue settled, or failed for a reason of its own.
IssueDone ==
    /\ pendQ' = Tail(pendQ)
    /\ retryAt' = IF retryAt = pendQ[1] THEN 0 ELSE retryAt
    /\ passedBy' = [passedBy EXCEPT ![pendQ[1]] = 0]
    /\ sweep' = [sweep EXCEPT !.pc = "head", !.left = 0, !.dedicated = @ /\ retryAt # pendQ[1]]

IssueRefused ==
    /\ sweep.pc = "issue" /\ Refusal # ""
    /\ SweepStops(Refusal)
    /\ UNCHANGED <<fgate, scan, tried>>

IssueRequest ==
    /\ sweep.pc = "issue" /\ Refusal = "" /\ ~MustWait
    /\ \E r \in Responses, how \in {"ok", "redirect", "error"} :
          /\ r.limited => how = "error"
          /\ Do("issue", r, how = "ok")
          /\ CASE r.limited -> SweepStops("rate")
               [] how = "error" /\ ~r.limited -> IssueDone
               [] how = "redirect" -> UNCHANGED <<sweep, pendQ, retryAt, passedBy>>
               [] how = "ok" /\ sweep.left > 1 ->
                    sweep' = [sweep EXCEPT !.left = @ - 1] /\ UNCHANGED <<pendQ, retryAt, passedBy>>
               [] how = "ok" /\ sweep.left <= 1 -> IssueDone
    /\ UNCHANGED <<scan, tried>>

\* The context ends: the queue is kept as it is.
SweepCancelled ==
    /\ sweep.pc \in {"discover", "issue"}
    /\ IF sweep.pc = "discover" THEN Discovered("error", sweep.found)
       ELSE sweep' = AtRestSweep /\ UNCHANGED <<pendQ, retryAt, passedBy>>
    /\ UNCHANGED <<fgate, scan, tried>>

SweepNext ==
    \/ Tick \/ BeginSweep \/ DiscoverRefused \/ DiscoverPage \/ NextIssue
    \/ IssueRefused \/ IssueRequest \/ SweepCancelled
SweepSpec == SweepInit /\ [][SweepNext]_sweepVars

-----------------------------------------------------------------------------
(* Properties. *)

SweepTypeOK ==
    /\ fgate.blocked \in 0..LatestBackoff /\ fgate.paced \in 0..PaceRequests /\ fgate.used <= SweepBudget
    /\ scan = NoScan \/ (scan.phase \in DOMAIN Listing /\ scan.page \in DOMAIN Listing[scan.phase])
    /\ \A i, j \in DOMAIN pendQ : pendQ[i] = pendQ[j] => i = j

\* An issue a scan has named is queued or has been attempted since: the cursor
\* has moved past it (forge.go:650), so nothing else would bring it back.
NothingSeenIsLost == scan.seen \subseteq ToSet(pendQ) \union tried \union ToSet(sweep.found)

\* A dedicated sweep is spent on the issue it was granted to (controller.go:136).
RetryIsHead == retryAt # 0 => pendQ # <<>> /\ pendQ[1] = retryAt

\* No candidate waits for more than two spent sweeps for each one ahead of it:
\* an issue that can never fit in a budget does not starve the others (#239).
NobodyStarves == \A n \in Candidate : passedBy[n] <= Patience

\* The sweep's discovery, its retries and its queue.
SweepSafe == SweepTypeOK /\ NothingSeenIsLost /\ RetryIsHead /\ NobodyStarves
=============================================================================
