---------------------------- MODULE RequestBudget ----------------------------
(***************************************************************************)
(* The request budget of the GitHub tracker (tracker/github/budget.go) and *)
(* its rate gate (ratelimit.go): concurrent requests reserve capacity      *)
(* before they reach the network, a Claim reserves its whole sequence as a *)
(* lease, and a reservation is attempted and settled, or returned.         *)
(*                                                                         *)
(* Four allowances refill with time: the primary one (a request each), the *)
(* secondary points, and the content requests of a minute and of an hour.  *)
(* Credits are fixed point: Unit[b] credits make one request or point.     *)
(* A reservation's window and report epoch matter only as "the current     *)
(* one", so they are kept as booleans that a new window or tick clears.    *)
(***************************************************************************)
EXTENDS Integers, FiniteSets, FiniteSetsExt

CONSTANTS
    Requests,     \* requests made outside a Claim, once each
    Kinds,        \* what they may be: a subset of AllKinds
    Limit,        \* billedPerTick
    Burst, Unit, Rate, \* of each allowance: size, credits per request, refill
    WritePoints,  \* secondary points of a write
    Window,       \* the burst window's ceiling, in clock steps
    MaxClock,     \* bound: clock steps
    MaxTicks      \* bound: BeginTick calls

VARIABLES
    clock,
    credit, held,  \* per allowance: spendable, and held for unattempted requests
    refilled,      \* when the credits were last refilled
    window,        \* opened, used, unattempted
    borrowed,      \* a conditional probe's loan is outstanding
    resv,          \* every reservation
    lease,         \* "none", "open", "closed"
    gate,          \* the rate gate is shut until this time
    unresolved,       \* requests of this report epoch in flight
    ticks,
    load, spent, burst  \* history: leaky load, requests spent, spent in the window

budgetVars == <<clock, credit, held, refilled, window, borrowed, resv, lease, gate,
                unresolved, ticks, load, spent, burst>>

Allowances == {"primary", "secondary", "minute", "hour"}
AllKinds == [write : BOOLEAN, conditional : BOOLEAN, wait : BOOLEAN]
BudgetStages == {"assign", "verify", "release"}   \* claimStage
Reservations == Requests \cup BudgetStages

\* requestCostForMethod.
Cost(write) == [primary |-> 1, secondary |-> IF write THEN WritePoints ELSE 1,
                minute |-> IF write THEN 1 ELSE 0, hour |-> IF write THEN 1 ELSE 0]
\* claimLeaseCosts, and the floor ordinary traffic leaves for a Claim.
LeaseCost(stage) == Cost(stage # "verify")
ClaimFloor(write) == [primary |-> 0, secondary |-> 2 * WritePoints + 1,
                      minute |-> IF write THEN 2 ELSE 0, hour |-> IF write THEN 2 ELSE 0]

CostOf(r) == IF r \in BudgetStages THEN LeaseCost(r) ELSE Cost(resv[r].kind.write)
Credits(cost) == [b \in Allowances |-> cost[b] * Unit[b]]
Plus(f, g) == [b \in Allowances |-> f[b] + g[b]]
Minus(f, g) == [b \in Allowances |-> f[b] - g[b]]
Capacity(h) == [b \in Allowances |-> Burst[b] * Unit[b] - h[b]]
AtMost(f, cap) == [b \in Allowances |-> IF f[b] < cap[b] THEN f[b] ELSE cap[b]]

-----------------------------------------------------------------------------
(* Refill and windows; every call under the mutex begins with them.        *)

\* refillLocked: what is held for an unattempted request does not refill.
Refilled ==
    IF clock = refilled THEN credit
    ELSE AtMost([b \in Allowances |-> credit[b] + (clock - refilled) * Rate[b]],
                Capacity(held))

\* openLocked carries the reservations that may still reach the network.
OpenedWindow == [window EXCEPT !.opened = clock, !.used = window.unattempted]

\* rollIfStaleLocked
Stale == clock - window.opened >= Window
Rolled == IF Stale THEN OpenedWindow ELSE window

\* A new window: no reservation made so far is of it.
Aged(rs) == [r \in Reservations |-> [rs[r] EXCEPT !.current = FALSE]]
RolledResv == IF Stale THEN Aged(resv) ELSE resv
RolledBurst == IF Stale THEN 0 ELSE burst

-----------------------------------------------------------------------------
(* A request outside a lease: RoundTrip.                                   *)

\* reserveOneWithCostLocked: the window, the three secondary allowances with
\* the Claim's floor, and a primary credit or the one loan.
Admissible(kind, w, c) ==
    /\ w.used < (IF kind.conditional THEN Limit ELSE Limit - 1)
    /\ \A b \in Allowances \ {"primary"} :
            c[b] >= (Cost(kind.write)[b] + ClaimFloor(kind.write)[b]) * Unit[b]
    /\ \/ c.primary >= Unit.primary
       \/ kind.conditional /\ c.primary >= 0 /\ ~borrowed

\* RoundTrip looks at the gate before it asks for capacity.
GateCheck(r) ==
    /\ resv[r].state = "idle"
    /\ \E k \in Kinds :
        resv' = [resv EXCEPT ![r].kind = k,
                   ![r].state = IF clock < gate THEN "refused" ELSE "admit"]
    /\ UNCHANGED <<clock, credit, held, refilled, window, borrowed, lease, gate, unresolved,
                   ticks, load, spent, burst>>

\* acquireCost: one turn of its loop.  It reserves, refuses, or waits for the
\* timer or a wake and turns again.
Acquire(r) ==
    LET kind == resv[r].kind  c == Refilled  w == Rolled
        cost == Credits(Cost(kind.write))
    IN  /\ resv[r].state = "admit"
        /\ credit' = IF Admissible(kind, w, c) THEN Minus(c, cost) ELSE c
        /\ held' = IF Admissible(kind, w, c) THEN Plus(held, cost) ELSE held
        /\ window' = IF Admissible(kind, w, c)
                     THEN [w EXCEPT !.used = @ + 1, !.unattempted = @ + 1] ELSE w
        /\ LET loan == c.primary < Unit.primary IN
            IF Admissible(kind, w, c)
            THEN /\ borrowed' = (borrowed \/ loan)
                 /\ resv' = [RolledResv EXCEPT ![r] = [@ EXCEPT !.state = "reserved",
                                !.current = TRUE, !.loan = loan]]
            ELSE /\ UNCHANGED borrowed
                 /\ resv' = IF ~kind.conditional /\ ~kind.wait
                            THEN [RolledResv EXCEPT ![r].state = "refused"] ELSE RolledResv
        /\ refilled' = clock /\ burst' = RolledBurst
        /\ UNCHANGED <<clock, lease, gate, unresolved, ticks, load, spent>>

\* A waiter's context ends.
CancelWait(r) ==
    /\ resv[r].state = "admit"
    /\ resv' = [resv EXCEPT ![r].state = "refused"]
    /\ UNCHANGED <<clock, credit, held, refilled, window, borrowed, lease, gate, unresolved,
                   ticks, load, spent, burst>>

-----------------------------------------------------------------------------
(* Attempt, settlement and return.                                         *)

\* markAttempted: refill while still held, then the hold is gone; a carried
\* reservation is rebased to the window that counted it.
Attempt(r) ==
    LET cost == Credits(CostOf(r)) IN
    /\ credit' = Refilled /\ refilled' = clock
    /\ held' = Minus(held, cost)
    /\ window' = [window EXCEPT !.unattempted = @ - 1]
    /\ resv' = [resv EXCEPT ![r] = [@ EXCEPT !.state = "sent", !.epoch = TRUE, !.current = TRUE]]
    /\ unresolved' = unresolved + 1
    /\ load' = Plus(load, cost) /\ spent' = spent + 1 /\ burst' = burst + 1

\* releaseUnused of a reservation that was never attempted: everything back.
ReturnAll(rs) ==
    LET cost == [b \in Allowances |-> MapThenSumSet(LAMBDA r : Credits(CostOf(r))[b], rs)]
    IN  /\ held' = Minus(held, cost)
        /\ credit' = AtMost(Plus(Refilled, cost), Capacity(Minus(held, cost)))
        /\ refilled' = clock
        /\ window' = [window EXCEPT !.unattempted = @ - Cardinality(rs),
                                    !.used = @ - Cardinality(rs)]
        /\ borrowed' = (borrowed /\ \A r \in rs : ~resv[r].loan)

\* RoundTrip after admission: the gate again, the refreshed credential and the
\* network deadline may each return the reservation; else it is attempted.
Send(r) ==
    /\ resv[r].state = "reserved" /\ r \in Requests
    /\ \/ /\ clock >= gate
          /\ Attempt(r)
          /\ UNCHANGED borrowed
       \/ /\ ReturnAll({r})
          /\ resv' = [resv EXCEPT ![r].state = "refused"]
          /\ UNCHANGED <<unresolved, load, spent, burst>>
    /\ UNCHANGED <<clock, lease, gate, ticks>>

\* Mutant: a 304 gives back the secondary points with the primary credit.
RefundedWhole(r) == Credits(CostOf(r))

\* refundPrimaryLocked: a 304 gives back its primary credit and nothing else.
Refunded(r) == [b \in Allowances |-> IF b = "primary" THEN Unit.primary ELSE 0]

\* settle, and the adapter's gate.observe of a rate-limited answer.
Settle(r, unbilled, limited) ==
    /\ resv[r].state = "sent"
    /\ unbilled => r \in Requests /\ resv[r].kind.conditional
    /\ limited => ~unbilled
    /\ credit' = IF unbilled THEN AtMost(Plus(Refilled, Refunded(r)), Capacity(held)) ELSE Refilled
    /\ refilled' = clock
    /\ window' = IF unbilled /\ resv[r].current /\ window.used > 0
                 THEN [window EXCEPT !.used = @ - 1] ELSE window
    /\ unresolved' = IF resv[r].epoch THEN unresolved - 1 ELSE unresolved
    /\ borrowed' = (borrowed /\ ~resv[r].loan)
    /\ resv' = [resv EXCEPT ![r].state = IF unbilled \/ ~limited THEN "answered" ELSE "limited"]
    /\ gate' = IF limited /\ clock + 1 > gate THEN clock + 1 ELSE gate
    /\ spent' = IF unbilled THEN spent - 1 ELSE spent
    /\ burst' = IF unbilled /\ resv[r].current THEN burst - 1 ELSE burst
    /\ UNCHANGED <<clock, held, lease, ticks, load>>

-----------------------------------------------------------------------------
(* A Claim: its lease and the three addressed stages.                      *)

\* reserveLease: all three stages or none.
ReserveLease ==
    LET c == Refilled  w == Rolled
        cost == [b \in Allowances |-> MapThenSumSet(LAMBDA s : Credits(LeaseCost(s))[b], BudgetStages)]
        fits == w.used + 3 <= Limit - 1 /\ \A b \in Allowances : c[b] >= cost[b]
    IN  /\ lease = "none" /\ clock >= gate
        /\ credit' = IF fits THEN Minus(c, cost) ELSE c
        /\ held' = IF fits THEN Plus(held, cost) ELSE held
        /\ window' = IF fits THEN [w EXCEPT !.used = @ + 3, !.unattempted = @ + 3] ELSE w
        /\ resv' = IF fits
                   THEN [r \in Reservations |-> IF r \in BudgetStages
                            THEN [RolledResv[r] EXCEPT !.state = "reserved", !.current = TRUE]
                            ELSE RolledResv[r]]
                   ELSE RolledResv
        /\ lease' = IF fits THEN "open" ELSE "closed"
        /\ refilled' = clock /\ burst' = RolledBurst
        /\ UNCHANGED <<clock, borrowed, gate, unresolved, ticks, load, spent>>

\* Claim: assign, then verify, or release when either is in doubt.
StageDue(s) ==
    CASE s = "assign" -> TRUE
      [] s = "verify" -> resv["assign"].state = "answered"
      [] s = "release" -> \/ resv["assign"].state = "limited"
                          \/ resv["verify"].state \in {"answered", "limited"}

TakeStage(s) ==
    /\ lease = "open" /\ resv[s].state = "reserved" /\ StageDue(s)
    /\ s = "assign" => clock >= gate      \* honorRateGate
    /\ Attempt(s)
    /\ UNCHANGED <<clock, borrowed, lease, gate, ticks>>

\* The deferred close: what was not taken is returned.
CloseLease ==
    /\ lease = "open" /\ \A s \in BudgetStages : resv[s].state # "sent"
    /\ \/ resv["assign"].state = "reserved"
       \/ resv["verify"].state = "answered"
       \/ resv["release"].state \in {"answered", "limited"}
    /\ ReturnAll({s \in BudgetStages : resv[s].state = "reserved"})
    /\ resv' = [r \in Reservations |-> IF r \in BudgetStages /\ resv[r].state = "reserved"
                                       THEN [resv[r] EXCEPT !.state = "refused"] ELSE resv[r]]
    /\ lease' = "closed"
    /\ UNCHANGED <<clock, gate, unresolved, ticks, load, spent, burst>>

-----------------------------------------------------------------------------
\* BeginTick: a report is published and a window opens.
BeginTick ==
    /\ ticks < MaxTicks
    /\ ticks' = ticks + 1
    /\ credit' = Refilled /\ refilled' = clock
    /\ window' = OpenedWindow
    /\ resv' = [r \in Reservations |-> [Aged(resv)[r] EXCEPT !.epoch = FALSE]]
    /\ unresolved' = 0 /\ burst' = 0
    /\ UNCHANGED <<clock, held, borrowed, lease, gate, load, spent>>

Advance ==
    /\ clock < MaxClock
    /\ clock' = clock + 1
    /\ load' = [b \in Allowances |-> IF load[b] > Rate[b] THEN load[b] - Rate[b] ELSE 0]
    /\ UNCHANGED <<credit, held, refilled, window, borrowed, resv, lease, gate, unresolved,
                   ticks, spent, burst>>

BudgetInit ==
    /\ clock = 0 /\ refilled = 0 /\ gate = 0
    /\ credit = [b \in Allowances |-> Burst[b] * Unit[b]]
    /\ held = [b \in Allowances |-> 0]
    /\ window = [opened |-> 0, used |-> 0, unattempted |-> 0]
    /\ borrowed = FALSE /\ lease = "none" /\ unresolved = 0 /\ ticks = 0
    /\ resv = [r \in Reservations |->
                [state |-> "idle", current |-> FALSE, epoch |-> FALSE, loan |-> FALSE,
                 kind |-> [write |-> FALSE, conditional |-> FALSE, wait |-> FALSE]]]
    /\ load = [b \in Allowances |-> 0] /\ spent = 0 /\ burst = 0

BudgetNext ==
    \/ \E r \in Requests : GateCheck(r) \/ Acquire(r) \/ CancelWait(r) \/ Send(r)
    \/ \E r \in Reservations, unbilled, limited \in BOOLEAN : Settle(r, unbilled, limited)
    \/ \E s \in BudgetStages : TakeStage(s)
    \/ ReserveLease \/ CloseLease \/ BeginTick \/ Advance

BudgetSpec == BudgetInit /\ [][BudgetNext]_budgetVars

-----------------------------------------------------------------------------
(* Properties. *)

Unattempted == {r \in Reservations : resv[r].state = "reserved"}

\* What is held is exactly what the unattempted reservations cost, so neither a
\* refund nor an attempt ever drives it below zero (markAttemptedLocked panics).
HeldIsReserved ==
    /\ window.unattempted = Cardinality(Unattempted)
    /\ \A b \in Allowances :
        held[b] = MapThenSumSet(LAMBDA r : Credits(CostOf(r))[b], Unattempted)

\* No allowance is overdrawn or overfilled: refunds and refills never lift it
\* past its burst, and only the one borrowed probe is below zero.
CreditIsBounded ==
    \A b \in Allowances :
        /\ credit[b] + held[b] <= Burst[b] * Unit[b]
        /\ credit[b] >= (IF b = "primary" /\ borrowed THEN - Unit.primary ELSE 0)

\* GitHub's secondary limits hold in every stretch of time: the points and the
\* content requests that reached the network never exceed a burst plus what the
\* time since allows, however reservations wait between admission and attempt.
SecondaryLimitsHold ==
    \A b \in Allowances \ {"primary"} : load[b] <= Burst[b] * Unit[b]

\* The hourly bound on billed requests: those billed or unanswered so far never
\* exceed one burst plus the refill since the start, and the one loan.
PrimaryLimitHolds ==
    spent * Unit.primary <= (Burst.primary + 1) * Unit.primary + clock * Rate.primary

\* One window's burst: the requests that reached the network in the current
\* window, less those that cost nothing, never exceed the limit.
BurstIsBounded == burst <= window.used /\ window.used <= Limit

\* The report's pending count is exactly the requests of its epoch in flight.
PendingIsInFlight ==
    unresolved = Cardinality({r \in Reservations : resv[r].state = "sent" /\ resv[r].epoch})

\* The budget's promise: GitHub's primary and secondary limits hold whatever
\* the order of admissions, attempts, answers, windows and refunds.
BudgetSafe == /\ HeldIsReserved /\ CreditIsBounded /\ SecondaryLimitsHold
              /\ PrimaryLimitHolds /\ BurstIsBounded /\ PendingIsInFlight
=============================================================================
