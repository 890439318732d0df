---------------------------- MODULE MCRunRecord ----------------------------
(* The instances of RunRecord that TLC checks. *)
EXTENDS RunRecord

Lim(attempts, turns, remote, tenures, faultsMax, relabelsMax) ==
    [attempts |-> attempts, turns |-> turns, remote |-> remote,
     tenures |-> tenures, faults |-> faultsMax, relabels |-> relabelsMax]

\* Two attempts and a continuation; and two records of the issue in turn.
LongLives == {Lim(2, 1, FALSE, 1, 0, 0), Lim(1, 0, FALSE, 2, 0, 0)}

\* A remote workspace and a failing call.
RemoteFault == {Lim(1, 0, TRUE, 1, 1, 0)}

\* A parked issue that is queued again.
OneRelabel == {Lim(1, 0, FALSE, 1, 0, 1)}

OneAttempt  == {Lim(1, 0, FALSE, 1, 0, 0)}
OneFault    == {Lim(1, 0, FALSE, 1, 1, 0)}
TwoAttempts == {Lim(2, 0, FALSE, 1, 0, 0)}
=============================================================================
