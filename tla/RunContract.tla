---------------------------- MODULE RunContract ----------------------------
(***************************************************************************)
(* What core.RunHandle promises the orchestrator of one run (core.go        *)
(* 1189-1210): progress, then one terminal event, then the end of the       *)
(* stream; and Done, the phase edge of the execution.  Only a consumer that *)
(* gave up may see the stream end without a terminal event.                 *)
(***************************************************************************)
EXTENDS Sequences

CONSTANT Progress, Terminal         \* the events of the two kinds

VARIABLES stream,                   \* the events delivered so far
          ended,                    \* the stream is closed
          over,                     \* Done is closed
          abandoned                 \* nobody will read the stream again

contractVars == <<stream, ended, over, abandoned>>

Concluded == \E i \in DOMAIN stream : stream[i] \in Terminal

ContractInit == stream = <<>> /\ ended = FALSE /\ over = FALSE /\ abandoned = FALSE

Report ==
    /\ ~ended /\ ~Concluded
    /\ \E e \in Progress : stream' = Append(stream, e)
    /\ UNCHANGED <<ended, over, abandoned>>

Conclude ==
    /\ ~ended /\ ~Concluded
    /\ \E e \in Terminal : stream' = Append(stream, e)
    /\ UNCHANGED <<ended, over, abandoned>>

EndStream ==
    /\ ~ended /\ (Concluded \/ abandoned)
    /\ ended' = TRUE
    /\ UNCHANGED <<stream, over, abandoned>>

Abandon == ~abandoned /\ abandoned' = TRUE /\ UNCHANGED <<stream, ended, over>>

Finish == ~over /\ over' = TRUE /\ UNCHANGED <<stream, ended, abandoned>>

ContractNext == Report \/ Conclude \/ EndStream \/ Abandon \/ Finish

ContractSpec == ContractInit /\ [][ContractNext]_contractVars
=============================================================================
