--------------------------- MODULE ShiftContract ---------------------------
(***************************************************************************)
(* What the transmission part of a live-data frame promises a host that    *)
(* reads the counters and the result of shift requests (tcu.rs): a request *)
(* is pending until it has exactly one outcome, an acknowledgement counts  *)
(* one completed request, and a timeout counts one timed-out request.      *)
(***************************************************************************)
EXTENDS Naturals

CONSTANT WRAP   \* the counters count modulo WRAP

WrapAssumption == WRAP \in Nat \ {0}

VARIABLES phase, requests, acks, timeouts

contract == <<phase, requests, acks, timeouts>>

Settled == {"idle", "completed", "failed"}

Init == phase = "idle" /\ requests = 0 /\ acks = 0 /\ timeouts = 0

Request ==
    /\ phase \in Settled
    /\ phase' = "pending"
    /\ requests' = (requests + 1) % WRAP
    /\ UNCHANGED <<acks, timeouts>>

Complete ==
    /\ phase = "pending"
    /\ phase' = "completed"
    /\ acks' = (acks + 1) % WRAP
    /\ UNCHANGED <<requests, timeouts>>

TimeOut ==
    /\ phase = "pending"
    /\ phase' = "failed"
    /\ timeouts' = (timeouts + 1) % WRAP
    /\ UNCHANGED <<requests, acks>>

Fault ==
    /\ phase = "pending"
    /\ phase' = "failed"
    /\ UNCHANGED <<requests, acks, timeouts>>

\* The host has had time to read the outcome.
Release ==
    /\ phase \in {"completed", "failed"}
    /\ phase' = "idle"
    /\ UNCHANGED <<requests, acks, timeouts>>

Next == Request \/ Complete \/ TimeOut \/ Fault \/ Release

Spec == Init /\ [][Next]_contract
=============================================================================
