-------------------------- MODULE InteractionLease --------------------------
(***************************************************************************)
(* What the power HAL may rely on when it calls InteractionHandler: a      *)
(* lease on the INTERACTION hint that a request can take or renew at any   *)
(* time and that lapses by itself, but never before it has been held for   *)
(* MinHold ms since it was last taken, unless the wait was disturbed by a  *)
(* failing poll.                                                           *)
(***************************************************************************)
EXTENDS Integers

CONSTANTS MinHold,   \* ms for which a lease is held at least
          AgeCap     \* where the age of the lease saturates

ASSUME LeaseAssumption == MinHold \in Nat /\ AgeCap \in Nat /\ MinHold <= AgeCap

VARIABLES held,        \* the hint is requested
          age,         \* ms since the lease was last taken
          disturbed    \* the wait for its end was cut short by an error

leaseVars == <<held, age, disturbed>>

LeaseInit == held = FALSE /\ age = 0 /\ disturbed = FALSE

\* A request takes the lease or renews it.
Take == held' = TRUE /\ age' = 0 /\ UNCHANGED disturbed

Lapse ==
    /\ held
    /\ age >= MinHold \/ disturbed
    /\ held' = FALSE
    /\ UNCHANGED <<age, disturbed>>

Disturb == disturbed' \in BOOLEAN /\ UNCHANGED <<held, age>>

Age ==
    /\ age' = IF age < AgeCap THEN age + 1 ELSE age
    /\ UNCHANGED <<held, disturbed>>

LeaseNext == Take \/ Lapse \/ Disturb \/ Age

LeaseSpec == LeaseInit /\ [][LeaseNext]_leaseVars
=============================================================================
