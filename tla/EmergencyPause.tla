---------------------------- MODULE EmergencyPause ----------------------------
(***************************************************************************)
(* contracts/core/EmergencyPause.sol: the circuit breaker that PrivacyPool *)
(* inherits.  A guardian or governance pauses; governance unpauses, and    *)
(* anybody may once a pause has lasted MAX_PAUSE_DURATION.                 *)
(*                                                                         *)
(* `governance' belongs to the inheriting contract (_pauseGovernance) and  *)
(* `now' to the chain.  A call that reverts leaves the state as it was and *)
(* is no step of the model.                                                *)
(***************************************************************************)
EXTENDS Integers

CONSTANTS
    Address,              \* the accounts that can send a transaction
    MAX_PAUSE_DURATION,   \* 7 days in the contract
    MaxPauses             \* bound on pauseCount

VARIABLES
    paused,
    guardian,
    lastPauseTime,
    pauseCount,
    governance,
    now                   \* block number and timestamp, in blocks

pauseVars == <<paused, guardian, lastPauseTime, pauseCount>>

_initPause(_guardian) ==
    /\ guardian = _guardian
    /\ paused = FALSE
    /\ lastPauseTime = 0
    /\ pauseCount = 0

pause(sender) ==
    /\ sender \in {guardian, governance}
    /\ ~ paused
    /\ pauseCount < MaxPauses
    /\ paused' = TRUE
    /\ lastPauseTime' = now
    /\ pauseCount' = pauseCount + 1
    /\ UNCHANGED guardian

\* Mutant: the safety valve after MAX_PAUSE_DURATION is missing.
unpauseGovernanceOnly(sender) ==
    /\ paused
    /\ sender = governance
    /\ paused' = FALSE
    /\ UNCHANGED <<guardian, lastPauseTime, pauseCount>>

unpause(sender) ==
    /\ paused
    /\ \/ sender = governance
       \/ now >= lastPauseTime + MAX_PAUSE_DURATION
    /\ paused' = FALSE
    /\ UNCHANGED <<guardian, lastPauseTime, pauseCount>>

setGuardian(sender, newGuardian) ==
    /\ sender = governance
    /\ guardian' = newGuardian
    /\ UNCHANGED <<paused, lastPauseTime, pauseCount>>
=============================================================================
