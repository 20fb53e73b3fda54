-------------------------- MODULE UpdateLifecycle --------------------------
(***************************************************************************)
(* What a firmware update promises, with the transfer, the clock and the   *)
(* resume scratch hidden: at most one image is on trial, it is an image    *)
(* that was approved, the running bank changes only when that trial is     *)
(* confirmed, and a trial that is rolled back is counted.                  *)
(*                                                                         *)
(* FirmwareUpdate implements this specification.                           *)
(***************************************************************************)
EXTENDS Naturals

CONSTANTS Candidate,     \* descriptors <<crc, size>> of the images that may be approved
          ROLLBACK_MAX,  \* the rollback counter saturates here
          None

VARIABLES phase,      \* "Idle", "Transfer", "Trial", "Committed", "RolledBack"
          running,    \* the bank the ECU runs from
          trial,      \* the bank on trial, or None
          candidate,  \* the descriptor of the image last put on trial, or None
          rollbacks   \* rolled-back trials since the last restart

lifecycle == <<phase, running, trial, candidate, rollbacks>>

Bank == {1, 2}

OtherBank(b) == IF b = 1 THEN 2 ELSE 1

LifecycleInit ==
    /\ phase = "Idle"
    /\ running = 1
    /\ trial = None
    /\ candidate = None
    /\ rollbacks = 0

\* A transfer may be opened at any time; a trial under way is given up.
OpenTransfer ==
    /\ phase' = "Transfer"
    /\ trial' = None
    /\ candidate' = None
    /\ UNCHANGED <<running, rollbacks>>

\* An approved image goes on trial in the bank that is not running.
StartTrial ==
    /\ phase = "Transfer"
    /\ phase' = "Trial"
    /\ trial' = OtherBank(running)
    /\ candidate' \in Candidate
    /\ UNCHANGED <<running, rollbacks>>

Commit ==
    /\ phase = "Trial"
    /\ phase' = "Committed"
    /\ running' = trial
    /\ trial' = None
    /\ UNCHANGED <<candidate, rollbacks>>

CountedRollback ==
    /\ rollbacks' = IF rollbacks < ROLLBACK_MAX THEN rollbacks + 1 ELSE rollbacks
    /\ trial' = None
    /\ UNCHANGED running

RollBack ==
    /\ phase = "Trial"
    /\ phase' = "RolledBack"
    /\ CountedRollback
    /\ UNCHANGED candidate

\* The request that finds the trial expired may be the one opening a transfer.
RollBackAndOpenTransfer ==
    /\ phase = "Trial"
    /\ phase' = "Transfer"
    /\ CountedRollback
    /\ candidate' = None

\* Nothing of the life cycle is persisted.
Restart ==
    /\ phase' = "Idle"
    /\ running' = 1
    /\ trial' = None
    /\ candidate' = None
    /\ rollbacks' = 0

LifecycleNext ==
    \/ OpenTransfer
    \/ StartTrial
    \/ Commit
    \/ RollBack
    \/ RollBackAndOpenTransfer
    \/ Restart

LifecycleSpec == LifecycleInit /\ [][LifecycleNext]_lifecycle
============================================================================
