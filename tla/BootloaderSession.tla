-------------------------- MODULE BootloaderSession --------------------------
(***************************************************************************)
(* The authenticated runtime: FirmwareUpdate on an identity for which      *)
(* bootloader_auth_required is set.  The session opens only through        *)
(* BootloaderAuth, the end of a session drops the pending challenge, every *)
(* packet ticks the health window, and one clock and one restart drive     *)
(* both.                                                                   *)
(***************************************************************************)
EXTENDS FirmwareUpdate

CONSTANTS LOCKOUT_AFTER, RETRY, LOCKOUT, ATTEMPTS_MAX, Challenges

VARIABLES auth, latest, spent, failures,
          asked   \* history: the phase of the update in which the pending
                  \* challenge was asked for

Auth == INSTANCE BootloaderAuth

ASSUME SessionAuthAssumption == Auth!AuthAssumption /\ Auth!AuthNoneAssumption

authVars == <<auth, latest, spent, failures>>

allVars == <<vars, authVars, asked>>

SessionInit == Init /\ Auth!AuthInit /\ asked = None

\* Definitions marked `Slip` are plausible mistakes in the definition after them.

\* Slip: asking for a challenge already opens the session.
EnterOnRequest ==
    /\ Auth!Right \/ Auth!RequestChallenge
    /\ EnterBootloader
    /\ asked' = None

\* EnterBootloader with the right answer to the pending challenge.
AuthenticatedEnter == Auth!Right /\ EnterBootloader /\ asked' = None

\* EnterBootloader with any other payload: the flash session, if one is
\* open, goes on undisturbed.
RefusedEnter ==
    /\ \/ Auth!RequestChallenge
       \/ Auth!RefuseUnread
       \/ Auth!AnswerMalformed
       \/ Auth!AnswerUnasked
       \/ Auth!Wrong
    /\ PacketWithoutEffect
    /\ asked' = IF latest' # latest THEN PhaseOf(upd'.state)
                ELSE IF auth'.pending_challenge = None THEN None ELSE asked

\* Slip: the end of a session leaves its challenge pending.
CompleteKeepsChallenge == FlashComplete /\ UNCHANGED <<authVars, asked>>

\* FlashComplete calls reset_flash_transfer_state, which drops the challenge.
CompleteAndDropChallenge == FlashComplete /\ Auth!DropChallenge /\ asked' = None

\* Every other packet.
OtherPacket ==
    /\ \/ PacketWithoutEffect
       \/ Resume
       \/ Receive
       \/ Verify
       \/ ConfirmBootHealthy
    /\ UNCHANGED <<authVars, asked>>

Clock ==
    /\ Auth!TimePasses
    /\ Advance \/ (upd.state # "HealthWindow" /\ UNCHANGED vars)
    /\ UNCHANGED asked

Restart == Reboot /\ Auth!AuthReboot /\ asked' = None

SessionNext ==
    \/ AuthenticatedEnter
    \/ RefusedEnter
    \/ CompleteAndDropChallenge
    \/ OtherPacket
    \/ Clock
    \/ Restart

SessionSpec == SessionInit /\ [][SessionNext]_allVars

\* The host polls (any packet runs the health-window clock) and time passes.
Poll == PacketWithoutEffect /\ UNCHANGED <<authVars, asked>>

SessionFairSpec == SessionSpec /\ WF_allVars(Poll) /\ WF_allVars(Clock)

----------------------------------------------------------------------------
(* Properties *)

\* A new session id is handed out only to the right answer to a challenge
\* that was pending, fresh and not refused by a lockout, and it leaves the
\* authentication as clean as after a restart.
SessionNeedsFreshAnswer ==
    [][ flash'.session_counter > flash.session_counter =>
          /\ auth.pending_challenge = latest
          /\ latest \notin spent
          /\ ~Auth!is_locked(auth)
          /\ auth' = Auth!InitAuth ]_allVars

\* A challenge does not outlive the session it was asked for in: one asked for
\* during a transfer cannot, once FlashComplete has put the image on trial, open
\* the session that ends the trial.  What is pending during a health window was
\* asked for in that window, and what is pending during a transfer, in a transfer
\* (EnterBootloader, reset_flash_transfer_state).
ChallengeEndsWithSession ==
    auth.pending_challenge # None =>
        /\ flash.session_active <=> asked = "Transfer"
        /\ upd.state = "HealthWindow" => asked = "Trial"
============================================================================
