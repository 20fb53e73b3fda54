--------------------------- MODULE BootloaderAuth ---------------------------
(***************************************************************************)
(* Bootloader authentication of FirmwareRuntime (transport.rs): an empty   *)
(* EnterBootloader asks for a challenge, a second one answers it.  Failed  *)
(* answers are rate limited and, after LOCKOUT_AFTER of them, lock the     *)
(* bootloader for LOCKOUT ticks.                                           *)
(*                                                                         *)
(* Stored Instants are represented relative to now: the age of the last    *)
(* attempt (saturated at RETRY, beyond which it no longer matters) and the *)
(* time left of the lockout (0 once `now >= until`).                       *)
(***************************************************************************)
EXTENDS Integers, Sequences

CONSTANTS LOCKOUT_AFTER,  \* BOOTLOADER_AUTH_LOCKOUT_AFTER_FAILURES
          RETRY,          \* BOOTLOADER_AUTH_RETRY_INTERVAL_MS, in ticks
          LOCKOUT,        \* BOOTLOADER_AUTH_LOCKOUT_MS, in ticks
          ATTEMPTS_MAX,   \* u8::MAX, where the failure counter saturates
          Challenges,     \* challenge values kept apart, see NextChallenge
          None

ASSUME AuthAssumption ==
    /\ LOCKOUT_AFTER \in Nat \ {0}
    /\ RETRY \in Nat \ {0}
    /\ LOCKOUT \in Nat
    /\ RETRY <= LOCKOUT
    /\ ATTEMPTS_MAX \in Nat
    /\ LOCKOUT_AFTER <= ATTEMPTS_MAX
    /\ Challenges \in Nat
    /\ Challenges >= 2
ASSUME AuthNoneAssumption == None \notin Int

\* Definitions marked `Slip` are plausible mistakes in the definition after them.
\* Nothing uses them: each shows that some property below would notice.

VARIABLES auth,      \* the bootloader_auth_* fields
          latest,    \* the challenge issued last
          spent,     \* history: challenges that an answer was compared with
          failures   \* history: ages of the failures since the last success or
                     \* restart, newest first, at most LOCKOUT_AFTER of them

authVars == <<auth, latest, spent, failures>>

Challenge == 0..(Challenges - 1)

\* A challenge mixes a counter and the nanosecond clock, so each one is new.
\* The model names them cyclically: a name returns after Challenges - 1 others.
NextChallenge == (latest + 1) % Challenges

\* The least time LOCKOUT_AFTER + 1 failures in a row can span.
Span == LOCKOUT + (LOCKOUT_AFTER - 1) * RETRY

CappedInc(n, max) == IF n < max THEN n + 1 ELSE max

InitAuth ==
    [ pending_challenge |-> None,
      since_attempt     |-> None,   \* age of last_attempt_at
      failed_attempts   |-> 0,
      lockout_left      |-> None ]  \* lockout_until - now

----------------------------------------------------------------------------
(* The bootloader_auth_* methods *)

\* Slip: an expired lockout is not cleared.
NeverRefreshed(a) == a

refresh_bootloader_auth_window(a) ==
    IF a.lockout_left = 0
    THEN [a EXCEPT !.lockout_left = None, !.failed_attempts = 0, !.since_attempt = None]
    ELSE a

is_locked(a) == a.lockout_left # None /\ a.lockout_left # 0

\* Slip: the last tick of the retry interval is forgotten.
RateLimitedTooShort(a) == a.since_attempt # None /\ a.since_attempt + 1 < RETRY

is_rate_limited(a) == a.since_attempt # None /\ a.since_attempt # RETRY

\* Slip: the lockout comes one failure too late.
LockoutOneLate(a) ==
    LET failed == CappedInc(a.failed_attempts, ATTEMPTS_MAX)
        counted == [a EXCEPT !.since_attempt = 0, !.failed_attempts = failed]
    IN  IF failed > LOCKOUT_AFTER
        THEN [counted EXCEPT !.lockout_left = LOCKOUT, !.pending_challenge = None]
        ELSE counted

\* Slip: a challenge issued before the lockout can still be answered after it.
LockoutKeepsChallenge(a) ==
    LET failed == CappedInc(a.failed_attempts, ATTEMPTS_MAX)
        counted == [a EXCEPT !.since_attempt = 0, !.failed_attempts = failed]
    IN  IF failed >= LOCKOUT_AFTER THEN [counted EXCEPT !.lockout_left = LOCKOUT]
        ELSE counted

record_failure(a) ==
    LET failed == CappedInc(a.failed_attempts, ATTEMPTS_MAX)
        counted == [a EXCEPT !.since_attempt = 0, !.failed_attempts = failed]
    IN  IF failed >= LOCKOUT_AFTER
        THEN [counted EXCEPT !.lockout_left = LOCKOUT, !.pending_challenge = None]
        ELSE counted

record_success == InitAuth

\* EnterBootloader looks at the lockout before anything else.
Refreshed == refresh_bootloader_auth_window(auth)

----------------------------------------------------------------------------
(* EnterBootloader, by payload, and what else touches these fields *)

AuthInit ==
    /\ auth = InitAuth
    /\ latest = 0
    /\ spent = {}
    /\ failures = <<>>

\* An empty payload: a new challenge replaces the pending one, rate limit or not.
RequestChallenge ==
    /\ ~is_locked(Refreshed)
    /\ latest' = NextChallenge
    /\ auth' = [Refreshed EXCEPT !.pending_challenge = NextChallenge]
    /\ spent' = spent \ {NextChallenge}
    /\ UNCHANGED failures

\* Locked or rate limited: refused, only the refresh has an effect.
RefuseUnread ==
    /\ is_locked(Refreshed) \/ is_rate_limited(Refreshed)
    /\ auth' = Refreshed
    /\ UNCHANGED <<latest, spent, failures>>

MayAnswer == ~is_locked(Refreshed) /\ ~is_rate_limited(Refreshed)

NewFailure ==
    failures' = SubSeq(<<0>> \o failures, 1,
                       IF Len(failures) < LOCKOUT_AFTER THEN Len(failures) + 1
                                                        ELSE LOCKOUT_AFTER)

\* A payload of the wrong length: a failure that leaves the challenge pending.
AnswerMalformed ==
    /\ MayAnswer
    /\ auth' = record_failure(Refreshed)
    /\ NewFailure
    /\ UNCHANGED <<latest, spent>>

\* A well-formed answer with no challenge pending.
AnswerUnasked ==
    /\ MayAnswer
    /\ Refreshed.pending_challenge = None
    /\ auth' = record_failure(Refreshed)
    /\ NewFailure
    /\ UNCHANGED <<latest, spent>>

\* Slip: the challenge is looked at, not taken.
WrongAnswerKeepsChallenge(answered) ==
    /\ MayAnswer
    /\ Refreshed.pending_challenge # None
    /\ answered # Refreshed.pending_challenge
    /\ auth' = record_failure(Refreshed)
    /\ spent' = spent \cup {Refreshed.pending_challenge}
    /\ NewFailure
    /\ UNCHANGED latest

\* A well-formed answer is compared with the tag of the pending challenge,
\* which is taken first.  `answered` is the challenge it is the right answer
\* to, or None; a tag that cannot be computed counts as a mismatch.
AnswerWrong(answered) ==
    /\ MayAnswer
    /\ Refreshed.pending_challenge # None
    /\ answered # Refreshed.pending_challenge
    /\ auth' = record_failure([Refreshed EXCEPT !.pending_challenge = None])
    /\ spent' = spent \cup {Refreshed.pending_challenge}
    /\ NewFailure
    /\ UNCHANGED latest

\* The right answer: begin_flash_session starts with record_success.
AnswerRight(answered) ==
    /\ MayAnswer
    /\ Refreshed.pending_challenge # None
    /\ answered = Refreshed.pending_challenge
    /\ auth' = record_success
    /\ spent' = spent \cup {Refreshed.pending_challenge}
    /\ failures' = <<>>
    /\ UNCHANGED latest

\* FlashComplete ends the session with reset_flash_transfer_state, which also
\* drops a challenge issued meanwhile.
DropChallenge ==
    /\ auth' = [auth EXCEPT !.pending_challenge = None]
    /\ UNCHANGED <<latest, spent, failures>>

AuthReboot ==
    /\ auth' = InitAuth
    /\ failures' = <<>>
    /\ UNCHANGED <<latest, spent>>

TimePasses ==
    /\ auth' = [auth EXCEPT
           !.since_attempt = IF @ = None THEN None ELSE CappedInc(@, RETRY),
           !.lockout_left  = IF @ = None \/ @ = 0 THEN @ ELSE @ - 1]
    /\ failures' = [i \in DOMAIN failures |-> CappedInc(failures[i], Span)]
    /\ UNCHANGED <<latest, spent>>

Wrong == \E answered \in Challenge \cup {None} : AnswerWrong(answered)

Right == \E answered \in Challenge : AnswerRight(answered)

AuthNext ==
    \/ RequestChallenge
    \/ RefuseUnread
    \/ AnswerMalformed
    \/ AnswerUnasked
    \/ Wrong
    \/ Right
    \/ DropChallenge
    \/ AuthReboot
    \/ TimePasses

AuthSpec == AuthInit /\ [][AuthNext]_authVars

\* Time passes, and a host that wants in keeps asking for a challenge.
AuthFairSpec == AuthSpec /\ WF_authVars(TimePasses) /\ WF_authVars(RequestChallenge)

----------------------------------------------------------------------------
(* Properties *)

\* Every field keeps its type.
AuthTypeOK ==
    /\ auth \in [ pending_challenge : Challenge \cup {None},
                  since_attempt     : 0..RETRY \cup {None},
                  failed_attempts   : 0..LOCKOUT_AFTER,
                  lockout_left      : 0..LOCKOUT \cup {None} ]
    /\ latest \in Challenge
    /\ spent \subseteq Challenge
    /\ failures \in Seq(0..Span)
    /\ Len(failures) <= LOCKOUT_AFTER

\* The failure counter and the lockout agree: the last allowed failure always
\* locks, a lockout leaves no challenge to answer, and the counter never
\* passes its limit, so its u8 saturation is out of reach.
LockoutMatchesFailures ==
    /\ auth.lockout_left # None <=> auth.failed_attempts = LOCKOUT_AFTER
    /\ auth.lockout_left # None => auth.pending_challenge = None
    /\ auth.failed_attempts > 0 => auth.since_attempt # None

\* A challenge can be answered once: the pending challenge is the one issued
\* last and no answer has ever been compared with it.
ChallengeAnsweredOnce ==
    auth.pending_challenge # None =>
        auth.pending_challenge = latest /\ auth.pending_challenge \notin spent

FailureCounted == failures' # failures /\ failures' # <<>> /\ failures'[1] = 0

\* Between two successes (or restarts) failed answers come at least RETRY
\* apart, and LOCKOUT_AFTER + 1 of them in a row span a whole lockout on top.
FailuresThrottled ==
    [][ (FailureCounted /\ failures # <<>>) =>
          /\ failures[1] >= RETRY
          /\ Len(failures) = LOCKOUT_AFTER => failures[LOCKOUT_AFTER] >= Span ]_authVars

\* A lockout ends for a host that keeps asking, whatever answers it or others
\* send meanwhile: a refused answer never extends it.
LockoutEnds == auth.lockout_left # None ~> auth.lockout_left = None
============================================================================
