------------------------- MODULE BootloaderAuthProofs -------------------------
(***************************************************************************)
(* Safety of BootloaderAuth for every lockout threshold, retry interval    *)
(* and lockout length.                                                     *)
(***************************************************************************)
EXTENDS BootloaderAuth, TLAPS

AuthRecord ==
    [ pending_challenge : Challenge \cup {None},
      since_attempt     : 0..RETRY \cup {None},
      failed_attempts   : 0..LOCKOUT_AFTER,
      lockout_left      : 0..LOCKOUT \cup {None} ]

\* LockoutMatchesFailures of any auth record, with its type.
AuthOK(a) ==
    /\ a \in AuthRecord
    /\ a.lockout_left # None <=> a.failed_attempts = LOCKOUT_AFTER
    /\ a.lockout_left # None => a.pending_challenge = None
    /\ a.failed_attempts > 0 => a.since_attempt # None

LEMMA Limits ==
    /\ 0 \in 0..RETRY /\ RETRY \in 0..RETRY
    /\ 0 \in 0..LOCKOUT_AFTER /\ LOCKOUT \in 0..LOCKOUT
    /\ LOCKOUT_AFTER # 0 /\ ~(0 > 0)
    /\ 0 \in Challenge
BY AuthAssumption DEF Challenge

LEMMA NextChallengeNew ==
    ASSUME latest \in Challenge
    PROVE  NextChallenge \in Challenge /\ NextChallenge # None
BY AuthAssumption, AuthNoneAssumption DEF Challenge, NextChallenge

LEMMA InitAuthOK == AuthOK(InitAuth)
BY Limits DEF AuthOK, AuthRecord, InitAuth

LEMMA RefreshOK ==
    ASSUME NEW a, AuthOK(a)
    PROVE  LET r == refresh_bootloader_auth_window(a)
           IN  /\ AuthOK(r)
               /\ r.pending_challenge = a.pending_challenge
               /\ ~is_locked(r) => r.lockout_left = None
<1>1. CASE a.lockout_left = 0
  <2> DEFINE r == [a EXCEPT !.lockout_left = None, !.failed_attempts = 0, !.since_attempt = None]
  <2>1. refresh_bootloader_auth_window(a) = r
    BY <1>1 DEF refresh_bootloader_auth_window
  <2>2. /\ r \in AuthRecord /\ r.lockout_left = None /\ r.failed_attempts = 0
        /\ r.pending_challenge = a.pending_challenge
    BY Limits DEF AuthOK, AuthRecord
  <2> HIDE DEF r
  <2> QED
    BY <2>1, <2>2, Limits DEF AuthOK
<1>2. CASE a.lockout_left # 0
  BY <1>2 DEF refresh_bootloader_auth_window, is_locked
<1> QED
  BY <1>1, <1>2

\* A failure is only recorded when no lockout is in force: the counter is then
\* below the threshold, so it neither passes it nor saturates.
LEMMA FailureOK ==
    ASSUME NEW a, AuthOK(a), a.lockout_left = None
    PROVE  LET f == record_failure(a)
           IN  /\ AuthOK(f)
               /\ f.pending_challenge \in {a.pending_challenge, None}
<1> DEFINE failed == CappedInc(a.failed_attempts, ATTEMPTS_MAX)
           counted == [a EXCEPT !.since_attempt = 0, !.failed_attempts = failed]
           locked == [counted EXCEPT !.lockout_left = LOCKOUT, !.pending_challenge = None]
<1>1. failed \in 1..LOCKOUT_AFTER
  <2>1. a.failed_attempts \in 0..LOCKOUT_AFTER /\ a.failed_attempts # LOCKOUT_AFTER
    BY DEF AuthOK, AuthRecord
  <2> QED
    BY <2>1, AuthAssumption DEF CappedInc
<1>2. 0 # None /\ LOCKOUT # None
  BY AuthNoneAssumption, AuthAssumption
<1> HIDE DEF failed
<1>3. failed \in 0..LOCKOUT_AFTER /\ (failed >= LOCKOUT_AFTER <=> failed = LOCKOUT_AFTER)
  BY <1>1, AuthAssumption
<1>4. /\ counted \in AuthRecord /\ counted.since_attempt = 0
      /\ counted.failed_attempts = failed /\ counted.lockout_left = None
      /\ counted.pending_challenge = a.pending_challenge
  BY <1>3, Limits DEF AuthOK, AuthRecord
<1> HIDE DEF counted
<1>5. /\ locked \in AuthRecord /\ locked.since_attempt = 0
      /\ locked.failed_attempts = failed /\ locked.lockout_left = LOCKOUT
      /\ locked.pending_challenge = None
  BY <1>4, Limits DEF AuthRecord
<1> HIDE DEF locked
<1>6. record_failure(a) = IF failed >= LOCKOUT_AFTER THEN locked ELSE counted
  BY DEF record_failure, locked, counted, failed
<1>7. CASE failed = LOCKOUT_AFTER
  BY <1>2, <1>3, <1>5, <1>6, <1>7 DEF AuthOK
<1>8. CASE failed # LOCKOUT_AFTER
  BY <1>2, <1>3, <1>4, <1>6, <1>8 DEF AuthOK
<1> QED
  BY <1>7, <1>8

-----------------------------------------------------------------------------
(* The inductive invariant                                                   *)

AuthSafe ==
    /\ AuthTypeOK
    /\ LockoutMatchesFailures
    /\ ChallengeAnsweredOnce

LEMMA AuthSafeMeaning ==
    /\ AuthSafe <=>
         /\ AuthOK(auth)
         /\ latest \in Challenge /\ spent \subseteq Challenge
         /\ failures \in Seq(0..Span) /\ Len(failures) <= LOCKOUT_AFTER
         /\ ChallengeAnsweredOnce
    /\ AuthSafe' <=>
         /\ AuthOK(auth')
         /\ latest' \in Challenge /\ spent' \subseteq Challenge
         /\ failures' \in Seq(0..Span) /\ Len(failures') <= LOCKOUT_AFTER
         /\ ChallengeAnsweredOnce'
BY DEF AuthSafe, AuthTypeOK, LockoutMatchesFailures, AuthOK, AuthRecord

LEMMA SpanIsNat == Span \in Nat /\ 0 \in 0..Span
<1>1. (LOCKOUT_AFTER - 1) * RETRY \in Nat
  BY AuthAssumption, SMT
<1> QED
  BY <1>1, AuthAssumption DEF Span

LEMMA FirstOf ==
    ASSUME NEW S, NEW s \in Seq(S), NEW n \in Nat, n <= Len(s)
    PROVE  SubSeq(s, 1, n) \in Seq(S) /\ Len(SubSeq(s, 1, n)) = n
BY SMT

LEMMA NewFailureType ==
    ASSUME failures \in Seq(0..Span), Len(failures) <= LOCKOUT_AFTER, NewFailure
    PROVE  failures' \in Seq(0..Span) /\ Len(failures') <= LOCKOUT_AFTER
<1> DEFINE all == <<0>> \o failures
           n == IF Len(failures) < LOCKOUT_AFTER THEN Len(failures) + 1 ELSE LOCKOUT_AFTER
<1>1. all \in Seq(0..Span) /\ Len(all) = Len(failures) + 1
  BY SpanIsNat
<1>2. n \in Nat /\ n <= Len(all) /\ n <= LOCKOUT_AFTER
  BY <1>1, AuthAssumption
<1>3. failures' = SubSeq(all, 1, n)
  BY DEF NewFailure
<1> HIDE DEF all, n
<1>4. SubSeq(all, 1, n) \in Seq(0..Span) /\ Len(SubSeq(all, 1, n)) = n
  BY <1>1, <1>2, FirstOf
<1> QED
  BY <1>2, <1>3, <1>4

LEMMA RefreshedFacts ==
    ASSUME AuthSafe
    PROVE  /\ AuthOK(Refreshed)
           /\ Refreshed.pending_challenge = auth.pending_challenge
           /\ ~is_locked(Refreshed) => Refreshed.lockout_left = None
BY AuthSafeMeaning, RefreshOK DEF Refreshed

LEMMA AuthSafeInit == AuthInit => AuthSafe
<1> SUFFICES ASSUME AuthInit PROVE AuthSafe
  OBVIOUS
<1>1. <<>> \in Seq(0..Span) /\ Len(<<>>) <= LOCKOUT_AFTER
  BY AuthAssumption
<1>2. ChallengeAnsweredOnce
  BY DEF AuthInit, InitAuth, ChallengeAnsweredOnce
<1> QED
  BY <1>1, <1>2, Limits, InitAuthOK, AuthSafeMeaning DEF AuthInit

LEMMA RequestSafe == AuthSafe /\ RequestChallenge => AuthSafe'
<1> SUFFICES ASSUME AuthSafe, RequestChallenge PROVE AuthSafe'
  OBVIOUS
<1>1. /\ AuthOK(Refreshed) /\ Refreshed.lockout_left = None
      /\ NextChallenge \in Challenge
  BY RefreshedFacts, NextChallengeNew, AuthSafeMeaning DEF RequestChallenge
<1> DEFINE issued == [Refreshed EXCEPT !.pending_challenge = NextChallenge]
<1>2. /\ issued \in AuthRecord
      /\ issued.pending_challenge = NextChallenge
      /\ issued.since_attempt = Refreshed.since_attempt
      /\ issued.failed_attempts = Refreshed.failed_attempts
      /\ issued.lockout_left = None
  BY <1>1 DEF AuthOK, AuthRecord
<1>3. auth' = issued
  BY DEF RequestChallenge
<1> HIDE DEF issued
<1>4. AuthOK(auth')
  BY <1>1, <1>2, <1>3 DEF AuthOK
<1>5. ChallengeAnsweredOnce'
  BY <1>2, <1>3 DEF RequestChallenge, ChallengeAnsweredOnce
<1> QED
  BY <1>1, <1>4, <1>5, AuthSafeMeaning DEF RequestChallenge

\* Every failed answer: the challenge it was compared with, if any, is gone.
LEMMA FailedSafe ==
    ASSUME AuthSafe, ~is_locked(Refreshed), NewFailure, UNCHANGED latest,
           \/ auth' = record_failure(Refreshed) /\ UNCHANGED spent
           \/ /\ auth' = record_failure([Refreshed EXCEPT !.pending_challenge = None])
              /\ spent' = spent \cup {Refreshed.pending_challenge}
              /\ Refreshed.pending_challenge # None
    PROVE  AuthSafe'
<1>1. /\ AuthOK(Refreshed) /\ Refreshed.lockout_left = None
      /\ Refreshed.pending_challenge = auth.pending_challenge
  BY RefreshedFacts
<1>2. failures' \in Seq(0..Span) /\ Len(failures') <= LOCKOUT_AFTER
  BY NewFailureType, AuthSafeMeaning
<1>3. CASE auth' = record_failure(Refreshed) /\ UNCHANGED spent
  <2>1. AuthOK(auth') /\ auth'.pending_challenge \in {auth.pending_challenge, None}
    BY <1>1, <1>3, FailureOK
  <2>2. ChallengeAnsweredOnce'
    BY <1>3, <2>1, AuthSafeMeaning DEF ChallengeAnsweredOnce
  <2> QED
    BY <1>2, <1>3, <2>1, <2>2, AuthSafeMeaning
<1>4. CASE /\ auth' = record_failure([Refreshed EXCEPT !.pending_challenge = None])
           /\ spent' = spent \cup {Refreshed.pending_challenge}
           /\ Refreshed.pending_challenge # None
  <2> DEFINE taken == [Refreshed EXCEPT !.pending_challenge = None]
  <2>1. /\ taken \in AuthRecord /\ taken.pending_challenge = None
        /\ taken.since_attempt = Refreshed.since_attempt
        /\ taken.failed_attempts = Refreshed.failed_attempts
        /\ taken.lockout_left = None
    BY <1>1 DEF AuthOK, AuthRecord
  <2>2. auth' = record_failure(taken)
    BY <1>4
  <2> HIDE DEF taken
  <2>3. AuthOK(taken)
    BY <1>1, <2>1 DEF AuthOK
  <2>4. AuthOK(auth') /\ auth'.pending_challenge = None
    BY <2>1, <2>2, <2>3, FailureOK
  <2>5. Refreshed.pending_challenge \in Challenge
    BY <1>1, <1>4 DEF AuthOK, AuthRecord
  <2>6. ChallengeAnsweredOnce'
    BY <2>4 DEF ChallengeAnsweredOnce
  <2> QED
    BY <1>2, <1>4, <2>4, <2>5, <2>6, AuthSafeMeaning
<1> QED
  BY <1>3, <1>4

LEMMA AnswerSafe ==
    ASSUME AuthSafe, AnswerMalformed \/ AnswerUnasked \/ Wrong \/ Right
    PROVE  AuthSafe'
<1>1. CASE AnswerMalformed \/ AnswerUnasked
  BY <1>1, FailedSafe DEF AnswerMalformed, AnswerUnasked, MayAnswer
<1>2. CASE Wrong
  BY <1>2, FailedSafe DEF Wrong, AnswerWrong, MayAnswer
<1>3. CASE Right
  <2>1. /\ auth' = InitAuth /\ UNCHANGED latest /\ failures' = <<>>
        /\ spent' = spent \cup {auth.pending_challenge}
        /\ auth.pending_challenge # None
    BY <1>3, RefreshedFacts DEF Right, AnswerRight, record_success
  <2>2. auth.pending_challenge \in Challenge
    BY <2>1, AuthSafeMeaning DEF AuthOK, AuthRecord
  <2>3. ChallengeAnsweredOnce'
    BY <2>1 DEF ChallengeAnsweredOnce, InitAuth
  <2>4. <<>> \in Seq(0..Span) /\ Len(<<>>) <= LOCKOUT_AFTER
    BY AuthAssumption
  <2> QED
    BY <2>1, <2>2, <2>3, <2>4, InitAuthOK, AuthSafeMeaning
<1> QED
  BY <1>1, <1>2, <1>3

LEMMA RefusedSafe ==
    AuthSafe /\ (RefuseUnread \/ DropChallenge \/ UNCHANGED authVars) => AuthSafe'
<1> SUFFICES ASSUME AuthSafe, RefuseUnread \/ DropChallenge \/ UNCHANGED authVars
             PROVE  AuthSafe'
  OBVIOUS
<1>1. CASE RefuseUnread
  <2>1. AuthOK(auth') /\ auth'.pending_challenge = auth.pending_challenge
    BY <1>1, RefreshedFacts DEF RefuseUnread
  <2> QED
    BY <1>1, <2>1, AuthSafeMeaning DEF RefuseUnread, ChallengeAnsweredOnce
<1>2. CASE DropChallenge
  <2>1. /\ auth' \in AuthRecord /\ auth'.pending_challenge = None
        /\ auth'.since_attempt = auth.since_attempt
        /\ auth'.failed_attempts = auth.failed_attempts
        /\ auth'.lockout_left = auth.lockout_left
    BY <1>2, AuthSafeMeaning DEF DropChallenge, AuthOK, AuthRecord
  <2>2. AuthOK(auth')
    BY <2>1, AuthSafeMeaning DEF AuthOK
  <2> QED
    BY <1>2, <2>1, <2>2, AuthSafeMeaning DEF DropChallenge, ChallengeAnsweredOnce
<1>3. CASE UNCHANGED authVars
  BY <1>3, AuthSafeMeaning DEF authVars, ChallengeAnsweredOnce
<1> QED
  BY <1>1, <1>2, <1>3

LEMMA RebootAuthSafe == AuthSafe /\ AuthReboot => AuthSafe'
<1> SUFFICES ASSUME AuthSafe, AuthReboot PROVE AuthSafe'
  OBVIOUS
<1>1. <<>> \in Seq(0..Span) /\ Len(<<>>) <= LOCKOUT_AFTER
  BY AuthAssumption
<1>2. ChallengeAnsweredOnce'
  BY DEF AuthReboot, InitAuth, ChallengeAnsweredOnce
<1> QED
  BY <1>1, <1>2, InitAuthOK, AuthSafeMeaning DEF AuthReboot

LEMMA TimeSafe == AuthSafe /\ TimePasses => AuthSafe'
<1> SUFFICES ASSUME AuthSafe, TimePasses PROVE AuthSafe'
  OBVIOUS
<1> DEFINE since == IF auth.since_attempt = None THEN None
                    ELSE CappedInc(auth.since_attempt, RETRY)
           left == IF auth.lockout_left = None \/ auth.lockout_left = 0
                   THEN auth.lockout_left ELSE auth.lockout_left - 1
           later == [auth EXCEPT !.since_attempt = since, !.lockout_left = left]
<1>1. AuthOK(auth)
  BY AuthSafeMeaning
<1>2. auth' = later
  BY DEF TimePasses
<1>3. since \in 0..RETRY \cup {None} /\ (since = None <=> auth.since_attempt = None)
  BY <1>1, AuthAssumption, AuthNoneAssumption DEF AuthOK, AuthRecord, CappedInc
<1>4. left \in 0..LOCKOUT \cup {None} /\ (left = None <=> auth.lockout_left = None)
  BY <1>1, AuthAssumption, AuthNoneAssumption DEF AuthOK, AuthRecord
<1> HIDE DEF since, left
<1>5. /\ later \in AuthRecord
      /\ later.pending_challenge = auth.pending_challenge
      /\ later.failed_attempts = auth.failed_attempts
      /\ later.since_attempt = since /\ later.lockout_left = left
  BY <1>1, <1>3, <1>4 DEF AuthOK, AuthRecord
<1> HIDE DEF later
<1>6. AuthOK(auth')
  BY <1>1, <1>2, <1>3, <1>4, <1>5 DEF AuthOK
<1>7. failures' \in Seq(0..Span) /\ Len(failures') = Len(failures)
  <2>1. failures' = [i \in 1..Len(failures) |-> CappedInc(failures[i], Span)]
    BY AuthSafeMeaning DEF TimePasses
  <2>2. \A i \in 1..Len(failures) : CappedInc(failures[i], Span) \in 0..Span
    BY AuthSafeMeaning, SpanIsNat DEF CappedInc
  <2>3. Len(failures) \in Nat
    BY AuthSafeMeaning
  <2> QED
    BY <2>1, <2>2, <2>3
<1>8. ChallengeAnsweredOnce'
  BY <1>2, <1>5, AuthSafeMeaning DEF TimePasses, ChallengeAnsweredOnce
<1> QED
  BY <1>6, <1>7, <1>8, AuthSafeMeaning DEF TimePasses

LEMMA AuthSafeInvariant == AuthSpec => []AuthSafe
<1>1. AuthSafe /\ [AuthNext]_authVars => AuthSafe'
  BY RequestSafe, AnswerSafe, RefusedSafe, RebootAuthSafe, TimeSafe DEF AuthNext
<1> QED
  BY <1>1, AuthSafeInit, PTL DEF AuthSpec

\* Every field keeps its type; in particular the failure counter never passes
\* the lockout threshold, far below the saturation of its u8.
THEOREM AuthTypeCorrect == AuthSpec => []AuthTypeOK
BY AuthSafeInvariant, PTL DEF AuthSafe

\* The failure counter and the lockout agree.
THEOREM LockoutAgrees == AuthSpec => []LockoutMatchesFailures
BY AuthSafeInvariant, PTL DEF AuthSafe

\* No challenge can be answered twice.
THEOREM ChallengesAreSingleUse == AuthSpec => []ChallengeAnsweredOnce
BY AuthSafeInvariant, PTL DEF AuthSafe

-----------------------------------------------------------------------------
(* Failures are apart: the i-th last failure is old enough for the retry     *)
(* intervals since, and for a lockout when one lies in between.              *)

Gap(k) == k * RETRY

LEMMA Sizes ==
    /\ RETRY \in Nat \ {0} /\ LOCKOUT \in Nat /\ RETRY <= LOCKOUT
    /\ LOCKOUT_AFTER \in Nat \ {0}
    /\ Span \in Nat /\ Span >= RETRY /\ Span > 0
    /\ Span = LOCKOUT + Gap(LOCKOUT_AFTER - 1)
<1>1. /\ RETRY \in Nat \ {0} /\ LOCKOUT \in Nat /\ RETRY <= LOCKOUT
      /\ LOCKOUT_AFTER \in Nat \ {0}
  BY AuthAssumption
<1>2. Gap(LOCKOUT_AFTER - 1) \in Nat
  <2>1. LOCKOUT_AFTER - 1 \in Nat
    BY <1>1
  <2>2. \A k \in Nat, r \in Nat : k * r \in Nat
    OBVIOUS
  <2> QED
    BY <1>1, <2>1, <2>2 DEF Gap
<1>3. Span = LOCKOUT + Gap(LOCKOUT_AFTER - 1)
  BY DEF Span, Gap
<1> QED
  BY <1>1, <1>2, <1>3

LEMMA Gaps ==
    ASSUME NEW k \in Int
    PROVE  Gap(k) \in Int /\ Gap(k) = Gap(k - 1) + RETRY
<1>1. k * RETRY \in Int /\ k * RETRY = (k - 1) * RETRY + RETRY
  BY Sizes
<1> QED
  BY <1>1 DEF Gap

LEMMA NoGap == Gap(0) = 0 /\ Gap(-1) + RETRY = 0 /\ Gap(-1) \in Int
  BY Sizes DEF Gap

\* Time since the last attempt, as far as the rate limit looks back.
Waited(a) == IF a.since_attempt = None THEN RETRY ELSE a.since_attempt

AtLeast(age, time) == age >= Span \/ age >= time

LEMMA AtLeastLess ==
    ASSUME NEW age \in 0..Span, NEW x \in Int, NEW y \in Int, y <= x, AtLeast(age, x)
    PROVE  AtLeast(age, y)
  BY Sizes DEF AtLeast

SpacedAt(a, i, age) ==
    /\ i <= a.failed_attempts => AtLeast(age, Waited(a) + Gap(i - 1))
    /\ i > a.failed_attempts => AtLeast(age, Waited(a) + Gap(i - 2) + LOCKOUT)
    /\ a.lockout_left # None => AtLeast(age, LOCKOUT - a.lockout_left + Gap(i - 1))

Spaced(a, f) == \A i \in 1..Len(f) : SpacedAt(a, i, f[i])

LEMMA WaitedRange ==
    ASSUME NEW a, AuthOK(a)
    PROVE  Waited(a) \in 0..RETRY /\ a.failed_attempts \in 0..LOCKOUT_AFTER
  BY AuthAssumption DEF AuthOK, AuthRecord, Waited

\* An expired lockout leaves a full lockout behind every failure.
LEMMA RefreshSpaced ==
    ASSUME NEW a, AuthOK(a), NEW i \in Nat \ {0}, i <= LOCKOUT_AFTER, NEW age \in 0..Span,
           SpacedAt(a, i, age)
    PROVE  SpacedAt(refresh_bootloader_auth_window(a), i, age)
<1>1. CASE a.lockout_left = 0
  <2> DEFINE r == [a EXCEPT !.lockout_left = None, !.failed_attempts = 0, !.since_attempt = None]
  <2>1. refresh_bootloader_auth_window(a) = r
    BY <1>1 DEF refresh_bootloader_auth_window
  <2>2. r.lockout_left = None /\ r.failed_attempts = 0 /\ r.since_attempt = None
    BY DEF AuthOK, AuthRecord
  <2> HIDE DEF r
  <2>3. Waited(r) = RETRY
    BY <2>2 DEF Waited
  <2>4. 0 # None
    BY AuthNoneAssumption
  <2>5. AtLeast(age, LOCKOUT - 0 + Gap(i - 1))
    BY <1>1, <2>4 DEF SpacedAt
  <2>6. Gap(i - 1) = Gap(i - 2) + RETRY /\ Gap(i - 2) \in Int
    <3>1. i - 1 \in Int /\ i - 2 \in Int /\ (i - 1) - 1 = i - 2
      OBVIOUS
    <3> QED
      BY <3>1, Gaps
  <2>7. AtLeast(age, RETRY + Gap(i - 2) + LOCKOUT)
    BY <2>5, <2>6, Sizes DEF AtLeast
  <2>8. SpacedAt(r, i, age)
    BY <2>2, <2>3, <2>7 DEF SpacedAt
  <2> QED
    BY <2>1, <2>8
<1>2. CASE a.lockout_left # 0
  BY <1>2 DEF refresh_bootloader_auth_window
<1> QED
  BY <1>1, <1>2

\* Only the three fields matter.
LEMMA SameSpacing ==
    ASSUME NEW a, NEW b, NEW f, Spaced(a, f),
           b.since_attempt = a.since_attempt, b.failed_attempts = a.failed_attempts,
           b.lockout_left = a.lockout_left
    PROVE  Spaced(b, f)
  BY DEF Spaced, SpacedAt, Waited

LEMMA Elements ==
    ASSUME NEW S, NEW f \in Seq(S)
    PROVE  /\ Len(f) \in Nat /\ \A i \in 1..Len(f) : f[i] \in S
           /\ f # <<>> => Len(f) >= 1
  OBVIOUS

\* When an answer is read, the failures so far are an interval old, and with a
\* full history a lockout more.
LEMMA ReadIsSpaced ==
    ASSUME NEW a, AuthOK(a), a.lockout_left = None, ~is_rate_limited(a),
           NEW f \in Seq(0..Span), Spaced(a, f)
    PROVE  /\ Waited(a) = RETRY
           /\ f # <<>> => f[1] >= RETRY
           /\ Len(f) = LOCKOUT_AFTER => f[LOCKOUT_AFTER] >= Span
<1>1. Waited(a) = RETRY
  BY DEF Waited, is_rate_limited
<1>2. a.failed_attempts \in 0..LOCKOUT_AFTER /\ a.failed_attempts # LOCKOUT_AFTER
  BY WaitedRange DEF AuthOK
<1>3. ASSUME f # <<>> PROVE f[1] >= RETRY
  <2>1. 1 \in 1..Len(f) /\ f[1] \in 0..Span
    <3>1. Len(f) \in Nat /\ Len(f) >= 1 /\ \A i \in 1..Len(f) : f[i] \in 0..Span
      BY <1>3, Elements, Zenon
    <3> QED
      BY <3>1
  <2>2. SpacedAt(a, 1, f[1])
    BY <2>1 DEF Spaced
  <2>3. 1 - 1 = 0 /\ 1 - 2 = -1
    OBVIOUS
  <2>4. \/ AtLeast(f[1], RETRY + Gap(0))
        \/ AtLeast(f[1], RETRY + Gap(-1) + LOCKOUT)
    BY <1>1, <1>2, <2>2, <2>3 DEF SpacedAt
  <2> QED
    BY <2>1, <2>4, NoGap, Sizes DEF AtLeast
<1>4. ASSUME Len(f) = LOCKOUT_AFTER PROVE f[LOCKOUT_AFTER] >= Span
  <2>1. LOCKOUT_AFTER \in 1..Len(f) /\ f[LOCKOUT_AFTER] \in 0..Span
    BY <1>4, Sizes, Elements
  <2>2. SpacedAt(a, LOCKOUT_AFTER, f[LOCKOUT_AFTER])
    BY <2>1 DEF Spaced
  <2>3. Gap(LOCKOUT_AFTER - 1) = Gap(LOCKOUT_AFTER - 2) + RETRY /\ Gap(LOCKOUT_AFTER - 2) \in Int
    <3>1. /\ LOCKOUT_AFTER - 1 \in Int /\ LOCKOUT_AFTER - 2 \in Int
          /\ (LOCKOUT_AFTER - 1) - 1 = LOCKOUT_AFTER - 2
      BY Sizes
    <3> QED
      BY <3>1, Gaps
  <2>4. AtLeast(f[LOCKOUT_AFTER], RETRY + Gap(LOCKOUT_AFTER - 2) + LOCKOUT)
    <3>1. LOCKOUT_AFTER > a.failed_attempts
      BY <1>2, Sizes
    <3> QED
      BY <1>1, <2>2, <3>1 DEF SpacedAt
  <2> QED
    BY <2>1, <2>3, <2>4, Sizes DEF AtLeast
<1> QED
  BY <1>1, <1>3, <1>4

LEMMA FailureFields ==
    ASSUME NEW a, AuthOK(a), a.lockout_left = None
    PROVE  LET b == record_failure(a)
           IN  /\ b.since_attempt = 0
               /\ b.failed_attempts = a.failed_attempts + 1
               /\ b.lockout_left \in {None, LOCKOUT}
<1> DEFINE failed == CappedInc(a.failed_attempts, ATTEMPTS_MAX)
<1>1. failed = a.failed_attempts + 1
  <2>1. a.failed_attempts \in 0..LOCKOUT_AFTER /\ a.failed_attempts # LOCKOUT_AFTER
    BY WaitedRange DEF AuthOK
  <2> QED
    BY <2>1, AuthAssumption DEF CappedInc
<1> HIDE DEF failed
<1>2. \/ record_failure(a) = [[a EXCEPT !.since_attempt = 0, !.failed_attempts = failed]
                                EXCEPT !.lockout_left = LOCKOUT, !.pending_challenge = None]
      \/ record_failure(a) = [a EXCEPT !.since_attempt = 0, !.failed_attempts = failed]
  BY DEF record_failure, failed
<1> QED
  BY <1>1, <1>2 DEF AuthOK, AuthRecord

\* A new failure pushes the older ones one place down the history.
LEMMA NewFailureElements ==
    ASSUME failures \in Seq(0..Span), Len(failures) <= LOCKOUT_AFTER, NewFailure
    PROVE  /\ Len(failures') \in Nat /\ Len(failures') <= LOCKOUT_AFTER
           /\ failures' # <<>> /\ failures'[1] = 0
           /\ \A i \in 1..Len(failures') :
                i # 1 => i - 1 \in 1..Len(failures) /\ failures'[i] = failures[i - 1]
<1> DEFINE all == <<0>> \o failures
           n == IF Len(failures) < LOCKOUT_AFTER THEN Len(failures) + 1 ELSE LOCKOUT_AFTER
<1>1. /\ all \in Seq(0..Span) /\ Len(all) = Len(failures) + 1 /\ all[1] = 0
      /\ Len(failures) \in Nat
      /\ \A i \in 1..Len(all) : i # 1 => i - 1 \in 1..Len(failures) /\ all[i] = failures[i - 1]
  BY SpanIsNat
<1>2. n \in Nat /\ n >= 1 /\ n <= Len(all) /\ n <= LOCKOUT_AFTER
  BY <1>1, AuthAssumption
<1>3. failures' = SubSeq(all, 1, n)
  BY DEF NewFailure
<1> HIDE DEF all, n
<1>4. Len(failures') = n /\ failures' # <<>> /\ \A i \in 1..n : failures'[i] = all[i]
  BY <1>1, <1>2, <1>3
<1>5. \A i \in 1..n : i \in 1..Len(all)
  BY <1>1, <1>2
<1>6. 1 \in 1..n
  BY <1>2
<1> QED
  BY <1>1, <1>2, <1>4, <1>5, <1>6

LEMMA FailureSpaced ==
    ASSUME NEW a, AuthOK(a), a.lockout_left = None, ~is_rate_limited(a),
           failures \in Seq(0..Span), Len(failures) <= LOCKOUT_AFTER,
           Spaced(a, failures), NewFailure
    PROVE  Spaced(record_failure(a), failures')
<1> DEFINE b == record_failure(a)
<1>1. /\ Waited(a) = RETRY /\ a.failed_attempts \in 0..LOCKOUT_AFTER
  BY ReadIsSpaced, WaitedRange
<1>2. /\ b.since_attempt = 0 /\ b.failed_attempts = a.failed_attempts + 1
      /\ b.lockout_left \in {None, LOCKOUT}
  BY FailureFields
<1> HIDE DEF b
<1>3. Waited(b) = 0
  BY <1>2, AuthNoneAssumption DEF Waited
<1>4. ASSUME NEW i \in 1..Len(failures') PROVE SpacedAt(b, i, failures'[i])
  <2>1. Len(failures') \in Nat
    BY NewFailureElements
  <2>2. CASE i = 1
    <3>1. failures'[i] = 0
      BY <2>2, NewFailureElements
    <3>2. i <= b.failed_attempts /\ ~(i > b.failed_attempts) /\ i - 1 = 0
      BY <1>1, <1>2, <2>2
    <3>3. b.lockout_left # None => LOCKOUT - b.lockout_left + Gap(0) = 0
      BY <1>2, NoGap, Sizes
    <3> QED
      <4>1. AtLeast(0, 0 + Gap(0))
        BY NoGap DEF AtLeast
      <4>2. b.lockout_left # None => AtLeast(0, LOCKOUT - b.lockout_left + Gap(0))
        BY <3>3 DEF AtLeast
      <4> QED
        BY <1>3, <3>1, <3>2, <4>1, <4>2, Zenon DEF SpacedAt
  <2>3. CASE i # 1
    <3>1. i - 1 \in 1..Len(failures) /\ failures'[i] = failures[i - 1]
      BY <2>3, NewFailureElements
    <3>2. SpacedAt(a, i - 1, failures[i - 1]) /\ failures[i - 1] \in 0..Span
      <4>1. failures[i - 1] \in 0..Span
        BY <3>1, Elements, Zenon
      <4> QED
        BY <3>1, <4>1, Zenon DEF Spaced
    <3>3. /\ (i - 1) - 1 = i - 2 /\ (i - 1) - 2 = i - 3 /\ i - 1 \in Int /\ i - 2 \in Int
          /\ (i - 2) - 1 = i - 3
      BY <2>1
    <3>4. /\ Gap(i - 1) = Gap(i - 2) + RETRY /\ Gap(i - 2) = Gap(i - 3) + RETRY
          /\ Gap(i - 1) \in Int /\ Gap(i - 2) \in Int /\ Gap(i - 3) \in Int
      <4>1. Gap(i - 1) \in Int /\ Gap(i - 1) = Gap((i - 1) - 1) + RETRY
        BY <3>3, Gaps
      <4>2. Gap(i - 2) \in Int /\ Gap(i - 2) = Gap((i - 2) - 1) + RETRY
        BY <3>3, Gaps
      <4>3. i - 3 \in Int
        BY <2>1
      <4> QED
        BY <3>3, <4>1, <4>2, <4>3, Gaps
    <3>5. i <= b.failed_attempts => AtLeast(failures'[i], 0 + Gap(i - 1))
      <4>1. ASSUME i <= b.failed_attempts PROVE AtLeast(failures'[i], 0 + Gap(i - 1))
        <5>1. i - 1 <= a.failed_attempts
          BY <1>1, <1>2, <4>1
        <5>2. AtLeast(failures[i - 1], RETRY + Gap(i - 2))
          BY <1>1, <3>2, <3>3, <5>1 DEF SpacedAt
        <5> QED
          BY <3>1, <3>2, <3>4, <5>2, Sizes DEF AtLeast
      <4> QED
        BY <4>1
    <3>6. i > b.failed_attempts => AtLeast(failures'[i], 0 + Gap(i - 2) + LOCKOUT)
      <4>1. ASSUME i > b.failed_attempts PROVE AtLeast(failures'[i], 0 + Gap(i - 2) + LOCKOUT)
        <5>1. i - 1 > a.failed_attempts
          BY <1>1, <1>2, <4>1
        <5>2. AtLeast(failures[i - 1], RETRY + Gap(i - 3) + LOCKOUT)
          BY <1>1, <3>2, <3>3, <5>1 DEF SpacedAt
        <5> QED
          BY <3>1, <3>2, <3>4, <5>2, Sizes DEF AtLeast
      <4> QED
        BY <4>1
    <3>7. b.lockout_left # None => AtLeast(failures'[i], LOCKOUT - b.lockout_left + Gap(i - 1))
      <4>1. ASSUME b.lockout_left # None
            PROVE  AtLeast(failures'[i], LOCKOUT - b.lockout_left + Gap(i - 1))
        <5>1. b.lockout_left = LOCKOUT
          BY <1>2, <4>1
        <5>2. \/ AtLeast(failures'[i], 0 + Gap(i - 1))
              \/ AtLeast(failures'[i], 0 + Gap(i - 2) + LOCKOUT)
          BY <1>1, <1>2, <3>5, <3>6
        <5> QED
          <6>1. /\ LOCKOUT - b.lockout_left + Gap(i - 1) = Gap(i - 1)
                /\ 0 + Gap(i - 1) = Gap(i - 1)
                /\ 0 + Gap(i - 2) + LOCKOUT >= Gap(i - 1)
            BY <3>4, <5>1, Sizes
          <6>2. AtLeast(failures[i - 1], Gap(i - 1))
            <7>1. CASE AtLeast(failures'[i], 0 + Gap(i - 1))
              BY <3>1, <6>1, <7>1
            <7>2. CASE AtLeast(failures'[i], 0 + Gap(i - 2) + LOCKOUT)
              <8>1. AtLeast(failures[i - 1], 0 + Gap(i - 2) + LOCKOUT)
                BY <3>1, <7>2
              <8>2. 0 + Gap(i - 2) + LOCKOUT \in Int
                BY <3>4, Sizes
              <8> QED
                BY <3>2, <3>4, <6>1, <8>1, <8>2, AtLeastLess
            <7> QED
              BY <5>2, <7>1, <7>2
          <6> QED
            BY <3>1, <6>1, <6>2
      <4> QED
        BY <4>1
    <3> QED
      BY <1>3, <3>5, <3>6, <3>7 DEF SpacedAt
  <2> QED
    BY <2>2, <2>3
<1> QED
  BY <1>4 DEF Spaced, b

\* Time makes every failure older, up to the bound, and the rate limit and the
\* lockout no faster.
LEMMA AgedAtLeast ==
    ASSUME NEW age \in 0..Span, NEW x \in Int, NEW y \in Int, y <= x + 1, AtLeast(age, x)
    PROVE  AtLeast(CappedInc(age, Span), y)
  BY Sizes DEF AtLeast, CappedInc

LEMMA Sums ==
    ASSUME NEW w \in Int, NEW v \in Int, NEW g \in Int, NEW l \in Int, v <= w + 1
    PROVE  w + g + l \in Int /\ v + g + l \in Int /\ v + g + l <= w + g + l + 1
  OBVIOUS

LEMMA TimeSpaced ==
    ASSUME AuthSafe, Spaced(auth, failures), TimePasses
    PROVE  Spaced(auth', failures')
<1> DEFINE since == IF auth.since_attempt = None THEN None
                    ELSE CappedInc(auth.since_attempt, RETRY)
           left == IF auth.lockout_left = None \/ auth.lockout_left = 0
                   THEN auth.lockout_left ELSE auth.lockout_left - 1
           later == [auth EXCEPT !.since_attempt = since, !.lockout_left = left]
<1>1. AuthOK(auth)
  BY AuthSafeMeaning
<1>2. auth' = later
  BY DEF TimePasses
<1>3. /\ later.since_attempt = since /\ later.lockout_left = left
      /\ later.failed_attempts = auth.failed_attempts
  BY <1>1 DEF AuthOK, AuthRecord
<1> HIDE DEF later
<1>4. Waited(later) \in 0..RETRY /\ Waited(later) <= Waited(auth) + 1
  <2>1. auth.since_attempt \in 0..RETRY \cup {None}
    BY <1>1 DEF AuthOK, AuthRecord
  <2> QED
    BY <1>3, <2>1, AuthNoneAssumption, Sizes DEF Waited, CappedInc
<1>5. /\ left # None <=> auth.lockout_left # None
      /\ auth.lockout_left # None =>
           left \in Int /\ auth.lockout_left \in Int /\ auth.lockout_left <= left + 1
  <2>1. auth.lockout_left \in 0..LOCKOUT \cup {None}
    BY <1>1 DEF AuthOK, AuthRecord
  <2> QED
    BY <2>1, AuthNoneAssumption, Sizes
<1> HIDE DEF since, left
<1>6. Waited(auth) \in 0..RETRY /\ auth.failed_attempts \in 0..LOCKOUT_AFTER
  BY <1>1, WaitedRange
<1> DEFINE before == Waited(auth)
           now == Waited(later)
<1>7. /\ before \in Int /\ now \in Int /\ now <= before + 1
  BY <1>4, <1>6, Sizes
<1> HIDE DEF before, now
<1>8. /\ failures \in Seq(0..Span) /\ Len(failures) \in Nat
      /\ \A i \in 1..Len(failures) : failures[i] \in 0..Span
  <2>1. failures \in Seq(0..Span)
    BY AuthSafeMeaning
  <2> QED
    BY <2>1, Elements, Zenon
<1>9. failures' = [i \in 1..Len(failures) |-> CappedInc(failures[i], Span)]
  BY <1>8 DEF TimePasses
<1>10. Len(failures') = Len(failures)
  BY <1>8, <1>9
<1>11. ASSUME NEW i \in 1..Len(failures) PROVE SpacedAt(later, i, failures'[i])
  <2>1. failures'[i] = CappedInc(failures[i], Span)
    BY <1>9
  <2>2. failures[i] \in 0..Span /\ SpacedAt(auth, i, failures[i])
    BY <1>8 DEF Spaced
  <2>3. Gap(i - 1) \in Int /\ Gap(i - 2) \in Int
    BY <1>8, Gaps
  <2>4. ASSUME i <= later.failed_attempts
        PROVE  AtLeast(failures'[i], Waited(later) + Gap(i - 1))
    <3>1. AtLeast(failures[i], Waited(auth) + Gap(i - 1))
      BY <1>3, <2>2, <2>4 DEF SpacedAt
    <3>2. /\ Waited(auth) + Gap(i - 1) \in Int /\ Waited(later) + Gap(i - 1) \in Int
          /\ Waited(later) + Gap(i - 1) <= Waited(auth) + Gap(i - 1) + 1
      BY <1>7, <2>3 DEF before, now
    <3> DEFINE x == Waited(auth) + Gap(i - 1)
               y == Waited(later) + Gap(i - 1)
    <3>3. x \in Int /\ y \in Int /\ y <= x + 1 /\ AtLeast(failures[i], x)
      BY <3>1, <3>2
    <3>4. failures[i] \in 0..Span
      BY <2>2
    <3> HIDE DEF x, y
    <3>5. AtLeast(CappedInc(failures[i], Span), y)
      BY <3>3, <3>4, AgedAtLeast
    <3> QED
      BY <2>1, <3>5 DEF y
  <2>5. ASSUME i > later.failed_attempts
        PROVE  AtLeast(failures'[i], Waited(later) + Gap(i - 2) + LOCKOUT)
    <3>1. AtLeast(failures[i], Waited(auth) + Gap(i - 2) + LOCKOUT)
      BY <1>3, <2>2, <2>5 DEF SpacedAt
    <3>2. /\ Waited(auth) + Gap(i - 2) + LOCKOUT \in Int
          /\ Waited(later) + Gap(i - 2) + LOCKOUT \in Int
          /\ Waited(later) + Gap(i - 2) + LOCKOUT <= Waited(auth) + Gap(i - 2) + LOCKOUT + 1
      <4>1. /\ LOCKOUT \in Int
            /\ Waited(auth) \in Int /\ Waited(later) \in Int /\ Waited(later) <= Waited(auth) + 1
        BY <1>7, Sizes DEF before, now
      <4> QED
        BY <2>3, <4>1, Sums
    <3> DEFINE x == Waited(auth) + Gap(i - 2) + LOCKOUT
               y == Waited(later) + Gap(i - 2) + LOCKOUT
    <3>3. x \in Int /\ y \in Int /\ y <= x + 1 /\ AtLeast(failures[i], x)
      BY <3>1, <3>2
    <3>4. failures[i] \in 0..Span
      BY <2>2
    <3> HIDE DEF x, y
    <3>5. AtLeast(CappedInc(failures[i], Span), y)
      BY <3>3, <3>4, AgedAtLeast
    <3> QED
      BY <2>1, <3>5 DEF y
  <2>6. ASSUME left # None
        PROVE  AtLeast(failures'[i], LOCKOUT - left + Gap(i - 1))
    <3>1. AtLeast(failures[i], LOCKOUT - auth.lockout_left + Gap(i - 1))
      BY <1>5, <2>2, <2>6 DEF SpacedAt
    <3>2. /\ LOCKOUT - auth.lockout_left + Gap(i - 1) \in Int
          /\ LOCKOUT - left + Gap(i - 1) \in Int
          /\ LOCKOUT - left + Gap(i - 1) <= LOCKOUT - auth.lockout_left + Gap(i - 1) + 1
      <4>1. /\ LOCKOUT \in Int /\ left \in Int /\ auth.lockout_left \in Int
            /\ auth.lockout_left <= left + 1
        BY <1>5, <2>6, Sizes
      <4> QED
        BY <2>3, <4>1
    <3> QED
      BY <2>1, <2>2, <3>1, <3>2, AgedAtLeast
  <2> QED
    BY <1>3, <2>4, <2>5, <2>6 DEF SpacedAt
<1> QED
  BY <1>2, <1>10, <1>11 DEF Spaced

\* What an answer is read with: the refreshed state, spaced as before.
LEMMA RefreshedSpaced ==
    ASSUME AuthSafe, Spaced(auth, failures)
    PROVE  Spaced(Refreshed, failures)
<1>1. AuthOK(auth) /\ failures \in Seq(0..Span) /\ Len(failures) <= LOCKOUT_AFTER
  BY AuthSafeMeaning
<1>2. Len(failures) \in Nat /\ \A i \in 1..Len(failures) : failures[i] \in 0..Span
  BY <1>1, Elements, Zenon
<1>3. ASSUME NEW i \in 1..Len(failures)
      PROVE  SpacedAt(refresh_bootloader_auth_window(auth), i, failures[i])
  <2>1. i \in Nat \ {0} /\ i <= LOCKOUT_AFTER
    BY <1>1, <1>2, Sizes
  <2>2. SpacedAt(auth, i, failures[i])
    BY DEF Spaced
  <2> QED
    BY <1>1, <1>2, <2>1, <2>2, RefreshSpaced
<1> QED
  BY <1>3 DEF Spaced, Refreshed

LEMMA SpacedInit == AuthInit => Spaced(auth, failures)
BY DEF AuthInit, Spaced

\* A failed answer, read with state a: the refreshed one, its challenge taken or not.
LEMMA AnswerSpaced ==
    ASSUME AuthSafe, Spaced(auth, failures), MayAnswer, NewFailure, NEW a,
           a \in {Refreshed, [Refreshed EXCEPT !.pending_challenge = None]}
    PROVE  /\ Spaced(record_failure(a), failures')
           /\ failures # <<>> =>
                /\ failures[1] >= RETRY
                /\ Len(failures) = LOCKOUT_AFTER => failures[LOCKOUT_AFTER] >= Span
<1>1. AuthOK(auth) /\ failures \in Seq(0..Span) /\ Len(failures) <= LOCKOUT_AFTER
  BY AuthSafeMeaning
<1>2. AuthOK(Refreshed) /\ Refreshed.lockout_left = None /\ ~is_rate_limited(Refreshed)
  BY <1>1, RefreshOK DEF Refreshed, MayAnswer
<1>3. /\ AuthOK(a) /\ a.lockout_left = Refreshed.lockout_left
      /\ a.since_attempt = Refreshed.since_attempt
      /\ a.failed_attempts = Refreshed.failed_attempts
  BY <1>2 DEF AuthOK, AuthRecord
<1>4. Spaced(a, failures)
  BY <1>3, RefreshedSpaced, SameSpacing
<1>5. a.lockout_left = None /\ ~is_rate_limited(a)
  BY <1>2, <1>3 DEF is_rate_limited
<1>6. Spaced(record_failure(a), failures')
  BY <1>1, <1>3, <1>4, <1>5, FailureSpaced
<1>7. /\ failures # <<>> => failures[1] >= RETRY
      /\ Len(failures) = LOCKOUT_AFTER => failures[LOCKOUT_AFTER] >= Span
  BY <1>1, <1>3, <1>4, <1>5, ReadIsSpaced
<1> QED
  BY <1>6, <1>7

LEMMA SpacedStep ==
    ASSUME AuthSafe, Spaced(auth, failures), [AuthNext]_authVars
    PROVE  Spaced(auth', failures')
<1>1. CASE RequestChallenge
  <2> DEFINE asked == [Refreshed EXCEPT !.pending_challenge = NextChallenge]
  <2>1. auth' = asked /\ failures' = failures
    BY <1>1 DEF RequestChallenge
  <2>2. AuthOK(Refreshed)
    BY AuthSafeMeaning, RefreshOK DEF Refreshed
  <2>3. /\ asked.since_attempt = Refreshed.since_attempt
        /\ asked.failed_attempts = Refreshed.failed_attempts
        /\ asked.lockout_left = Refreshed.lockout_left
    BY <2>2 DEF AuthOK, AuthRecord
  <2> HIDE DEF asked
  <2> QED
    BY <2>1, <2>3, RefreshedSpaced, SameSpacing
<1>2. CASE RefuseUnread
  BY <1>2, RefreshedSpaced DEF RefuseUnread
<1>3. CASE AnswerMalformed
  BY <1>3, AnswerSpaced DEF AnswerMalformed
<1>4. CASE AnswerUnasked
  BY <1>4, AnswerSpaced DEF AnswerUnasked
<1>5. CASE Wrong
  BY <1>5, AnswerSpaced DEF Wrong, AnswerWrong
<1>6. CASE Right
  BY <1>6 DEF Right, AnswerRight, Spaced
<1>7. CASE DropChallenge
  <2>1. AuthOK(auth)
    BY AuthSafeMeaning
  <2>2. /\ auth'.since_attempt = auth.since_attempt
        /\ auth'.failed_attempts = auth.failed_attempts
        /\ auth'.lockout_left = auth.lockout_left
        /\ failures' = failures
    BY <1>7, <2>1 DEF DropChallenge, AuthOK, AuthRecord
  <2> QED
    BY <2>2, SameSpacing
<1>8. CASE AuthReboot
  BY <1>8 DEF AuthReboot, Spaced
<1>9. CASE TimePasses
  BY <1>9, TimeSpaced
<1>10. CASE UNCHANGED authVars
  BY <1>10 DEF authVars
<1> QED
  BY <1>1, <1>2, <1>3, <1>4, <1>5, <1>6, <1>7, <1>8, <1>9, <1>10 DEF AuthNext

\* Only an answer adds a failure of age 0.
LEMMA ThrottledStep ==
    ASSUME AuthSafe, Spaced(auth, failures), [AuthNext]_authVars, FailureCounted,
           failures # <<>>
    PROVE  /\ failures[1] >= RETRY
           /\ Len(failures) = LOCKOUT_AFTER => failures[LOCKOUT_AFTER] >= Span
<1>1. ~TimePasses
  <2> SUFFICES ASSUME TimePasses PROVE FALSE
    OBVIOUS
  <2>1. failures \in Seq(0..Span)
    BY AuthSafeMeaning
  <2>2. 1 \in 1..Len(failures) /\ failures[1] \in 0..Span
    <3>1. Len(failures) \in Nat /\ Len(failures) >= 1 /\ \A i \in 1..Len(failures) : failures[i] \in 0..Span
      BY <2>1, Elements, Zenon
    <3> QED
      BY <3>1
  <2>3. failures'[1] = CappedInc(failures[1], Span)
    BY <2>1, <2>2 DEF TimePasses
  <2> QED
    BY <2>2, <2>3, Sizes DEF FailureCounted, CappedInc
<1>2. NewFailure /\ MayAnswer
  BY <1>1 DEF FailureCounted, AuthNext, authVars, RequestChallenge, RefuseUnread,
              AnswerMalformed, AnswerUnasked, Wrong, AnswerWrong, Right, AnswerRight,
              DropChallenge, AuthReboot
<1> QED
  BY <1>2, AnswerSpaced

\* Failed answers are RETRY apart, and LOCKOUT_AFTER + 1 of them in a row have a
\* whole lockout between them: no number of guesses gets around the throttle.
THEOREM FailuresAreThrottled == AuthSpec => FailuresThrottled
<1>1. AuthSpec => []AuthSafe
  BY AuthSafeInvariant
<1>2. AuthSafe /\ Spaced(auth, failures) /\ [AuthNext]_authVars => Spaced(auth, failures)'
  BY SpacedStep
<1>3. AuthSafe /\ Spaced(auth, failures) /\ [AuthNext]_authVars =>
        [(FailureCounted /\ failures # <<>>) =>
          /\ failures[1] >= RETRY
          /\ Len(failures) = LOCKOUT_AFTER => failures[LOCKOUT_AFTER] >= Span]_authVars
  BY ThrottledStep
<1> QED
  BY <1>1, <1>2, <1>3, SpacedInit, PTL DEF AuthSpec, FailuresThrottled
===============================================================================
