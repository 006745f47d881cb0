-------------------------- MODULE TimeManagerProofs ---------------------------
(***************************************************************************)
(* The clock, for any intervals, any network and any use of the time view: *)
(* the types, and the base interval between two attempts of update.        *)
(***************************************************************************)
EXTENDS TimeManager, TLAPS

LEMMA Limits ==
  /\ Base \in Nat /\ Base > 0 /\ Doublings \in Nat /\ MaxInterval \in Nat /\ Refresh \in Nat
  /\ RetryCap \in Nat /\ RoundTrip \in Nat /\ Poll \in Nat /\ MaxPresses \in Nat
  /\ Base <= MaxInterval /\ Eldest \in Nat /\ Eldest > 0
BY TimeAssumption DEF Eldest

FlagsOK ==
  /\ auto \in BOOLEAN /\ wasConnected \in BOOLEAN /\ clock \in BOOLEAN /\ connected \in BOOLEAN
  /\ online \in BOOLEAN /\ synced \in BOOLEAN /\ telling \in BOOLEAN

PlacesOK ==
  /\ supply \in Supplies /\ source \in {"None", "Local", "SNTP", "Tower"}
  /\ update \in {"idle", "looking", "judging", "refreshing", "retrying"}
  /\ sntp \in {"off", "asking", "waiting"} /\ mesh \in {"idle", "setting"}
  /\ early \subseteq {"retry", "refresh"}

AgesOK ==
  /\ retry \in Nat /\ retry <= RetryCap /\ presses \in Nat /\ presses <= MaxPresses
  /\ sinceAttempt \in Nat /\ sinceAttempt <= Eldest
  /\ sinceSync \in Nat /\ sinceSync <= Eldest
  /\ sinceCall \in Nat /\ sinceCall <= Eldest
  /\ sinceNow \in {0, 1}

\* How long the client has been asking, or waiting.
AskedOK ==
  /\ asked \in Nat /\ sntp \in {"off", "asking", "waiting"}
  /\ sntp = "off" => asked = 0
  /\ sntp = "asking" => asked <= RoundTrip
  /\ sntp = "waiting" => asked <= Poll

LEMMA FlagsStep ==
  ASSUME FlagsOK, [NextTime]_timeVars
  PROVE  FlagsOK'
<1> USE DEF FlagsOK, shared, call, client, NotifySynced
<1>1. CASE UpdateStep
  BY <1>1 DEF UpdateStep, UpdateBegins, Begin, ReadClock, JudgeSource, RefreshSync, RetrySync
<1>2. CASE View
  BY <1>2 DEF View, SaveAndApply
<1>3. CASE SntpTask \/ SetEpoch \/ SetEpochNotifies \/ Network \/ Tick \/ UNCHANGED timeVars
  BY <1>3 DEF SntpTask, Answer, Report, SetEpoch, SetEpochNotifies, Network, Tick, timeVars
<1> QED BY <1>1, <1>2, <1>3 DEF NextTime

LEMMA PlacesStep ==
  ASSUME PlacesOK, [NextTime]_timeVars
  PROVE  PlacesOK'
<1> USE DEF PlacesOK, shared, call, client, timeHistory, NotifySynced
<1>1. CASE UpdateBegins \/ ReadClock \/ JudgeSource
  BY <1>1 DEF UpdateBegins, Begin, ReadClock, JudgeSource
<1>2. CASE RefreshSync
  BY <1>2 DEF RefreshSync, Call
<1>3. CASE RetrySync
  BY <1>3 DEF RetrySync, Call
<1>4. CASE View
  BY <1>4 DEF View, SaveAndApply, SyncNtp
<1>5. CASE SntpTask \/ SetEpoch \/ SetEpochNotifies \/ Network
  BY <1>5 DEF SntpTask, Answer, Report, SetEpoch, SetEpochNotifies, Network
<1>6. CASE Tick
  BY <1>6 DEF Tick
<1>7. CASE UNCHANGED timeVars
  BY <1>7 DEF timeVars
<1> QED BY <1>1, <1>2, <1>3, <1>4, <1>5, <1>6, <1>7 DEF NextTime, UpdateStep

LEMMA AgesStep ==
  ASSUME AgesOK, [NextTime]_timeVars
  PROVE  AgesOK'
<1> USE Limits DEF AgesOK, shared, call, client, timeHistory, NotifySynced
<1>1. CASE UpdateBegins \/ ReadClock \/ JudgeSource
  BY <1>1 DEF UpdateBegins, Begin, ReadClock, JudgeSource
<1>2. CASE RefreshSync
  BY <1>2 DEF RefreshSync, Call
<1>3. CASE RetrySync
  BY <1>3 DEF RetrySync, Call, Counted
<1>4. CASE View
  BY <1>4 DEF View, SaveAndApply, SyncNtp
<1>5. CASE SntpTask \/ SetEpoch \/ SetEpochNotifies \/ Network
  BY <1>5 DEF SntpTask, Answer, Report, SetEpoch, SetEpochNotifies, Network
<1>6. CASE Tick
  BY <1>6 DEF Tick, Older
<1>7. CASE UNCHANGED timeVars
  BY <1>7 DEF timeVars
<1> QED BY <1>1, <1>2, <1>3, <1>4, <1>5, <1>6, <1>7 DEF NextTime, UpdateStep

LEMMA AskedStep ==
  ASSUME AskedOK, [NextTime]_timeVars
  PROVE  AskedOK'
<1> USE Limits DEF AskedOK, client
<1>1. CASE UpdateBegins \/ ReadClock \/ JudgeSource
  BY <1>1 DEF UpdateBegins, Begin, ReadClock, JudgeSource
<1>2. CASE RefreshSync
  BY <1>2 DEF RefreshSync, Call
<1>3. CASE RetrySync
  BY <1>3 DEF RetrySync, Call
<1>4. CASE View
  BY <1>4 DEF View, SaveAndApply, SyncNtp
<1>5. CASE SntpTask \/ SetEpoch \/ SetEpochNotifies \/ Network
  BY <1>5 DEF SntpTask, Answer, Report, SetEpoch, SetEpochNotifies, Network
<1>6. CASE Tick
  BY <1>6 DEF Tick
<1>7. CASE UNCHANGED timeVars
  BY <1>7 DEF timeVars
<1> QED BY <1>1, <1>2, <1>3, <1>4, <1>5, <1>6, <1>7 DEF NextTime, UpdateStep

LEMMA TypesInvariant == SpecTime => [](FlagsOK /\ PlacesOK /\ AgesOK /\ AskedOK)
<1>1. InitTime => FlagsOK
  BY TimeAssumption DEF InitTime, FlagsOK
<1>2. InitTime => PlacesOK
  BY DEF InitTime, PlacesOK
<1>3. InitTime => AgesOK /\ AskedOK
  BY Limits DEF InitTime, AgesOK, AskedOK
<1> QED BY <1>1, <1>2, <1>3, FlagsStep, PlacesStep, AgesStep, AskedStep, PTL DEF SpecTime

\* Every variable of the clock keeps its type, and the counter of retries its bound.
THEOREM TimeTypes == SpecTime => []TimeTypeOK
<1>1. AgesOK => /\ retry \in 0..RetryCap /\ presses \in 0..MaxPresses /\ sinceNow \in {0, 1}
                /\ {sinceAttempt, sinceSync, sinceCall} \subseteq 0..Eldest
  BY Limits DEF AgesOK
<1>2. AskedOK => asked \in 0..(IF sntp = "waiting" THEN Poll ELSE RoundTrip)
  BY Limits DEF AskedOK
<1>3. FlagsOK /\ PlacesOK /\ AgesOK /\ AskedOK => TimeTypeOK
  BY <1>1, <1>2 DEF FlagsOK, PlacesOK, TimeTypeOK
<1> QED BY <1>3, TypesInvariant, PTL
-----------------------------------------------------------------------------
\* No interval is shorter than the base.
LEMMA IntervalBound ==
  ASSUME NEW n \in Nat
  PROVE  Interval(n) \in Nat /\ Interval(n) >= Base
<1>1. CASE n < Doublings
  <2>1. 2^n \in Nat /\ 2^n >= 1
    BY <1>1, Limits, PowersAssumption
  <2>2. ASSUME NEW m \in Nat, m >= 1
        PROVE  Base * m \in Nat /\ Base * m >= Base
    BY <2>2, Limits
  <2> QED BY <1>1, <2>1, <2>2 DEF Interval
<1>2. CASE ~(n < Doublings)
  BY <1>2, Limits DEF Interval
<1> QED BY <1>1, <1>2

\* Every call of the provider by update restarts the age that the backoff looks at, so
\* that age is never more than the time since the last such call; and within update it
\* has not become less than that of now: the difference does not wrap.
SpacedInv ==
  /\ "retry" \notin early
  /\ sinceAttempt <= sinceCall
  /\ update # "idle" => sinceNow <= sinceAttempt

LEMMA SpacedStep ==
  ASSUME AgesOK, SpacedInv, [NextTime]_timeVars
  PROVE  SpacedInv'
<1> USE Limits DEF AgesOK, SpacedInv, shared, call, client, timeHistory, NotifySynced
<1>1. CASE UpdateBegins \/ ReadClock \/ JudgeSource
  BY <1>1 DEF UpdateBegins, Begin, ReadClock, JudgeSource
<1>2. CASE RefreshSync
  BY <1>2 DEF RefreshSync, Call
<1>3. CASE RetrySync
  <2>1. update = "retrying" /\ update' = "idle"
    BY <1>3 DEF RetrySync
  <2>2. CASE Elapsed(sinceAttempt, Interval(retry))
    <3>1. sinceCall >= Base
      BY <2>1, <2>2, IntervalBound DEF Elapsed
    <3> QED BY <1>3, <2>1, <3>1 DEF RetrySync, Call
  <2>3. CASE ~Elapsed(sinceAttempt, Interval(retry))
    BY <1>3, <2>1, <2>3 DEF RetrySync
  <2> QED BY <2>2, <2>3
<1>4. CASE View
  BY <1>4 DEF View, SaveAndApply, SyncNtp
<1>5. CASE SntpTask \/ SetEpoch \/ SetEpochNotifies \/ Network
  BY <1>5 DEF SntpTask, Answer, Report, SetEpoch, SetEpochNotifies, Network
<1>6. CASE Tick
  BY <1>6 DEF Tick, Older
<1>7. CASE UNCHANGED timeVars
  BY <1>7 DEF timeVars
<1> QED BY <1>1, <1>2, <1>3, <1>4, <1>5, <1>6, <1>7 DEF NextTime, UpdateStep

\* Two automatic attempts are the base interval apart, however the network comes and goes
\* and whatever the user applies meanwhile (the backoff of update).
THEOREM AttemptsAreSpaced == SpecTime => []RetriesSpaced
<1>1. InitTime => SpacedInv
  BY Limits DEF InitTime, SpacedInv
<1>2. SpacedInv => RetriesSpaced
  BY DEF SpacedInv, RetriesSpaced
<1> QED BY <1>1, <1>2, TypesInvariant, SpacedStep, PTL DEF SpecTime
=============================================================================
