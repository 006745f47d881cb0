---------------------------- MODULE TimeManager -----------------------------
(***************************************************************************)
(* The clock of the system (core/src/time/TimeManager.cpp) and its SNTP    *)
(* providers.  Three tasks share its unprotected variables: the LVGL task  *)
(* calls update every few milliseconds and the time view's functions, the  *)
(* SNTP task sets the clock and reports it, and the mesh's receive task    *)
(* sets it from the broadcast of a tower.                                  *)
(*                                                                         *)
(* The milliseconds since boot are not represented, only how long ago the  *)
(* moments the code remembers are: a difference of two of them is a        *)
(* difference of ages, and one that comes out negative wraps to a huge     *)
(* number, as it does on uint32_t.                                         *)
(***************************************************************************)
EXTENDS Naturals

CONSTANTS
  Provider,    \* "espidf" (P4) or "arduino" (S3)
  Base,        \* BASE_RETRY_INTERVAL_MS (one minute), in units of the model's clock
  Doublings,   \* how often the interval doubles (4)
  MaxInterval, \* MAX_RETRY_INTERVAL_MS (15 minutes)
  Refresh,     \* SYNC_REFRESH_INTERVAL_MS (3 hours)
  RetryCap,    \* s_retryCount stops at this (255)
  RoundTrip,   \* from a question to the server's answer, its start delay included
  Poll,        \* after an answer the client asks again by itself (one hour)
  Supplies,    \* where the time may come from: sets of "server" and "tower"
  Kept,        \* whether the clock may have survived a reset
  MaxPresses   \* bound: how often the user applies the settings or forces a sync

ASSUME TimeAssumption ==
  /\ Provider \in {"espidf", "arduino"}
  /\ Base \in Nat \ {0} /\ Doublings \in Nat /\ MaxInterval \in Nat
  /\ Refresh \in Nat /\ RetryCap \in Nat /\ RoundTrip \in Nat
  /\ Poll \in Nat /\ MaxPresses \in Nat
  /\ Doublings <= RetryCap /\ Base <= MaxInterval /\ MaxInterval <= Refresh
  /\ Supplies \subseteq SUBSET {"server", "tower"} /\ Kept \in BOOLEAN

\* Arithmetic, for the proofs, which know nothing of powers.
ASSUME PowersAssumption == \A n \in 0..Doublings : 2^n \in Nat \ {0}

VARIABLES
  auto,         \* s_autoSyncEnabled
  retry,        \* s_retryCount
  wasConnected, \* s_wasConnected
  source,       \* s_currentSource
  sinceAttempt, \* the age of s_lastSyncAttempt
  sinceSync,    \* the age of s_lastSuccessfulSync
  clock,        \* the system clock reads later than 1700000000
  connected,    \* network::isConnected()
  update,       \* where update() is
  sinceNow,     \* the age of its local now; bound: a call lasts one unit at most
  online,       \* its local connected
  synced,       \* what isSynced saw of the clock
  sntp,         \* the SNTP client: "off", "asking", or "waiting" to ask again
  asked,        \* how long it has been
  supply,       \* whether the server answers and towers broadcast the time
  telling,      \* the SNTP task has set the clock and is about to say so
  presses,      \* how often the user has used the time view
  mesh,         \* the receive task: "idle", or "setting" the time
  sinceCall,    \* history: how long ago update last called the provider
  early         \* history: in which ways it called it too early

shared == <<auto, retry, wasConnected, source, sinceAttempt, sinceSync>>
call == <<update, sinceNow, online, synced>>
client == <<sntp, asked, telling>>
timeHistory == <<sinceCall, early>>
timeVars == <<shared, clock, connected, call, client, supply, mesh, presses, timeHistory>>
-----------------------------------------------------------------------------
\* Bound: ages are counted until they are Refresh, the longest interval, before the
\* now of any call of update.
Eldest == Refresh + 1
Older(age) == IF age < Eldest THEN age + 1 ELSE age

InitTime ==
  /\ auto \in BOOLEAN /\ retry = 0 /\ wasConnected = FALSE /\ source = "None"
  /\ sinceAttempt = 0 /\ sinceSync = 0
  /\ clock \in {FALSE, Kept}
  /\ connected = FALSE
  /\ update = "idle" /\ sinceNow = 0 /\ online = FALSE /\ synced = FALSE
  /\ sntp = "off" /\ asked = 0 /\ telling = FALSE /\ supply \in Supplies
  /\ mesh = "idle" /\ presses = 0
  /\ sinceCall = Eldest /\ early = {}

\* now - moment on uint32_t, compared with an interval.
Elapsed(age, interval) == age < sinceNow \/ age - sinceNow >= interval

\* syncNtp: the client asks anew.
SyncNtp ==
  IF connected
    THEN sntp' = "asking" /\ asked' = 0 /\ sinceAttempt' = 0
    ELSE UNCHANGED <<sntp, asked, sinceAttempt>>

Begin ==
  /\ update = "idle" /\ update' = "looking" /\ sinceNow' = 0 /\ online' = connected
  /\ UNCHANGED <<auto, source, sinceSync, clock, connected, synced, client,
                 mesh, supply, presses, timeHistory>>

\* Mutant of UpdateBegins: a reconnection tries at once.
UpdateBeginsAnew ==
  /\ Begin
  /\ retry' = IF auto /\ connected /\ ~wasConnected THEN 0 ELSE retry
  /\ sinceAttempt' = IF auto /\ connected /\ ~wasConnected THEN Eldest ELSE sinceAttempt
  /\ wasConnected' = IF auto THEN connected ELSE wasConnected

\* update reads the time and the connection; a new connection starts the backoff
\* again.  With the synchronisation off nothing but the time view's call of
\* isSynced follows.
UpdateBegins ==
  /\ Begin
  /\ retry' = IF auto /\ connected /\ ~wasConnected THEN 0 ELSE retry
  /\ wasConnected' = IF auto THEN connected ELSE wasConnected
  /\ UNCHANGED sinceAttempt

\* isSynced reads the clock ...
ReadClock ==
  /\ update = "looking"
  /\ synced' = clock /\ update' = "judging"
  /\ UNCHANGED <<shared, clock, connected, sinceNow, online, client,
                 mesh, supply, presses, timeHistory>>

\* ... and corrects the source by what it read.
JudgeSource ==
  /\ update = "judging"
  /\ source' = IF ~synced THEN "None" ELSE IF source = "None" THEN "Local" ELSE source
  /\ update' = IF ~auto THEN "idle" ELSE IF synced THEN "refreshing" ELSE "retrying"
  /\ UNCHANGED <<auto, retry, wasConnected, sinceAttempt, sinceSync, clock, connected,
                 sinceNow, online, synced, client, mesh, supply, presses, timeHistory>>

\* Mutants of Interval: it doubles without end; it never grows.
IntervalEndless(n) == Base * 2^n
IntervalFlat(n) == Base

Interval(n) == IF n < Doublings THEN Base * 2^n ELSE MaxInterval

\* The two sorts of call of the provider by update; what is too early is noted.
Call(why) ==
  /\ sntp' = "asking" /\ asked' = 0 /\ sinceAttempt' = 0
  /\ sinceCall' = 0
  /\ LET due == IF why = "retry" THEN sinceCall >= Base ELSE sinceSync >= Refresh
     IN  early' = IF due THEN early ELSE early \cup {why}

\* The branch of the clock that is set.
RefreshSync ==
  /\ update = "refreshing" /\ update' = "idle"
  /\ IF Elapsed(sinceSync, Refresh) /\ online /\ connected
       THEN Call("refresh") ELSE UNCHANGED <<sntp, asked, sinceAttempt, timeHistory>>
  /\ UNCHANGED <<auto, retry, wasConnected, source, sinceSync, clock, connected,
                 sinceNow, online, synced, telling, mesh, supply, presses>>

Counted(n) == IF n < RetryCap THEN n + 1 ELSE n

\* The branch of the clock that is not, with the exponential backoff.
RetrySync ==
  /\ update = "retrying" /\ update' = "idle"
  /\ IF online /\ Elapsed(sinceAttempt, Interval(retry))
       THEN /\ retry' = Counted(retry)
            /\ IF connected THEN Call("retry")
               ELSE sinceAttempt' = sinceNow /\ UNCHANGED <<sntp, asked, timeHistory>>
       ELSE UNCHANGED <<retry, sntp, asked, sinceAttempt, timeHistory>>
  /\ UNCHANGED <<auto, wasConnected, source, sinceSync, clock, connected,
                 sinceNow, online, synced, telling, mesh, supply, presses>>

\* saveAndApply of the time view: setAutoSyncEnabled, then syncNtp when enabled.
\* The button that forces a synchronisation calls syncNtp again in any case.
SaveAndApply(enabled, force) ==
  /\ update = "idle" /\ presses < MaxPresses /\ presses' = presses + 1
  /\ auto' = enabled /\ retry' = 0
  /\ IF enabled \/ (force /\ connected) THEN SyncNtp
     ELSE sntp' = "off" /\ asked' = 0 /\ UNCHANGED sinceAttempt
  /\ UNCHANGED <<wasConnected, source, sinceSync, clock, connected, call, telling,
                 mesh, supply, timeHistory>>
-----------------------------------------------------------------------------
\* notifySynced.
NotifySynced(from) ==
  /\ source' = from /\ sinceSync' = 0 /\ retry' = 0
  /\ UNCHANGED <<auto, wasConnected, sinceAttempt>>

AnswerDue == "server" \in supply /\ connected /\ sntp = "asking" /\ asked = RoundTrip /\ ~telling

\* The answer of the server sets the clock.
Answer ==
  /\ AnswerDue
  /\ clock' = TRUE /\ sntp' = "waiting" /\ asked' = 0 /\ telling' = TRUE
  /\ UNCHANGED <<shared, connected, call, mesh, supply, presses, timeHistory>>

\* The callback of the P4's provider says so; the S3's provider has none.
Report ==
  /\ telling /\ telling' = FALSE
  /\ IF Provider = "espidf" THEN NotifySynced("SNTP") ELSE UNCHANGED shared
  /\ UNCHANGED <<clock, connected, call, sntp, asked, mesh, supply, presses, timeHistory>>

\* setEpoch with the time of a tower: the clock, then notifySynced.
SetEpoch ==
  /\ "tower" \in supply /\ mesh = "idle" /\ auto
  /\ clock' = TRUE /\ mesh' = "setting"
  /\ UNCHANGED <<shared, connected, call, client, supply, presses, timeHistory>>

SetEpochNotifies ==
  /\ mesh = "setting" /\ mesh' = "idle"
  /\ NotifySynced("Tower")
  /\ UNCHANGED <<clock, connected, call, client, supply, presses, timeHistory>>

Network ==
  /\ connected' = ~connected
  /\ UNCHANGED <<shared, clock, call, client, mesh, supply, presses, timeHistory>>

\* Time passes, though not beyond an answer that is due.
Tick ==
  /\ ~AnswerDue /\ (update # "idle" => sinceNow = 0)
  /\ sinceAttempt' = Older(sinceAttempt) /\ sinceSync' = Older(sinceSync)
  /\ sinceCall' = Older(sinceCall)
  /\ sinceNow' = IF update = "idle" THEN 0 ELSE 1
  /\ CASE sntp = "waiting" /\ asked = Poll -> sntp' = "asking" /\ asked' = 0
       [] sntp = "waiting" /\ asked < Poll -> asked' = asked + 1 /\ UNCHANGED sntp
       [] sntp = "asking" /\ asked < RoundTrip -> asked' = asked + 1 /\ UNCHANGED sntp
       [] OTHER -> UNCHANGED <<sntp, asked>>
  /\ UNCHANGED <<auto, retry, wasConnected, source, clock, connected, update, online,
                 synced, telling, mesh, supply, presses, early>>
-----------------------------------------------------------------------------
UpdateStep == UpdateBegins \/ ReadClock \/ JudgeSource \/ RefreshSync \/ RetrySync
View == \E enabled, force \in BOOLEAN : SaveAndApply(enabled, force)
SntpTask == Answer \/ Report

NextTime == UpdateStep \/ View \/ SntpTask \/ SetEpoch \/ SetEpochNotifies \/ Network \/ Tick

SpecTime == InitTime /\ [][NextTime]_timeVars

\* The LVGL loop calls update for ever, the other tasks finish what they began, and
\* time passes.
FairTime ==
  /\ SpecTime
  /\ WF_timeVars(UpdateStep) /\ WF_timeVars(SntpTask) /\ WF_timeVars(SetEpochNotifies) /\ WF_timeVars(Tick)
-----------------------------------------------------------------------------
(* Properties *)

\* Every variable has the type of the member it stands for.
TimeTypeOK ==
  /\ auto \in BOOLEAN /\ wasConnected \in BOOLEAN /\ clock \in BOOLEAN
  /\ connected \in BOOLEAN /\ supply \in Supplies /\ online \in BOOLEAN /\ synced \in BOOLEAN
  /\ retry \in 0..RetryCap /\ source \in {"None", "Local", "SNTP", "Tower"}
  /\ {sinceAttempt, sinceSync, sinceCall} \subseteq 0..Eldest /\ sinceNow \in {0, 1}
  /\ update \in {"idle", "looking", "judging", "refreshing", "retrying"}
  /\ sntp \in {"off", "asking", "waiting"}
  /\ asked \in 0..(IF sntp = "waiting" THEN Poll ELSE RoundTrip)
  /\ telling \in BOOLEAN /\ presses \in 0..MaxPresses
  /\ mesh \in {"idle", "setting"} /\ early \subseteq {"retry", "refresh"}

\* Two automatic attempts to set the clock are at least the base interval apart,
\* however often the network comes and goes, the settings change or the button is
\* pressed (the backoff of update).
RetriesSpaced == "retry" \notin early

\* Whenever there is a network to stay and the clock is not set, update asks the
\* server again and again, however long it has failed.
KeepsTrying ==
  []<>(~connected \/ ~auto \/ clock \/ sinceCall = 0)

\* With a network to stay and a server that answers the clock is set some time: an
\* attempt is not cut short by the next one.
EventuallySet == "server" \in supply /\ <>[](connected /\ auto) => <>clock

\* When the server has answered, the time manager hears of it:
\* core/include/cbdos/time.hpp:22.
AnswerReported == telling ~> (source = "SNTP")

\* TimeManager.cpp:145: a set clock is refreshed every three hours.
RefreshSucceeds == <>[](connected /\ auto) => []<>(sinceSync < Refresh)

\* TimeManager.cpp:145 again: and not before.
RefreshNotEarly == "refresh" \notin early

\* The source is the one the time was last taken from: after a report it is never
\* turned into None or Local (phase1_public_system_api_contract.md:65).
Reported == {"SNTP", "Tower"}
SourceKept == [][(source \in Reported) => (source' \in Reported)]_timeVars
=============================================================================
