------------------------- MODULE WavRecorderProofs --------------------------
(***************************************************************************)
(* The recorder, for any callers and any number of takes: a recording is   *)
(* never shown without a task, and as long as neither race of start was    *)
(* lost one task records at a time and headers tell the truth.             *)
(***************************************************************************)
EXTENDS WavRecorder, TLAPS

\* A caller between the mutex and its release.
Holding(c) == recPc[c] \in {"creating", "created", "testing"}

\* The task of take t has not yet taken back m_isRecording.
Live(t) == Records(t) \/ recTask[t] = "ending"

RecorderFlagsOK == recording \in BOOLEAN /\ recPaused \in BOOLEAN /\ recStop \in BOOLEAN /\ raced \in BOOLEAN

RecorderPlacesOK ==
  /\ recHandle \in Take \cup {NoTake} /\ recLock \in Recorders \cup {NoTake}
  /\ recPc \in [Recorders -> {"idle", "locking", "creating", "created", "testing", "stopping"}]
  /\ recTask \in [Take -> {"none", "begin", "loop", "finish", "ending", "clearing", "done"}]
  /\ closed \subseteq Take /\ short \subseteq Take /\ recTold \subseteq Take
  /\ recFile \in Take \cup {NoTake} /\ takes \in Nat /\ takes <= MaxTakes
  /\ \A c \in Recorders : Holding(c) <=> recLock = c
  /\ \A c \in Recorders : Holding(c) => takes \in Take

RecorderCountsOK ==
  /\ total \in Nat /\ total <= MaxLength
  /\ header \in [Take -> Nat] /\ data \in [Take -> Nat]
  /\ \A t \in Take : header[t] <= MaxLength /\ data[t] <= MaxLength
  /\ \A t \in Take : t > takes => data[t] = 0
  /\ recFile # NoTake => recFile <= takes /\ data[recFile] <= total

LEMMA RecorderLimits ==
  MaxTakes \in Nat /\ MaxLength \in Nat /\ NoTake \notin Recorders /\ NoTake \notin Take
BY RecorderAssumption DEF Take

\* What a call of the recorder and a step of a task do to the flags.
LEMMA RecorderFlagsStep == RecorderFlagsOK /\ [NextRecorder]_recorderVars => RecorderFlagsOK'
BY ZenonT(40) DEF RecorderFlagsOK, NextRecorder, RecCall, RecTaskStep, StartTest, StartLockedOut, StartNoFile,
  StartOpens, StartCreates, StartAssigns, StartSucceeds, StartFails, PauseOrResume, StopAsks,
  StopReturns, TaskBegins, TaskAppends, TaskStops, TaskFinishes, TaskEnds, TaskClears,
  recorderVars, recorder, recHistory

LEMMA RecorderPlacesStep ==
  ASSUME RecorderPlacesOK, [NextRecorder]_recorderVars
  PROVE  RecorderPlacesOK'
<1> USE RecorderLimits DEF RecorderPlacesOK, Holding, RecGoto, TaskGoto, recorder, recFiles,
      recHistory
<1>1. ASSUME NEW c \in Recorders, StartTest(c) \/ StartLockedOut(c) \/ StartNoFile(c)
      PROVE  RecorderPlacesOK'
  BY <1>1 DEF StartTest, StartLockedOut, StartNoFile
<1>2. ASSUME NEW c \in Recorders, StartOpens(c)
      PROVE  RecorderPlacesOK'
  <2>1. takes' \in Take /\ takes' <= MaxTakes /\ takes' \in Nat
    BY <1>2 DEF StartOpens, Take
  <2> QED BY <1>2, <2>1 DEF StartOpens
<1>3. ASSUME NEW c \in Recorders, StartCreates(c)
      PROVE  RecorderPlacesOK'
  BY <1>3 DEF StartCreates
<1>4. ASSUME NEW c \in Recorders, StartAssigns(c) \/ StartSucceeds(c) \/ StartFails(c)
      PROVE  RecorderPlacesOK'
  BY <1>4 DEF StartAssigns, StartSucceeds, StartFails
<1>5. ASSUME NEW c \in Recorders, PauseOrResume(c) \/ StopAsks(c) \/ StopReturns(c)
      PROVE  RecorderPlacesOK'
  BY <1>5 DEF PauseOrResume, StopAsks, StopReturns
<1>6. ASSUME NEW t \in Take, RecTaskStep(t)
      PROVE  RecorderPlacesOK'
  BY <1>6 DEF RecTaskStep, TaskBegins, TaskAppends, TaskStops, TaskFinishes, TaskEnds, TaskClears
<1>7. CASE UNCHANGED recorderVars
  BY <1>7 DEF recorderVars
<1> HIDE DEF RecorderPlacesOK
<1> QED
  BY <1>1, <1>2, <1>3, <1>4, <1>5, <1>6, <1>7 DEF NextRecorder, RecCall

LEMMA RecorderCountsStep ==
  ASSUME RecorderPlacesOK, RecorderCountsOK, [NextRecorder]_recorderVars
  PROVE  RecorderCountsOK'
<1> USE RecorderLimits DEF RecorderPlacesOK, RecorderCountsOK
<1>1. CASE UNCHANGED <<total, header, data, takes, recFile>>
  BY <1>1
<1>2. CASE UNCHANGED <<header, data, takes>> /\ recFile' = NoTake /\ total' \in {0, total}
  BY <1>2
<1>3. ASSUME NEW c \in Recorders, StartOpens(c)
      PROVE  RecorderCountsOK'
  <2>1. takes + 1 \in Take /\ data[takes + 1] = 0
    BY <1>3 DEF StartOpens, Take
  <2>2. /\ takes' = takes + 1 /\ recFile' = takes + 1 /\ total' = 0
        /\ UNCHANGED <<header, data>>
    BY <1>3 DEF StartOpens, recFiles
  <2>3. \A t \in Take : t > takes + 1 => t > takes
    BY DEF Take
  <2> QED BY <2>1, <2>2, <2>3
<1>4. ASSUME NEW c \in Recorders, RecCall(c), ~StartOpens(c)
      PROVE  RecorderCountsOK'
  BY <1>1, <1>2, <1>4 DEF RecCall, StartTest, StartLockedOut, StartNoFile, StartCreates,
    StartAssigns, StartSucceeds, StartFails, PauseOrResume, StopAsks, StopReturns, recorder, recFiles
<1>5. ASSUME NEW t \in Take, TaskAppends(t)
      PROVE  RecorderCountsOK'
  <2>1. /\ recFile \in Take /\ recFile <= takes
        /\ data[recFile] <= total /\ total < MaxLength
        /\ total' = total + 1 /\ UNCHANGED <<header, takes, recFile>>
    BY <1>5 DEF TaskAppends
  <2>2. CASE data' = data
    BY <2>1, <2>2
  <2>3. CASE data' = [data EXCEPT ![recFile] = @ + 1]
    <3>1. \A u \in Take : u > takes => u # recFile
      BY <2>1 DEF Take
    <3> QED BY <2>1, <2>3, <3>1
  <2> QED BY <1>5, <2>2, <2>3 DEF TaskAppends
<1>6. ASSUME NEW t \in Take, TaskFinishes(t)
      PROVE  RecorderCountsOK'
  BY <1>6 DEF TaskFinishes
<1>7. ASSUME NEW t \in Take, TaskBegins(t) \/ TaskStops(t) \/ TaskEnds(t) \/ TaskClears(t)
      PROVE  RecorderCountsOK'
  BY <1>1, <1>2, <1>7 DEF TaskBegins, TaskStops, TaskEnds, TaskClears, recorder, recFiles
<1>8. CASE UNCHANGED recorderVars
  BY <1>1, <1>8 DEF recorderVars, recorder, recFiles
<1> HIDE DEF RecorderPlacesOK, RecorderCountsOK
<1> QED
  BY <1>3, <1>4, <1>5, <1>6, <1>7, <1>8 DEF NextRecorder, RecTaskStep

LEMMA RecorderTypesSplit ==
  RecorderFlagsOK /\ RecorderPlacesOK /\ RecorderCountsOK => RecorderTypeOK
<1> SUFFICES ASSUME RecorderFlagsOK, RecorderPlacesOK, RecorderCountsOK PROVE RecorderTypeOK
  OBVIOUS
<1>1. total \in 0..MaxLength /\ takes \in 0..MaxTakes
  BY RecorderLimits DEF RecorderCountsOK, RecorderPlacesOK
<1>2. header \in [Take -> 0..MaxLength] /\ data \in [Take -> 0..MaxLength]
  BY RecorderLimits DEF RecorderCountsOK
<1> QED
  BY <1>1, <1>2 DEF RecorderFlagsOK, RecorderPlacesOK, RecorderTypeOK

\* The types, with the mutex: it is held by the callers between StartOpens and the end
\* of their start, and nobody else (WavRecorder::start).
LEMMA RecorderTypesInvariant ==
  SpecRecorder => [](RecorderFlagsOK /\ RecorderPlacesOK /\ RecorderCountsOK)
<1>1. InitRecorder => RecorderFlagsOK /\ RecorderPlacesOK /\ RecorderCountsOK
  <2> SUFFICES ASSUME InitRecorder PROVE RecorderFlagsOK /\ RecorderPlacesOK /\ RecorderCountsOK
    OBVIOUS
  <2> USE RecorderLimits DEF InitRecorder
  <2>1. RecorderFlagsOK
    BY DEF RecorderFlagsOK
  <2>2. RecorderPlacesOK
    BY DEF RecorderPlacesOK, Holding
  <2>3. RecorderCountsOK
    BY DEF RecorderCountsOK
  <2> QED BY <2>1, <2>2, <2>3
<1>2. RecorderFlagsOK /\ RecorderPlacesOK /\ RecorderCountsOK /\ [NextRecorder]_recorderVars
      => (RecorderFlagsOK /\ RecorderPlacesOK /\ RecorderCountsOK)'
  BY RecorderFlagsStep, RecorderPlacesStep, RecorderCountsStep
<1> QED BY <1>1, <1>2, PTL DEF SpecRecorder

\* Every variable of the recorder keeps its type: no header promises more than the
\* longest take, and no handle is one of a task that never was.
THEOREM RecorderTypes == SpecRecorder => []RecorderTypeOK
BY RecorderTypesInvariant, RecorderTypesSplit, PTL
-----------------------------------------------------------------------------
\* Why the state never sticks: while it shows a recording a task lives, or a call is
\* between the file and the task, or has just found that there is none.
BackedInv ==
  recording =>
    \/ \E t \in Take : Live(t)
    \/ \E c \in Recorders : recPc[c] = "creating"
    \/ \E c \in Recorders : recPc[c] = "testing" /\ recHandle = NoTake

LEMMA BackedStep ==
  ASSUME RecorderFlagsOK, RecorderPlacesOK, BackedInv, [NextRecorder]_recorderVars
  PROVE  BackedInv'
<1> USE RecorderLimits DEF BackedInv, RecorderPlacesOK, Holding, Live, Records, RecGoto,
      TaskGoto, recorder, recFiles, recHistory
<1>1. ASSUME NEW c \in Recorders, StartTest(c) \/ StartLockedOut(c) \/ StartNoFile(c)
      PROVE  BackedInv'
  BY <1>1 DEF StartTest, StartLockedOut, StartNoFile
<1>2. ASSUME NEW c \in Recorders, StartOpens(c)
      PROVE  BackedInv'
  BY <1>2 DEF StartOpens
<1>3. ASSUME NEW c \in Recorders, StartCreates(c)
      PROVE  BackedInv'
  BY <1>3 DEF StartCreates
<1>4. ASSUME NEW c \in Recorders, StartAssigns(c)
      PROVE  BackedInv'
  BY <1>4 DEF StartAssigns
<1>5. ASSUME NEW c \in Recorders, StartSucceeds(c)
      PROVE  BackedInv'
  BY <1>5 DEF StartSucceeds
<1>6. ASSUME NEW c \in Recorders, StartFails(c)
      PROVE  BackedInv'
  BY <1>6 DEF StartFails
<1>7. ASSUME NEW c \in Recorders, PauseOrResume(c) \/ StopAsks(c) \/ StopReturns(c)
      PROVE  BackedInv'
  BY <1>7 DEF PauseOrResume, StopAsks, StopReturns
<1>8. ASSUME NEW t \in Take, TaskBegins(t) \/ TaskAppends(t) \/ TaskStops(t) \/ TaskFinishes(t)
      PROVE  BackedInv'
  BY <1>8 DEF TaskBegins, TaskAppends, TaskStops, TaskFinishes
<1>9. ASSUME NEW t \in Take, TaskEnds(t)
      PROVE  BackedInv'
  BY <1>9 DEF TaskEnds
<1>10. ASSUME NEW t \in Take, TaskClears(t)
       PROVE  BackedInv'
  BY <1>10 DEF TaskClears
<1>11. CASE UNCHANGED recorderVars
  BY <1>11 DEF recorderVars
<1> HIDE DEF BackedInv
<1> QED
  BY <1>1, <1>2, <1>3, <1>4, <1>5, <1>6, <1>7, <1>8, <1>9, <1>10, <1>11
  DEF NextRecorder, RecCall, RecTaskStep

\* The recorder shows a recording only while a task records or a call is about to create
\* one, whichever starts race, fail or find no memory (WavRecorder::start, recordingTask).
THEOREM RecordingNeverSticks == SpecRecorder => []RecordingBacked
<1>1. InitRecorder => BackedInv
  BY DEF InitRecorder, BackedInv
<1>2. BackedInv => RecordingBacked
  BY DEF BackedInv, RecordingBacked, Live
<1> QED BY <1>1, <1>2, RecorderTypesInvariant, BackedStep, PTL DEF SpecRecorder
-----------------------------------------------------------------------------
\* As long as no race was lost, the task of the last take is the only one that can be
\* live, and the state shows a recording while it is, and from StartOpens on.
OneTakeInv ==
  ~raced =>
    /\ \A t \in Take : Live(t) => recording /\ t = takes
    /\ \A t \in Take : t > takes => recTask[t] = "none"
    /\ \A c \in Recorders : recPc[c] = "creating" => recording /\ recTask[takes] = "none"

LEMMA OneTakeStep ==
  ASSUME RecorderFlagsOK, RecorderPlacesOK, OneTakeInv, [NextRecorder]_recorderVars
  PROVE  OneTakeInv'
<1> USE RecorderLimits DEF OneTakeInv, RecorderPlacesOK, Holding, Live, Records, RecGoto,
      TaskGoto, recorder, recFiles, recHistory
<1>1. ASSUME NEW c \in Recorders, StartTest(c) \/ StartLockedOut(c) \/ StartNoFile(c)
      PROVE  OneTakeInv'
  <2>1. /\ \A d \in Recorders : recPc'[d] = "creating" => recPc[d] = "creating"
        /\ UNCHANGED <<recording, takes, recTask>>
    BY <1>1 DEF StartTest, StartLockedOut, StartNoFile
  <2>2. ~raced' => ~raced
    BY <1>1, Zenon DEF StartTest, StartLockedOut, StartNoFile, recHistory
  <2> QED BY <2>1, <2>2
<1>2. ASSUME NEW c \in Recorders, StartOpens(c)
      PROVE  OneTakeInv'
  <2>1. ~raced' => ~raced /\ ~recording
    BY <1>2, Zenon DEF StartOpens
  <2>2. /\ takes' = takes + 1 /\ recording' /\ recTask' = recTask
        /\ takes + 1 \in Take /\ takes + 1 > takes /\ \A t \in Take : t > takes + 1 => t > takes
    BY <1>2 DEF StartOpens, Take
  <2>3. \A d \in Recorders : recPc'[d] = "creating" => d = c \/ recPc[d] = "creating"
    BY <1>2 DEF StartOpens
  <2> HIDE DEF RecorderPlacesOK
  <2> QED BY <2>1, <2>2, <2>3
<1>3. ASSUME NEW c \in Recorders, StartCreates(c)
      PROVE  OneTakeInv'
  BY <1>3 DEF StartCreates
<1>4. ASSUME NEW c \in Recorders, StartAssigns(c) \/ StartSucceeds(c)
      PROVE  OneTakeInv'
  BY <1>4 DEF StartAssigns, StartSucceeds
<1>5. ASSUME NEW c \in Recorders, StartFails(c)
      PROVE  OneTakeInv'
  BY <1>5 DEF StartFails
<1>6. ASSUME NEW c \in Recorders, PauseOrResume(c) \/ StopAsks(c) \/ StopReturns(c)
      PROVE  OneTakeInv'
  BY <1>6 DEF PauseOrResume, StopAsks, StopReturns
<1>7. ASSUME NEW t \in Take, TaskBegins(t) \/ TaskAppends(t) \/ TaskStops(t) \/ TaskFinishes(t)
      PROVE  OneTakeInv'
  BY <1>7 DEF TaskBegins, TaskAppends, TaskStops, TaskFinishes
<1>8. ASSUME NEW t \in Take, TaskEnds(t)
      PROVE  OneTakeInv'
  BY <1>8 DEF TaskEnds
<1>9. ASSUME NEW t \in Take, TaskClears(t)
      PROVE  OneTakeInv'
  BY <1>9 DEF TaskClears
<1>10. CASE UNCHANGED recorderVars
  BY <1>10 DEF recorderVars
<1> HIDE DEF OneTakeInv
<1> QED
  BY <1>1, <1>2, <1>3, <1>4, <1>5, <1>6, <1>7, <1>8, <1>9, <1>10
  DEF NextRecorder, RecCall, RecTaskStep

\* Two tasks record at once only after a race of start was lost: two calls that both
\* passed the test, or a handle cleared by the end of an earlier task.
THEOREM OneTakeAtATime == SpecRecorder => []OneTake
<1>1. InitRecorder => OneTakeInv
  BY DEF InitRecorder, OneTakeInv, Live, Records
<1>2. OneTakeInv => OneTake
  BY DEF OneTakeInv, OneTake, Live
<1> QED BY <1>1, <1>2, RecorderTypesInvariant, OneTakeStep, PTL DEF SpecRecorder
-----------------------------------------------------------------------------
\* As long as no race was lost, the open file is that of the last take, not closed yet,
\* and the count of bytes is what is in it, unless the card was full.
HeaderInv ==
  ~raced =>
    /\ \A t \in Take : t > takes => t \notin closed /\ t \notin short
    /\ recFile # NoTake =>
         /\ recFile = takes /\ recFile \notin closed
         /\ recFile \notin short => data[recFile] = total
    /\ \A t \in closed \ short : header[t] = data[t]

LEMMA HeaderStep ==
  ASSUME RecorderFlagsOK, RecorderPlacesOK, RecorderCountsOK, HeaderInv, [NextRecorder]_recorderVars
  PROVE  HeaderInv'
<1> USE RecorderLimits DEF HeaderInv, RecorderPlacesOK, RecorderCountsOK
<1>1. CASE /\ raced' \in BOOLEAN /\ (raced => raced') /\ recFile' \in {recFile, NoTake}
           /\ recFile' # NoTake => total' = total
           /\ UNCHANGED <<takes, recFiles>>
  BY <1>1 DEF recFiles
<1>2. ASSUME NEW c \in Recorders, StartOpens(c)
      PROVE  HeaderInv'
  <2>1. /\ takes' = takes + 1 /\ recFile' = takes + 1 /\ total' = 0 /\ (raced => raced')
        /\ UNCHANGED <<header, data, closed, short>>
    BY <1>2 DEF StartOpens, recFiles
  <2>2. /\ takes + 1 \in Take /\ takes + 1 > takes
        /\ \A t \in Take : t > takes + 1 => t > takes
    BY <1>2 DEF StartOpens, Take
  <2> QED BY <2>1, <2>2
<1>3. ASSUME NEW c \in Recorders, RecCall(c), ~StartOpens(c)
      PROVE  HeaderInv'
  <2> HIDE DEF HeaderInv, RecorderPlacesOK, RecorderCountsOK
  <2>1. CASE StartNoFile(c) \/ StartFails(c)
    <3>1. raced' \in BOOLEAN /\ (raced => raced')
      BY <2>1, Zenon DEF StartNoFile, StartFails, RecorderFlagsOK
    <3>2. recFile' = NoTake /\ UNCHANGED <<takes, recFiles>>
      BY <2>1 DEF StartNoFile, StartFails
    <3> QED BY <1>1, <3>1, <3>2
  <2>2. CASE ~StartNoFile(c) /\ ~StartFails(c)
    <3>1. raced' = raced /\ recFile' = recFile /\ total' = total /\ UNCHANGED <<takes, recFiles>>
      BY <1>3, <2>2 DEF RecCall, StartTest, StartLockedOut, StartCreates, StartAssigns,
        StartSucceeds, PauseOrResume, StopAsks, StopReturns, recorder, recHistory
    <3>2. raced' \in BOOLEAN /\ (raced => raced')
      BY <3>1, Zenon DEF RecorderFlagsOK
    <3> QED BY <1>1, <3>1, <3>2
  <2> QED BY <2>1, <2>2
<1>4. ASSUME NEW t \in Take, TaskAppends(t)
      PROVE  HeaderInv'
  BY <1>4 DEF TaskAppends, recHistory
<1>5. ASSUME NEW t \in Take, TaskFinishes(t)
      PROVE  HeaderInv'
  BY <1>5 DEF TaskFinishes, recHistory
<1>6. ASSUME NEW t \in Take, TaskBegins(t) \/ TaskStops(t) \/ TaskEnds(t) \/ TaskClears(t)
      PROVE  HeaderInv'
  BY <1>1, <1>6
    DEF TaskBegins, TaskStops, TaskEnds, TaskClears, RecorderFlagsOK, recorder, recHistory
<1>7. CASE UNCHANGED recorderVars
  BY <1>1, <1>7 DEF recorderVars, RecorderFlagsOK, recorder, recHistory
<1> HIDE DEF HeaderInv
<1> QED
  BY <1>2, <1>3, <1>4, <1>5, <1>6, <1>7 DEF NextRecorder, RecTaskStep

\* The header of a closed file says how much sound is in it, unless the card was full or
\* a race of start was lost (runRecording).
THEOREM HeadersTellTheTruth == SpecRecorder => []HeaderFaithful
<1>1. InitRecorder => HeaderInv
  BY DEF InitRecorder, HeaderInv
<1>2. HeaderInv => HeaderFaithful
  BY DEF HeaderInv, HeaderFaithful
<1> QED BY <1>1, <1>2, RecorderTypesInvariant, HeaderStep, PTL DEF SpecRecorder
=============================================================================
