---------------------------- MODULE WavRecorder -----------------------------
(***************************************************************************)
(* The recorder (core/src/audio/WavRecorder.cpp).  start tests             *)
(* m_isRecording, takes the mutex, opens the file with a header of length  *)
(* 0 and creates a task that appends what the microphone gives until       *)
(* m_stopRequested, writes the length into the header and closes the file. *)
(* The recorder view calls from the LVGL task, scripts from the Lua task.  *)
(*                                                                         *)
(* The t-th file opened is take t; its task has that number.  Lengths are  *)
(* counted in chunks.                                                      *)
(***************************************************************************)
EXTENDS Naturals

CONSTANTS
  Recorders,   \* the tasks that call the recorder
  MaxTakes,    \* bound: the files opened
  MaxLength,   \* bound: the chunks of one take
  NoTake       \* no caller, no task, no file

ASSUME RecorderAssumption ==
  /\ MaxTakes \in Nat /\ MaxLength \in Nat
  /\ NoTake \notin Recorders /\ NoTake \notin Nat

VARIABLES
  recording,  \* m_isRecording
  recPaused,  \* m_isPaused
  recStop,    \* m_stopRequested
  recHandle,  \* m_taskHandle
  recFile,    \* m_file
  total,      \* m_totalDataBytesWritten
  recLock,    \* the holder of m_mutex
  recPc,      \* where each caller is in start or stop
  takes,      \* the number of files opened so far
  recTask,    \* where the task of each take is
  header,     \* the length in the header of each file
  data,       \* the chunks in each file
  closed,     \* history: the takes whose file its task closed
  short,      \* history: the takes of which a full card kept only a part
  recTold,    \* history: the tasks that were running when stop was called
  raced       \* history: one of the two races of start was lost

recorder == <<recording, recPaused, recStop, recHandle, recFile, total, recLock>>
recFiles == <<header, data, closed, short>>
recHistory == <<recTold, raced>>
recorderVars == <<recorder, recPc, takes, recTask, recFiles, recHistory>>

Take == 1..MaxTakes
\* The task of take t still uses the members of the recorder.
Records(t) == recTask[t] \in {"begin", "loop", "finish"}
RecGoto(c, where) == recPc' = [recPc EXCEPT ![c] = where]
TaskGoto(t, where) == recTask' = [recTask EXCEPT ![t] = where]
-----------------------------------------------------------------------------
InitRecorder ==
  /\ recording = FALSE /\ recPaused = FALSE /\ recStop = FALSE
  /\ recHandle = NoTake /\ recFile = NoTake /\ total = 0 /\ recLock = NoTake
  /\ recPc = [c \in Recorders |-> "idle"] /\ takes = 0
  /\ recTask = [t \in Take |-> "none"]
  /\ header = [t \in Take |-> 0] /\ data = [t \in Take |-> 0]
  /\ closed = {} /\ short = {} /\ recTold = {} /\ raced = FALSE

\* start refuses while it records; the test is before the mutex.
StartTest(c) ==
  /\ recPc[c] = "idle" /\ ~recording
  /\ RecGoto(c, "locking")
  /\ UNCHANGED <<recorder, takes, recTask, recFiles, recHistory>>

\* The mutex is not to be had for a second.
StartLockedOut(c) ==
  /\ recPc[c] = "locking" /\ recLock # NoTake
  /\ RecGoto(c, "idle")
  /\ UNCHANGED <<recorder, takes, recTask, recFiles, recHistory>>

\* No file, or no header in it: the fields are reset all the same.
StartNoFile(c) ==
  /\ recPc[c] = "locking" /\ recLock = NoTake
  /\ RecGoto(c, "idle")
  /\ recPaused' = FALSE /\ recStop' = FALSE /\ total' = 0 /\ recFile' = NoTake
  /\ raced' = (raced \/ recording)
  /\ UNCHANGED <<recording, recHandle, recLock, takes, recTask, recFiles, recTold>>

\* Mutant of StartOpens: the count of bytes goes on from the take before.
StartKeepsTotal(c) ==
  /\ recPc[c] = "locking" /\ recLock = NoTake /\ takes < MaxTakes
  /\ RecGoto(c, "creating")
  /\ recLock' = c /\ takes' = takes + 1 /\ recFile' = takes + 1
  /\ recPaused' = FALSE /\ recStop' = FALSE /\ recording' = TRUE
  /\ raced' = (raced \/ recording)
  /\ UNCHANGED <<total, recHandle, recTask, recFiles, recTold>>

StartOpens(c) ==
  /\ recPc[c] = "locking" /\ recLock = NoTake /\ takes < MaxTakes
  /\ RecGoto(c, "creating")
  /\ recLock' = c /\ takes' = takes + 1 /\ recFile' = takes + 1
  /\ recPaused' = FALSE /\ recStop' = FALSE /\ total' = 0 /\ recording' = TRUE
  /\ raced' = (raced \/ recording)
  /\ UNCHANGED <<recHandle, recTask, recFiles, recTold>>

\* The task may run before m_taskHandle is assigned; there may be no memory for it.
StartCreates(c) ==
  /\ recPc[c] = "creating"
  /\ \/ TaskGoto(takes, "begin") /\ RecGoto(c, "created") /\ UNCHANGED recHandle
     \/ recHandle' = NoTake /\ RecGoto(c, "testing") /\ UNCHANGED recTask
  /\ UNCHANGED <<recording, recPaused, recStop, recFile, total, recLock, takes, recFiles,
                 recHistory>>

StartAssigns(c) ==
  /\ recPc[c] = "created"
  /\ recHandle' = takes /\ RecGoto(c, "testing")
  /\ UNCHANGED <<recording, recPaused, recStop, recFile, total, recLock, takes, recTask,
                 recFiles, recHistory>>

StartSucceeds(c) ==
  /\ recPc[c] = "testing" /\ recHandle # NoTake
  /\ recLock' = NoTake /\ RecGoto(c, "idle")
  /\ UNCHANGED <<recording, recPaused, recStop, recHandle, recFile, total, takes, recTask,
                 recFiles, recHistory>>

\* Mutant of StartFails: the recorder stays recording.
StartFailsRecording(c) ==
  /\ recPc[c] = "testing" /\ recHandle = NoTake
  /\ recLock' = NoTake /\ RecGoto(c, "idle")
  /\ recFile' = NoTake
  /\ raced' = (raced \/ recTask[takes] # "none")
  /\ UNCHANGED <<recording, recPaused, recStop, recHandle, total, takes, recTask, recFiles,
                 recTold>>

\* The handle is null: no task was created, or the end of the task of an earlier
\* take (or of this one) has just cleared it.
StartFails(c) ==
  /\ recPc[c] = "testing" /\ recHandle = NoTake
  /\ recLock' = NoTake /\ RecGoto(c, "idle")
  /\ recFile' = NoTake /\ recording' = FALSE
  /\ raced' = (raced \/ recTask[takes] # "none")
  /\ UNCHANGED <<recPaused, recStop, recHandle, total, takes, recTask, recFiles, recTold>>

PauseOrResume(c) ==
  /\ recPc[c] = "idle" /\ recPaused' \in BOOLEAN
  /\ UNCHANGED <<recording, recStop, recHandle, recFile, total, recLock, recPc, takes,
                 recTask, recFiles, recHistory>>

StopAsks(c) ==
  /\ recPc[c] = "idle" /\ recording
  /\ recStop' = TRUE /\ recTold' = recTold \cup {t \in Take : Records(t)}
  /\ RecGoto(c, "stopping")
  /\ UNCHANGED <<recording, recPaused, recHandle, recFile, total, recLock, takes, recTask,
                 recFiles, raced>>

\* Mutant of StopReturns: stop declares the recorder idle, as that of the player does.
StopReturnsIdle(c) ==
  /\ recPc[c] = "stopping"
  /\ RecGoto(c, "idle") /\ recording' = FALSE
  /\ UNCHANGED <<recPaused, recStop, recHandle, recFile, total, recLock, takes, recTask,
                 recFiles, recHistory>>

\* The wait ends with the recording, or after a second: a card may stall longer.
StopReturns(c) ==
  /\ recPc[c] = "stopping"
  /\ RecGoto(c, "idle")
  /\ UNCHANGED <<recorder, takes, recTask, recFiles, recHistory>>
-----------------------------------------------------------------------------
\* The task has its buffer, or no memory: then it closes the file as it is.
TaskBegins(t) ==
  /\ recTask[t] = "begin"
  /\ \/ TaskGoto(t, "loop") /\ UNCHANGED recFile
     \/ TaskGoto(t, "ending") /\ recFile' = NoTake
  /\ UNCHANGED <<recording, recPaused, recStop, recHandle, total, recLock, recPc, takes,
                 recFiles, recHistory>>

\* One turn of the loop that reads sound.  What fwrite wrote is not looked at.
TaskAppends(t) ==
  /\ recTask[t] = "loop" /\ ~recStop /\ ~recPaused
  /\ recFile # NoTake /\ total < MaxLength
  /\ total' = total + 1
  /\ \/ data' = [data EXCEPT ![recFile] = @ + 1] /\ UNCHANGED short
     \/ short' = short \cup {recFile} /\ UNCHANGED data
  /\ UNCHANGED <<recording, recPaused, recStop, recHandle, recFile, recLock, recPc, takes,
                 recTask, header, closed, recHistory>>

\* Mutant of TaskStops: the request is not looked at during a pause.
TaskStopsUnpaused(t) ==
  /\ recTask[t] = "loop" /\ recStop /\ ~recPaused
  /\ TaskGoto(t, "finish")
  /\ UNCHANGED <<recorder, recPc, takes, recFiles, recHistory>>

TaskStops(t) ==
  /\ recTask[t] = "loop" /\ recStop
  /\ TaskGoto(t, "finish")
  /\ UNCHANGED <<recorder, recPc, takes, recFiles, recHistory>>

TaskFinishes(t) ==
  /\ recTask[t] = "finish"
  /\ TaskGoto(t, "ending")
  /\ IF recFile = NoTake THEN UNCHANGED <<recFile, header, closed>>
     ELSE /\ header' = [header EXCEPT ![recFile] = total]
          /\ closed' = closed \cup {recFile} /\ recFile' = NoTake
  /\ UNCHANGED <<recording, recPaused, recStop, recHandle, total, recLock, recPc, takes, data,
                 short, recHistory>>

\* recordingTask clears m_isRecording, and m_taskHandle in a second step.
TaskEnds(t) ==
  /\ recTask[t] = "ending"
  /\ TaskGoto(t, "clearing") /\ recording' = FALSE
  /\ UNCHANGED <<recPaused, recStop, recHandle, recFile, total, recLock, recPc, takes,
                 recFiles, recHistory>>

TaskClears(t) ==
  /\ recTask[t] = "clearing"
  /\ TaskGoto(t, "done") /\ recHandle' = NoTake
  /\ UNCHANGED <<recording, recPaused, recStop, recFile, total, recLock, recPc, takes,
                 recFiles, recHistory>>

RecCall(c) ==
  \/ StartTest(c) \/ StartLockedOut(c) \/ StartNoFile(c) \/ StartOpens(c) \/ StartCreates(c)
  \/ StartAssigns(c) \/ StartSucceeds(c) \/ StartFails(c) \/ PauseOrResume(c)
  \/ StopAsks(c) \/ StopReturns(c)

RecTaskStep(t) ==
  TaskBegins(t) \/ TaskAppends(t) \/ TaskStops(t) \/ TaskFinishes(t) \/ TaskEnds(t) \/ TaskClears(t)

NextRecorder ==
  \/ \E c \in Recorders : RecCall(c)
  \/ \E t \in Take : RecTaskStep(t)

SpecRecorder == InitRecorder /\ [][NextRecorder]_recorderVars

\* The scheduler runs a task that can go on.
FairRecorder == SpecRecorder /\ \A t \in Take : WF_recorderVars(RecTaskStep(t))
-----------------------------------------------------------------------------
(* Properties *)

\* Every variable has the type of the member it stands for.
RecorderTypeOK ==
  /\ recording \in BOOLEAN /\ recPaused \in BOOLEAN /\ recStop \in BOOLEAN
  /\ recHandle \in Take \cup {NoTake} /\ recFile \in Take \cup {NoTake}
  /\ total \in 0..MaxLength /\ recLock \in Recorders \cup {NoTake}
  /\ recPc \in [Recorders -> {"idle", "locking", "creating", "created", "testing", "stopping"}]
  /\ takes \in 0..MaxTakes
  /\ recTask \in [Take -> {"none", "begin", "loop", "finish", "ending", "clearing", "done"}]
  /\ header \in [Take -> 0..MaxLength] /\ data \in [Take -> 0..MaxLength]
  /\ closed \subseteq Take /\ short \subseteq Take /\ recTold \subseteq Take /\ raced \in BOOLEAN

\* The recorder shows a recording only while a task records or a call is about to
\* create one: the state can never stick (start and recordingTask).
RecordingBacked ==
  recording =>
    \/ \E t \in Take : Records(t) \/ recTask[t] = "ending"
    \/ \E c \in Recorders : recPc[c] \in {"creating", "testing"}

\* Two tasks record at once only when two starts passed the test together, or when
\* the end of an earlier task cleared the handle of a new one under its start.
OneTake == ~raced => \A s, t \in Take : Records(s) /\ Records(t) => s = t

\* The header of a file that its task closed says how much sound is in it, unless
\* the card was full or one of those races was lost.
HeaderFaithful == ~raced => \A t \in closed \ short : header[t] = data[t]

\* Paused or not, a task that stop has asked to end does so; no later start takes
\* the request back before it is heard, but for those races.
RecordingStops == \A t \in Take : t \in recTold ~> recTask[t] = "done" \/ raced
=============================================================================
