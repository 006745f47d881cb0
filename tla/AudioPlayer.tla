---------------------------- MODULE AudioPlayer -----------------------------
(***************************************************************************)
(* The audio player (core/src/audio/AudioPlayer.cpp).  play and playStream *)
(* stop what is playing, set the player's fields under a mutex and create  *)
(* a task that decodes until m_stopRequested is set or the source ends.    *)
(* stop only asks, waits 600 ms at most and then declares the player idle. *)
(* The views call from the LVGL task, scripts from the Lua task.           *)
(*                                                                         *)
(* The p-th call that gets as far as the mutex is play p; its task and its *)
(* FILE have that number.                                                  *)
(***************************************************************************)
EXTENDS Naturals, FiniteSets

CONSTANTS
  Caller,      \* the tasks that call the player
  Kinds,       \* what they play: a subset of {"file", "stream"}
  MaxPlays,    \* bound: the plays
  TaskFails,   \* whether createTask may find no memory
  NoPlay       \* no caller, no task, no file

ASSUME AudioAssumption ==
  /\ Kinds \subseteq {"file", "stream"} /\ MaxPlays \in Nat
  /\ TaskFails \in BOOLEAN
  /\ NoPlay \notin Caller /\ NoPlay \notin Nat

VARIABLES
  playing,   \* m_isPlaying
  paused,    \* m_isPaused
  stopReq,   \* m_stopRequested
  seekReq,   \* m_seekRequestSec is not -1
  handle,    \* m_taskHandle
  file,      \* m_file
  lock,      \* the holder of m_mutex
  playPc,    \* where each caller is in stop, play or playStream
  then,      \* what each caller does after its stop: "stop" is nothing
  plays,     \* the number of plays so far
  kind,      \* the kind of each play
  task,      \* where the task of each play is
  open,      \* the FILEs that are open
  told,      \* history: the tasks that were running when stop was called
  astray,    \* history: the plays whose m_isPlaying or m_taskHandle the end of an
             \* earlier task took away
  unstarted  \* history: the plays whose task was not created

player == <<playing, paused, stopReq, seekReq, handle, file, lock>>
callers == <<playPc, then, plays, kind, unstarted>>
decoders == <<task, open, told, astray>>
playerVars == <<player, callers, decoders>>

Play == 1..MaxPlays
Alive(t) == task[t] \notin {"none", "done"}
\* On its way to the first of its last assignments, which stop waits for.
Running(t) == task[t] \in {"connect", "loop", "recv", "closing", "ending", "failed"}
\* In a call of the socket, which may last 5 s (recv) or 6 s (connect).
OnNetwork(t) == task[t] \in {"connect", "recv"}
-----------------------------------------------------------------------------
InitPlayer ==
  /\ playing = FALSE /\ paused = FALSE /\ stopReq = FALSE /\ seekReq = FALSE
  /\ handle = NoPlay /\ file = NoPlay /\ lock = NoPlay
  /\ playPc = [c \in Caller |-> "idle"] /\ then = [c \in Caller |-> "stop"]
  /\ plays = 0 /\ kind = [t \in Play |-> "file"]
  /\ task = [t \in Play |-> "none"] /\ open = {}
  /\ told = {} /\ astray = {} /\ unstarted = {}

\* stop, called for itself or by play and playStream.
StopBegin(c, next) ==
  /\ playPc[c] = "idle"
  /\ stopReq' = TRUE /\ paused' = FALSE
  /\ told' = told \cup {t \in Play : Alive(t)}
  /\ then' = [then EXCEPT ![c] = next]
  /\ playPc' = [playPc EXCEPT ![c] = IF handle # NoPlay THEN "waiting" ELSE "clearing"]
  /\ UNCHANGED <<playing, seekReq, handle, file, lock, plays, kind, unstarted,
                 task, open, astray>>

\* A task that sees the request and is not in a call of the socket ends within
\* the 600 ms.
Timely == stopReq /\ \E t \in Play : Alive(t) /\ ~OnNetwork(t)

\* Mutant of StopWaited: stop does not wait.
StopNoWait(c) ==
  /\ playPc[c] = "waiting"
  /\ playPc' = [playPc EXCEPT ![c] = "clearing"]
  /\ UNCHANGED <<player, then, plays, kind, unstarted, decoders>>

StopWaited(c) ==
  /\ playPc[c] = "waiting" /\ (~playing \/ ~Timely)
  /\ playPc' = [playPc EXCEPT ![c] = "clearing"]
  /\ UNCHANGED <<player, then, plays, kind, unstarted, decoders>>

StopClears(c) ==
  /\ playPc[c] = "clearing"
  /\ playing' = FALSE
  /\ playPc' = [playPc EXCEPT ![c] = IF then[c] = "stop" THEN "idle" ELSE "locking"]
  /\ UNCHANGED <<paused, stopReq, seekReq, handle, file, lock, then, plays, kind, unstarted,
                 decoders>>

\* play and playStream fail: the mutex is held for 500 ms by another caller, or
\* there is no such file (or the bound MaxPlays is reached).
GiveUp(c) ==
  /\ playPc[c] = "locking" /\ (lock # NoPlay \/ then[c] = "file" \/ plays = MaxPlays)
  /\ playPc' = [playPc EXCEPT ![c] = "idle"]
  /\ UNCHANGED <<player, then, plays, kind, unstarted, decoders>>

\* play: the mutex is taken, the file opened, the fields set.  playStream forgets
\* m_file instead.
Prepare(c) ==
  /\ playPc[c] = "locking" /\ lock = NoPlay /\ plays < MaxPlays
  /\ lock' = c /\ plays' = plays + 1
  /\ kind' = [kind EXCEPT ![plays + 1] = then[c]]
  /\ IF then[c] = "file"
       THEN file' = plays + 1 /\ open' = open \cup {plays + 1}
       ELSE file' = NoPlay /\ open' = open
  /\ playing' = TRUE /\ paused' = FALSE /\ stopReq' = FALSE /\ seekReq' = FALSE
  /\ playPc' = [playPc EXCEPT ![c] = "creating"]
  /\ UNCHANGED <<handle, then, unstarted, task, told, astray>>

\* The task may run before the caller has its handle.
CreateTask(c) ==
  /\ playPc[c] = "creating"
  /\ task' = [task EXCEPT ![plays] = IF kind[plays] = "stream" THEN "connect" ELSE "loop"]
  /\ playPc' = [playPc EXCEPT ![c] = "created"]
  /\ UNCHANGED <<player, then, plays, kind, unstarted, open, told, astray>>

\* Mutant of CreateFailed: the mutex is kept on the way out.
CreateFailedLocked(c) ==
  /\ TaskFails /\ playPc[c] = "creating"
  /\ handle' = NoPlay /\ lock' = lock
  /\ unstarted' = unstarted \cup {plays}
  /\ playPc' = [playPc EXCEPT ![c] = "idle"]
  /\ UNCHANGED <<playing, paused, stopReq, seekReq, file, then, plays, kind, decoders>>

\* createTask returns null; play returns true all the same.
CreateFailed(c) ==
  /\ TaskFails /\ playPc[c] = "creating"
  /\ handle' = NoPlay /\ lock' = NoPlay
  /\ unstarted' = unstarted \cup {plays}
  /\ playPc' = [playPc EXCEPT ![c] = "idle"]
  /\ UNCHANGED <<playing, paused, stopReq, seekReq, file, then, plays, kind, decoders>>

KeepHandle(c) ==
  /\ playPc[c] = "created"
  /\ handle' = plays /\ lock' = NoPlay
  /\ playPc' = [playPc EXCEPT ![c] = "idle"]
  /\ UNCHANGED <<playing, paused, stopReq, seekReq, file, then, plays, kind, unstarted, decoders>>

\* pause, resume and seek only set a field.
Control(c) ==
  /\ playPc[c] = "idle"
  /\ \/ paused' \in BOOLEAN /\ UNCHANGED seekReq
     \/ seekReq' = TRUE /\ UNCHANGED paused
  /\ UNCHANGED <<playing, stopReq, handle, file, lock, callers, decoders>>
-----------------------------------------------------------------------------
Goto(t, where) == task' = [task EXCEPT ![t] = where]

\* The connection, with its redirects, comes about, or the task is at its end.
Connect(t) ==
  /\ task[t] = "connect"
  /\ \/ ~stopReq /\ Goto(t, "loop")
     \/ Goto(t, "failed")
  /\ UNCHANGED <<player, callers, open, told, astray>>

\* Mutant of StreamTurn: the request is not looked at.
StreamTurnDeaf(t) ==
  /\ task[t] = "loop" /\ kind[t] = "stream"
  /\ ~paused /\ Goto(t, "recv")
  /\ UNCHANGED <<player, callers, open, told, astray>>

\* The loop of runStreamPlayback and the recv in it.
StreamTurn(t) ==
  /\ task[t] = "loop" /\ kind[t] = "stream"
  /\ IF stopReq THEN Goto(t, "ending") ELSE ~paused /\ Goto(t, "recv")
  /\ UNCHANGED <<player, callers, open, told, astray>>

Recv(t) ==
  /\ task[t] = "recv"
  /\ Goto(t, "loop") \/ Goto(t, "ending")
  /\ UNCHANGED <<player, callers, open, told, astray>>

\* Mutant of FileTurn: the loop looks at the request only when it has data left.
FileTurnDeaf(t) ==
  /\ task[t] = "loop" /\ kind[t] = "file"
  /\ ~paused /\ seekReq' = FALSE /\ UNCHANGED task
  /\ UNCHANGED <<playing, paused, stopReq, handle, file, lock, callers, open, told, astray>>

\* The loops of runMp3Playback and runWavPlayback: a turn consumes a seek and
\* reads from m_file, or finds its end.
FileTurn(t) ==
  /\ task[t] = "loop" /\ kind[t] = "file"
  /\ IF stopReq \/ file = NoPlay THEN Goto(t, "closing") /\ UNCHANGED seekReq
     ELSE ~paused /\ seekReq' = FALSE /\ (Goto(t, "closing") \/ UNCHANGED task)
  /\ UNCHANGED <<playing, paused, stopReq, handle, file, lock, callers, open, told, astray>>

\* runPlayback closes whatever m_file is.
Close(t) ==
  /\ task[t] = "closing" /\ Goto(t, "ending")
  /\ open' = open \ {file} /\ file' = NoPlay
  /\ UNCHANGED <<playing, paused, stopReq, seekReq, handle, lock, callers, told, astray>>

\* Mutant of EndPlaying: the player is left playing.
EndStillPlaying(t) ==
  /\ task[t] \in {"ending", "failed"}
  /\ Goto(t, IF task[t] = "ending" THEN "unpausing" ELSE "forgetting")
  /\ UNCHANGED <<player, callers, open, told, astray>>

\* The last assignments of a task, without the mutex: other tasks run between them,
\* and a stop that waits for the first may be followed by a play before the last.
EndPlaying(t) ==
  /\ task[t] \in {"ending", "failed"}
  /\ Goto(t, IF task[t] = "ending" THEN "unpausing" ELSE "forgetting")
  /\ playing' = FALSE
  /\ astray' = astray \cup {s \in Play : t < s /\ s <= plays /\ task[s] # "done"}
  /\ UNCHANGED <<paused, stopReq, seekReq, handle, file, lock, callers, open, told>>

EndPaused(t) ==
  /\ task[t] = "unpausing" /\ Goto(t, "forgetting")
  /\ paused' = FALSE
  /\ UNCHANGED <<playing, stopReq, seekReq, handle, file, lock, callers, open, told, astray>>

EndHandle(t) ==
  /\ task[t] = "forgetting" /\ Goto(t, "deleting")
  /\ handle' = NoPlay
  /\ astray' = astray \cup {s \in Play : t < s /\ s = handle}
  /\ UNCHANGED <<playing, paused, stopReq, seekReq, file, lock, callers, open, told>>

EndTask(t) ==
  /\ task[t] = "deleting" /\ Goto(t, "done")
  /\ UNCHANGED <<player, callers, open, told, astray>>

CallStep(c) ==
  \/ StopWaited(c) \/ StopClears(c) \/ GiveUp(c) \/ Prepare(c)
  \/ CreateTask(c) \/ CreateFailed(c) \/ KeepHandle(c)

PlayTaskStep(t) ==
  \/ Connect(t) \/ StreamTurn(t) \/ Recv(t) \/ FileTurn(t) \/ Close(t)
  \/ EndPlaying(t) \/ EndPaused(t) \/ EndHandle(t) \/ EndTask(t)

NextPlayer ==
  \/ \E c \in Caller : CallStep(c) \/ Control(c) \/ \E k \in Kinds \cup {"stop"} : StopBegin(c, k)
  \/ \E t \in Play : PlayTaskStep(t)

SpecPlayer == InitPlayer /\ [][NextPlayer]_playerVars

\* The scheduler runs every task and every caller that can go on.
FairPlayer ==
  /\ SpecPlayer
  /\ \A c \in Caller : WF_playerVars(CallStep(c))
  /\ \A t \in Play : WF_playerVars(PlayTaskStep(t))
-----------------------------------------------------------------------------
(* Properties *)

\* Every variable has the type of the member it stands for, and the mutex is held
\* by the caller between Prepare and the end of its call.
PlayerTypeOK ==
  /\ \A c \in Caller : playPc[c] \in {"creating", "created"} <=> lock = c
  /\ playing \in BOOLEAN /\ paused \in BOOLEAN /\ stopReq \in BOOLEAN /\ seekReq \in BOOLEAN
  /\ handle \in Play \cup {NoPlay} /\ file \in Play \cup {NoPlay} /\ lock \in Caller \cup {NoPlay}
  /\ playPc \in [Caller -> {"idle", "waiting", "clearing", "locking", "creating", "created"}]
  /\ then \in [Caller -> {"stop", "file", "stream"}]
  /\ plays \in 0..MaxPlays /\ kind \in [Play -> {"file", "stream"}]
  /\ task \in [Play -> {"none", "connect", "loop", "recv", "closing", "ending", "failed",
                      "unpausing", "forgetting", "deleting", "done"}]
  /\ open \subseteq Play /\ told \subseteq Play /\ astray \subseteq Play /\ unstarted \subseteq Play

\* One track at a time: stop does not return, and no new task starts, while the
\* task of an earlier play still decodes (stop and play of AudioPlayer.cpp), unless
\* the end of a task before it took m_isPlaying or m_taskHandle from that play: then
\* stop has nothing to wait for.
OneTask == \A s, t \in Play : Running(s) /\ Running(t) /\ s < t => s \in astray

\* A task only reads, and only closes, the FILE it was started for, with the same
\* exception.
OwnFile ==
  \A t \in Play : task[t] \in {"loop", "closing"} /\ kind[t] = "file" =>
    file \in {t, NoPlay} \/ t \in astray

\* When nothing is going on, no FILE is open but those of plays that got no task or
\* went astray.
FilesClosed ==
  (\A c \in Caller : playPc[c] = "idle") /\ (\A t \in Play : ~Alive(t)) =>
    open \subseteq unstarted \cup astray

\* What the views show is true: the player plays when a task is running, but for a
\* play gone astray, and no call is on its way; it plays without one only if the last
\* task was not created.
PlayingFaithful ==
  (\A c \in Caller : playPc[c] = "idle") =>
    /\ (\E t \in Play : Running(t) /\ t \notin astray) => playing
    /\ playing => (\E t \in Play : Running(t)) \/ plays \in unstarted

\* A stop that no play follows ends every task there is, those of earlier plays
\* that a stop gave up waiting for among them.
QuietAfterStop == <>[]stopReq => <>[](\A t \in Play : ~Alive(t))

\* docs/api/luapp_specification.md:95: stop stops the current track.
StopSilences == \A t \in Play : t \in told ~> task[t] = "done"

\* A caller that plays files alone has this of stop and play, but for the plays
\* whose handle the late end of an earlier task took: a task that was running when
\* stop was called ends.
StopSilencesFiles == \A t \in Play : t \in told ~> task[t] = "done" \/ t \in astray
=============================================================================
