------------------------- MODULE AudioPlayerProofs --------------------------
(***************************************************************************)
(* Theorems about AudioPlayer: its types and its mutex for any number of   *)
(* callers, and, for one caller that plays files, that stop is enough to   *)
(* have one decoder at a time, on its own FILE.                            *)
(***************************************************************************)
EXTENDS AudioPlayer, TLAPS

\* A call past the mutex is a play, which has a number.
CallInv ==
  \A c \in Caller :
    /\ then[c] \in Kinds \cup {"stop"}
    /\ playPc[c] \in {"locking", "creating", "created"} => then[c] # "stop"
    /\ playPc[c] \in {"creating", "created"} => plays \in Play

TypeInv == PlayerTypeOK /\ CallInv
-----------------------------------------------------------------------------
LEMMA InitTypes == InitPlayer => TypeInv
<1> SUFFICES ASSUME InitPlayer PROVE TypeInv
  OBVIOUS
<1>1. plays \in 0..MaxPlays /\ \A c \in Caller : lock # c
  BY AudioAssumption DEF InitPlayer
<1> QED BY <1>1 DEF InitPlayer, TypeInv, PlayerTypeOK, CallInv

LEMMA CallTypes ==
  ASSUME TypeInv, NEW c \in Caller, CallStep(c)
  PROVE  TypeInv'
<1> USE DEF TypeInv, PlayerTypeOK, CallInv
<1>1. CASE StopWaited(c) BY <1>1 DEF StopWaited, player, decoders
<1>2. CASE StopClears(c) BY <1>2, AudioAssumption DEF StopClears, decoders
<1>3. CASE GiveUp(c) BY <1>3 DEF GiveUp, player, decoders
<1>4. CASE Prepare(c)
  <2>1. plays + 1 \in Play /\ plays' \in 0..MaxPlays
    BY <1>4, AudioAssumption DEF Prepare, Play
  <2> QED BY <1>4, <2>1, AudioAssumption, ZenonT(40) DEF Prepare
<1>5. CASE CreateTask(c) BY <1>5 DEF CreateTask, player
<1>6. CASE CreateFailed(c) BY <1>6, AudioAssumption DEF CreateFailed, decoders
<1>7. CASE KeepHandle(c) BY <1>7, AudioAssumption DEF KeepHandle, decoders
<1> QED BY <1>1, <1>2, <1>3, <1>4, <1>5, <1>6, <1>7 DEF CallStep

LEMMA OtherTypes ==
  ASSUME TypeInv, NEW c \in Caller,
         Control(c) \/ \E k \in Kinds \cup {"stop"} : StopBegin(c, k)
  PROVE  TypeInv'
<1> USE DEF TypeInv, PlayerTypeOK, CallInv
<1>1. CASE Control(c) BY <1>1 DEF Control, callers, decoders
<1>2. ASSUME NEW k \in Kinds \cup {"stop"}, StopBegin(c, k) PROVE TypeInv'
  BY <1>2, AudioAssumption, ZenonT(40) DEF StopBegin
<1> QED BY <1>1, <1>2

LEMMA TaskTypes ==
  ASSUME TypeInv, NEW t \in Play, PlayTaskStep(t)
  PROVE  TypeInv'
<1> USE DEF TypeInv, PlayerTypeOK, CallInv, callers
<1>1. CASE Connect(t) BY <1>1 DEF Connect, Goto, player
<1>2. CASE StreamTurn(t) BY <1>2 DEF StreamTurn, Goto, player
<1>3. CASE Recv(t) BY <1>3 DEF Recv, Goto, player
<1>4. CASE FileTurn(t) BY <1>4 DEF FileTurn, Goto
<1>5. CASE Close(t) BY <1>5 DEF Close, Goto
<1>6. CASE EndPlaying(t) BY <1>6 DEF EndPlaying, Goto
<1>7. CASE EndPaused(t) BY <1>7 DEF EndPaused, Goto
<1>8. CASE EndHandle(t) BY <1>8 DEF EndHandle, Goto
<1>9. CASE EndTask(t) BY <1>9 DEF EndTask, Goto, player
<1> QED BY <1>1, <1>2, <1>3, <1>4, <1>5, <1>6, <1>7, <1>8, <1>9 DEF PlayTaskStep

LEMMA TypeStep == TypeInv /\ [NextPlayer]_playerVars => TypeInv'
<1> SUFFICES ASSUME TypeInv, [NextPlayer]_playerVars PROVE TypeInv'
  OBVIOUS
<1>1. ASSUME NEW c \in Caller, CallStep(c) PROVE TypeInv' BY <1>1, CallTypes
<1>2. ASSUME NEW c \in Caller, Control(c) \/ \E k \in Kinds \cup {"stop"} : StopBegin(c, k)
      PROVE  TypeInv'
  BY <1>2, OtherTypes
<1>3. ASSUME NEW t \in Play, PlayTaskStep(t) PROVE TypeInv' BY <1>3, TaskTypes
<1>4. CASE UNCHANGED playerVars
  BY <1>4 DEF playerVars, player, callers, decoders, TypeInv, PlayerTypeOK, CallInv
<1> QED BY <1>1, <1>2, <1>3, <1>4 DEF NextPlayer

\* Every variable keeps its type and the mutex has one holder, the caller between
\* Prepare and the end of its call, for any number of callers and plays of both
\* kinds.
THEOREM PlayerTypes == SpecPlayer => []PlayerTypeOK
<1>1. InitPlayer => TypeInv BY InitTypes
<1>2. TypeInv /\ [NextPlayer]_playerVars => TypeInv' BY TypeStep
<1>3. TypeInv => PlayerTypeOK BY DEF TypeInv
<1> QED BY <1>1, <1>2, <1>3, PTL DEF SpecPlayer
-----------------------------------------------------------------------------
(* One caller that plays files *)

\* Of the plays that did not go astray only the last one runs, between the two ends
\* of its call and the end of the next stop, and the player plays as long as it does
\* and has its handle: a stop that finds the player idle, or no task that could end in
\* time, has none to wait for.
TaskInv(c) ==
  /\ \A t \in Play : kind[t] = "file" /\ task[t] \notin {"connect", "recv"}
  /\ \A t \in Play : task[t] # "none" => t <= plays /\ (playPc[c] = "creating" => t # plays)
  /\ \A t \in Play : Running(t) /\ t \notin astray =>
       /\ t = plays /\ playing /\ playPc[c] \in {"idle", "waiting", "created"}
       /\ playPc[c] # "created" => handle = t
  /\ playPc[c] = "waiting" => stopReq

\* m_file is the FILE of that task, and of the play whose task is to be created,
\* unless a task gone astray has closed it.
FileInv(c) ==
  /\ \A t \in Play : task[t] \in {"loop", "closing"} /\ t \notin astray => file \in {t, NoPlay}
  /\ playPc[c] = "creating" => file \in {plays, NoPlay}
  /\ \A t \in open : t \notin unstarted /\ t \notin astray =>
       t = plays /\ file = t /\ (playPc[c] = "creating" \/ task[t] \in {"loop", "closing"})

\* The player plays with a task, on the way to one, or in want of one.
PlayingInv(c) ==
  /\ playPc[c] = "locking" => ~playing
  /\ playPc[c] = "creating" => playing \/ plays \in astray
  /\ playPc[c] \in {"idle", "waiting", "clearing", "created"} /\ playing =>
       (\E t \in Play : Running(t)) \/ plays \in unstarted

SoloInv(c) == TypeInv /\ TaskInv(c) /\ FileInv(c) /\ PlayingInv(c)

LEMMA SoloInit ==
  ASSUME NEW c, Caller = {c}, InitPlayer
  PROVE  SoloInv(c)
<1>1. TypeInv BY InitTypes
<1>2. TaskInv(c) /\ FileInv(c) /\ PlayingInv(c)
  BY DEF InitPlayer, TaskInv, FileInv, PlayingInv, Running
<1> QED BY <1>1, <1>2 DEF SoloInv

LEMMA SoloStop ==
  ASSUME NEW c, Caller = {c}, Kinds = {"file"}, SoloInv(c),
         \/ \E k \in Kinds \cup {"stop"} : StopBegin(c, k)
         \/ StopWaited(c) \/ StopClears(c) \/ GiveUp(c) \/ Control(c)
  PROVE  TaskInv(c)' /\ FileInv(c)' /\ PlayingInv(c)'
<1> USE DEF SoloInv, TypeInv, PlayerTypeOK, TaskInv, FileInv, PlayingInv, Running, decoders
<1>1. ASSUME NEW k \in Kinds \cup {"stop"}, StopBegin(c, k)
      PROVE  TaskInv(c)' /\ FileInv(c)' /\ PlayingInv(c)'
  <2>1. \A t \in Play : t # NoPlay BY AudioAssumption DEF Play
  <2> QED BY <1>1, <2>1 DEF StopBegin
<1>2. CASE StopWaited(c)
  <2>1. \A t \in Play : Running(t) => t \in astray
    BY <1>2 DEF StopWaited, Timely, Alive, OnNetwork
  <2>2. playPc' = [playPc EXCEPT ![c] = "clearing"] BY <1>2 DEF StopWaited
  <2>3. UNCHANGED <<player, plays, kind, unstarted, decoders>> BY <1>2 DEF StopWaited
  <2>4. TaskInv(c)' BY <2>1, <2>2, <2>3 DEF player
  <2>5. FileInv(c)'
    <3>1. playPc[c] = "waiting" /\ playPc'[c] = "clearing" BY <1>2, <2>2 DEF StopWaited
    <3> QED BY <2>3, <3>1 DEF player
  <2>6. PlayingInv(c)'
    <3>1. playPc[c] = "waiting" /\ playPc'[c] = "clearing" BY <1>2, <2>2 DEF StopWaited
    <3>2. playing => (\E t \in Play : Running(t)) \/ plays \in unstarted BY <3>1
    <3> QED BY <2>3, <3>1, <3>2 DEF player
  <2> QED BY <2>4, <2>5, <2>6
<1>3. CASE StopClears(c) BY <1>3 DEF StopClears
<1>4. CASE GiveUp(c) BY <1>4 DEF GiveUp, player
<1>5. CASE Control(c) BY <1>5 DEF Control, callers
<1> QED BY <1>1, <1>2, <1>3, <1>4, <1>5

LEMMA SoloPlay ==
  ASSUME NEW c, Caller = {c}, Kinds = {"file"}, SoloInv(c),
         Prepare(c) \/ CreateTask(c) \/ CreateFailed(c) \/ KeepHandle(c)
  PROVE  TaskInv(c)' /\ FileInv(c)' /\ PlayingInv(c)'
<1> USE DEF SoloInv, TypeInv, PlayerTypeOK, CallInv, TaskInv, FileInv, PlayingInv, Running
<1>1. CASE Prepare(c)
  <2>1. then[c] = "file" /\ \A t \in Play : Running(t) => t \in astray BY <1>1 DEF Prepare
  <2>2. plays + 1 \in Play /\ plays' = plays + 1 /\ \A t \in Play : t # NoPlay /\ t \in Nat
    BY <1>1, AudioAssumption DEF Prepare, Play
  <2>3. /\ playPc' = [playPc EXCEPT ![c] = "creating"] /\ playing' = TRUE /\ file' = plays'
        /\ kind' = [kind EXCEPT ![plays + 1] = "file"] /\ open' = open \cup {plays + 1}
        /\ UNCHANGED <<task, astray, unstarted>>
    BY <1>1, <2>1, <2>2 DEF Prepare
  <2>4. TaskInv(c)' BY <2>1, <2>2, <2>3
  <2>5. FileInv(c)'
    <3>1. \A t \in open : t \in unstarted \/ t \in astray BY <1>1 DEF Prepare
    <3>2. \A t \in Play : task[t] \in {"loop", "closing"} => t \in astray BY <2>1
    <3> HIDE DEF SoloInv, TypeInv, PlayerTypeOK, CallInv, TaskInv, PlayingInv, Running
    <3>3. \A t \in Play : task'[t] \in {"loop", "closing"} => t \in astray' BY <2>3, <3>2
    <3>4. file' = plays' /\ playPc'[c] = "creating" BY <2>3 DEF SoloInv, TypeInv, PlayerTypeOK
    <3>5. \A t \in open' : t \notin unstarted' /\ t \notin astray' => t = plays' BY <2>2, <2>3, <3>1
    <3> QED BY <3>3, <3>4, <3>5
  <2>6. PlayingInv(c)' BY <2>3
  <2> QED BY <2>4, <2>5, <2>6
<1>2. CASE CreateTask(c)
  <2>1. plays \in Play /\ kind[plays] = "file" /\ file \in {plays, NoPlay}
        /\ \A t \in Play : Running(t) => t \in astray
    BY <1>2 DEF CreateTask
  <2>2. task' = [task EXCEPT ![plays] = "loop"] /\ playPc'[c] = "created"
        /\ UNCHANGED <<player, plays, kind, astray, open, unstarted>>
    BY <1>2, <2>1 DEF CreateTask
  <2>3. playing \/ plays \in astray BY <1>2 DEF CreateTask
  <2>4. TaskInv(c)' BY <2>1, <2>2, <2>3 DEF player
  <2>5. FileInv(c)'
    <3>1. \A t \in open : t \notin unstarted /\ t \notin astray => t = plays /\ file = t BY <1>2
    <3>2. task'[plays] = "loop" BY <2>1, <2>2
    <3>3. \A t \in Play : task'[t] \in {"loop", "closing"} /\ t \notin astray => t = plays
      BY <2>1, <2>2
    <3> HIDE DEF SoloInv, TypeInv, PlayerTypeOK, CallInv, TaskInv, PlayingInv, Running
    <3> QED BY <2>1, <2>2, <3>1, <3>2, <3>3 DEF player
  <2>6. PlayingInv(c)' BY <2>1, <2>2
  <2> QED BY <2>4, <2>5, <2>6
<1>3. CASE CreateFailed(c)
  <2>1. \A t \in Play : Running(t) => t \in astray BY <1>3 DEF CreateFailed
  <2>2. TaskInv(c)' BY <1>3, <2>1 DEF CreateFailed, decoders
  <2>3. FileInv(c)'
    <3>1. \A t \in open : t \in unstarted \/ t \in astray \/ t = plays BY <1>3
    <3>2. open' = open /\ unstarted' = unstarted \cup {plays} /\ UNCHANGED <<astray, file, task>>
      BY <1>3 DEF CreateFailed, decoders
    <3>3. playPc'[c] = "idle" BY <1>3 DEF CreateFailed
    <3>4. \A t \in open : t \in unstarted' \/ t \in astray' BY <3>1, <3>2
    <3>5. \A t \in Play : task'[t] \in {"loop", "closing"} => t \in astray' BY <2>1, <3>2
    <3> HIDE DEF SoloInv, TypeInv, PlayerTypeOK, CallInv, TaskInv, PlayingInv, Running
    <3> QED BY <3>2, <3>3, <3>4, <3>5
  <2>4. PlayingInv(c)' BY <1>3 DEF CreateFailed, decoders
  <2> QED BY <2>2, <2>3, <2>4
<1>4. CASE KeepHandle(c)
  <2>1. plays # NoPlay BY <1>4, AudioAssumption DEF KeepHandle, Play
  <2> QED BY <1>4, <2>1 DEF KeepHandle, decoders
<1> QED BY <1>1, <1>2, <1>3, <1>4

\* The task that clears m_isPlaying is the last play's or leads the last play astray.
LEMMA SoloEnd ==
  ASSUME NEW c, Caller = {c}, SoloInv(c), NEW t \in Play, EndPlaying(t) \/ EndHandle(t)
  PROVE  TaskInv(c)' /\ FileInv(c)' /\ PlayingInv(c)'
<1> USE DEF SoloInv, TypeInv, PlayerTypeOK, TaskInv, FileInv, PlayingInv, Running, callers, Goto
<1>1. astray \subseteq astray'
  BY DEF EndPlaying, EndHandle
<1>2. CASE EndPlaying(t)
  <2>1. \A s \in Play : Running(s)' => Running(s) /\ s # t BY <1>2 DEF EndPlaying
  <2>2. \A s \in Play : Running(s)' => s \in astray'
    <3>1. SUFFICES ASSUME NEW s \in Play, Running(s)', s \notin astray' PROVE FALSE
      OBVIOUS
    <3>2. s = plays /\ s # t /\ task[s] # "done" BY <1>1, <2>1, <3>1
    <3>3. t <= plays BY <1>2 DEF EndPlaying
    <3> QED BY <1>2, <3>1, <3>2, <3>3 DEF EndPlaying, Play
  <2>3. TaskInv(c)' BY <1>2, <2>2 DEF EndPlaying
  <2>4. FileInv(c)' BY <1>1, <1>2 DEF EndPlaying
  <2>5. PlayingInv(c)'
    <3>1. ASSUME playPc[c] = "creating" PROVE plays \in astray'
      <4>1. plays \in Play /\ task[plays] # "done" /\ t # plays /\ t <= plays
        BY <1>2, <3>1 DEF EndPlaying, CallInv, Play
      <4> QED BY <1>2, <4>1 DEF EndPlaying, Play
    <3> QED BY <1>2, <3>1 DEF EndPlaying
  <2> QED BY <2>3, <2>4, <2>5
<1>3. CASE EndHandle(t)
  <2>1. \A s \in Play : Running(s)' => Running(s) /\ s # t BY <1>3 DEF EndHandle
  <2>2. ASSUME NEW s \in Play, Running(s)', s \notin astray' PROVE playPc[c] = "created"
    <3>1. s = plays /\ (playPc[c] # "created" => handle = s) /\ s # t BY <1>1, <2>1, <2>2
    <3>2. t <= plays BY <1>3 DEF EndHandle
    <3> QED BY <1>3, <2>2, <3>1, <3>2 DEF EndHandle, Play
  <2>3. TaskInv(c)' BY <1>1, <1>3, <2>1, <2>2 DEF EndHandle
  <2>4. FileInv(c)' BY <1>1, <1>3 DEF EndHandle
  <2>5. PlayingInv(c)' BY <1>3 DEF EndHandle
  <2> QED BY <2>3, <2>4, <2>5
<1> QED BY <1>2, <1>3

LEMMA SoloTask ==
  ASSUME NEW c, Caller = {c}, SoloInv(c), NEW t \in Play, PlayTaskStep(t)
  PROVE  TaskInv(c)' /\ FileInv(c)' /\ PlayingInv(c)'
<1> USE DEF SoloInv, TypeInv, PlayerTypeOK, TaskInv, FileInv, PlayingInv, Running, callers, Goto
<1>1. CASE Connect(t) BY <1>1 DEF Connect
<1>2. CASE StreamTurn(t) BY <1>2 DEF StreamTurn
<1>3. CASE Recv(t) BY <1>3 DEF Recv
<1>4. CASE FileTurn(t) BY <1>4 DEF FileTurn
<1>5. CASE Close(t) BY <1>5 DEF Close
<1>6. CASE EndPlaying(t) \/ EndHandle(t) BY <1>6, SoloEnd
<1>7. CASE EndPaused(t) BY <1>7 DEF EndPaused
<1>8. CASE EndTask(t) BY <1>8 DEF EndTask, player
<1> QED BY <1>1, <1>2, <1>3, <1>4, <1>5, <1>6, <1>7, <1>8 DEF PlayTaskStep

LEMMA SoloStep ==
  ASSUME NEW c, Caller = {c}, Kinds = {"file"}
  PROVE  SoloInv(c) /\ [NextPlayer]_playerVars => SoloInv(c)'
<1> SUFFICES ASSUME SoloInv(c), [NextPlayer]_playerVars PROVE SoloInv(c)'
  OBVIOUS
<1>1. TypeInv' BY TypeStep DEF SoloInv
<1>2. TaskInv(c)' /\ FileInv(c)' /\ PlayingInv(c)'
  <2>1. CASE CallStep(c) BY <2>1, SoloStop, SoloPlay DEF CallStep
  <2>2. CASE Control(c) \/ \E k \in Kinds \cup {"stop"} : StopBegin(c, k) BY <2>2, SoloStop
  <2>3. ASSUME NEW t \in Play, PlayTaskStep(t) PROVE TaskInv(c)' /\ FileInv(c)' /\ PlayingInv(c)'
    BY <2>3, SoloTask
  <2>4. CASE UNCHANGED playerVars
    BY <2>4 DEF playerVars, player, callers, decoders, SoloInv, TaskInv, FileInv, PlayingInv,
      Running
  <2> QED BY <2>1, <2>2, <2>3, <2>4 DEF NextPlayer
<1> QED BY <1>1, <1>2 DEF SoloInv

\* The inductive invariant of one caller that plays files, however many and
\* whether or not their decoders can be created.
THEOREM SoloIsCorrect ==
  ASSUME NEW CONSTANT c, Caller = {c}, Kinds = {"file"}
  PROVE  SpecPlayer => []SoloInv(c)
<1>1. InitPlayer => SoloInv(c) BY SoloInit
<1>2. SoloInv(c) /\ [NextPlayer]_playerVars => SoloInv(c)' BY SoloStep
<1> QED BY <1>1, <1>2, PTL DEF SpecPlayer

\* One decoder at a time, unless the late end of an earlier task took the handle of
\* a play that still runs (stop and play of AudioPlayer.cpp).
THEOREM SoloOneTask ==
  ASSUME NEW CONSTANT c, Caller = {c}, Kinds = {"file"}
  PROVE  SpecPlayer => []OneTask
<1>1. SoloInv(c) => OneTask
  <2> SUFFICES ASSUME SoloInv(c), NEW s \in Play, NEW t \in Play, Running(s), Running(t), s < t
               PROVE  s \in astray
    BY DEF OneTask
  <2>1. t <= plays BY DEF SoloInv, TaskInv, Running
  <2>2. s # plays BY <2>1 DEF SoloInv, TypeInv, PlayerTypeOK, Play
  <2> QED BY <2>2 DEF SoloInv, TaskInv
<1> QED BY <1>1, SoloIsCorrect, PTL

\* A decoder only reads and closes its own FILE, with that exception (runPlayback).
THEOREM SoloOwnFile ==
  ASSUME NEW CONSTANT c, Caller = {c}, Kinds = {"file"}
  PROVE  SpecPlayer => []OwnFile
<1>1. SoloInv(c) => OwnFile BY DEF SoloInv, FileInv, OwnFile
<1> QED BY <1>1, SoloIsCorrect, PTL

\* No FILE stays open but those of plays that got no task or went astray (play,
\* runPlayback).
THEOREM SoloFilesClosed ==
  ASSUME NEW CONSTANT c, Caller = {c}, Kinds = {"file"}
  PROVE  SpecPlayer => []FilesClosed
<1>1. SoloInv(c) => FilesClosed
  BY DEF SoloInv, TypeInv, PlayerTypeOK, FileInv, FilesClosed, Alive
<1> QED BY <1>1, SoloIsCorrect, PTL

\* isPlaying tells the truth of every play that did not go astray when no call is on
\* its way.
THEOREM SoloPlayingFaithful ==
  ASSUME NEW CONSTANT c, Caller = {c}, Kinds = {"file"}
  PROVE  SpecPlayer => []PlayingFaithful
<1>1. SoloInv(c) => PlayingFaithful
  BY DEF SoloInv, TypeInv, PlayerTypeOK, TaskInv, PlayingInv, PlayingFaithful
<1> QED BY <1>1, SoloIsCorrect, PTL
=============================================================================
