------------------------------ MODULE SshShell ------------------------------
(***************************************************************************)
(* The remote terminal: SshStreamAdapter (core/src/terminal) on the SSH    *)
(* client of the P4 (hal_ssh_p4.cpp).  The terminal connects, opens a      *)
(* shell, whose reader task appends what arrives to a FIFO, and closes it; *)
(* meanwhile a script may execute single commands on the same session.     *)
(* What waits for the server has no time-out: the model lets it take       *)
(* forever, with whatever it holds.                                        *)
(*                                                                         *)
(* The k-th session, its channel and its reader have the number k; a       *)
(* received block is the number of the channel it came from.               *)
(***************************************************************************)
EXTENDS Naturals, Sequences

CONSTANTS
  MaxSessions,  \* bound: the sessions
  MaxBlocks,    \* bound: the blocks a server sends on each channel
  MaxExecs,     \* bound: the commands a script executes
  FifoSize      \* MAX_FIFO_SIZE, in blocks

ASSUME SshAssumption ==
  MaxSessions \in Nat /\ MaxBlocks \in Nat /\ MaxExecs \in Nat /\ FifoSize \in Nat \ {0}

VARIABLES
  session,      \* m_session with its m_socket; 0: none
  connected,    \* m_connected
  shellChannel, \* m_shellChannel; 0: null
  blocking,     \* the mode of the session
  stopShell,    \* m_stopShell
  shellHandle,  \* m_shellTaskHandle; 0: null
  onData,       \* m_onData is set
  sshMutex,     \* the holder of m_sessionMutex between steps; 0: nobody
  fifo,         \* m_rxFifo
  todo,         \* what the terminal still has to do in its call
  closing,      \* where it is in a step of the call
  script,       \* where a script is in execute
  reader,       \* where each reader is
  held,         \* the block each reader has read
  sessions,     \* the number of sessions so far
  server,       \* per channel: the blocks sent, those not read yet, still there?
  execs         \* the commands a script has begun

sshClient ==
  <<session, connected, shellChannel, blocking, stopShell, shellHandle, onData, sshMutex>>
terminal == <<todo, closing>>
readers == <<reader, held>>
commands == <<script, execs>>
sshVars == <<sshClient, terminal, fifo, readers, sessions, server, commands>>

Shell == 1..MaxSessions
Script == MaxSessions + 1   \* the script, and the LVGL task, as holders of the mutex
Lvgl == MaxSessions + 2
Reading(r) == reader[r] \notin {"none", "end", "done"}
-----------------------------------------------------------------------------
InitSsh ==
  /\ session = 0 /\ connected = FALSE /\ shellChannel = 0 /\ blocking = TRUE
  /\ stopShell = FALSE /\ shellHandle = 0 /\ onData = FALSE /\ sshMutex = 0
  /\ fifo = <<>> /\ todo = <<>> /\ closing = "ask"
  /\ reader = [r \in Shell |-> "none"] /\ held = [r \in Shell |-> 0]
  /\ sessions = 0 /\ script = "idle" /\ execs = 0
  /\ server = [k \in Shell |-> [sent |-> 0, unread |-> 0, up |-> TRUE]]

\* disconnect is closeShell and the end of the session; close of the adapter does
\* closeShell before it, if it is connected, and empties the FIFO.
Disconnect == <<"shell", "free">>
CloseAdapter ==
  IF connected /\ session # 0 THEN <<"shell">> \o Disconnect \o <<"clear">> ELSE <<"clear">>

UserCloses ==
  /\ todo = <<>> /\ todo' = CloseAdapter
  /\ UNCHANGED <<sshClient, closing, fifo, readers, sessions, server, commands>>

UserConnects ==
  /\ todo = <<>> /\ sessions < MaxSessions
  /\ todo' = CloseAdapter \o Disconnect \o <<"login", "shell", "open">>
  /\ UNCHANGED <<sshClient, closing, fifo, readers, sessions, server, commands>>

Doing(what) == todo # <<>> /\ Head(todo) = what
At(what, where) == Doing(what) /\ closing = where
NextStep == todo' = Tail(todo) /\ closing' = "ask"

\* Mutant of CloseAsks: the request to stop is forgotten.
CloseAsksNot ==
  /\ At("shell", "ask")
  /\ closing' = IF shellHandle = 0 THEN "locking" ELSE "waiting"
  /\ UNCHANGED <<sshClient, todo, fifo, readers, sessions, server, commands>>

CloseAsks ==
  /\ At("shell", "ask")
  /\ stopShell' = TRUE
  /\ closing' = IF shellHandle = 0 THEN "locking" ELSE "waiting"
  /\ UNCHANGED <<session, connected, shellChannel, blocking, shellHandle, onData, sshMutex,
                 todo, fifo, readers, sessions, server, commands>>

\* In 60 ms a reader that can go on sees the request: its select lasts 40 ms.
InTime ==
  /\ stopShell
  /\ \E r \in Shell : \/ reader[r] \in {"test", "got", "select", "end"}
                      \/ reader[r] = "read" /\ sshMutex = 0

CloseWaited ==
  /\ At("shell", "waiting") /\ ~InTime
  /\ closing' = "locking"
  /\ UNCHANGED <<sshClient, todo, fifo, readers, sessions, server, commands>>

\* The rest of closeShell, under the mutex: without a channel it is done, else it waits
\* for the server to close it.
CloseLocks ==
  /\ At("shell", "locking") /\ sshMutex = 0
  /\ IF shellChannel = 0
       THEN onData' = FALSE /\ NextStep /\ UNCHANGED <<blocking, sshMutex>>
       ELSE /\ blocking' = TRUE /\ sshMutex' = Lvgl /\ closing' = "network"
            /\ UNCHANGED <<onData, todo>>
  /\ UNCHANGED <<session, connected, shellChannel, stopShell, shellHandle, fifo, readers,
                 sessions, server, commands>>

CloseFrees ==
  /\ At("shell", "network")
  /\ shellChannel' = 0 /\ onData' = FALSE /\ sshMutex' = 0 /\ NextStep
  /\ UNCHANGED <<session, connected, blocking, stopShell, shellHandle, fifo, readers, sessions,
                 server, commands>>

\* The rest of disconnect: it takes the flag back before it has the mutex.
FreeAsks ==
  /\ At("free", "ask")
  /\ connected' = FALSE /\ closing' = "locking"
  /\ UNCHANGED <<session, shellChannel, blocking, stopShell, shellHandle, onData, sshMutex,
                 todo, fifo, readers, sessions, server, commands>>

FreeLocks ==
  /\ At("free", "locking") /\ sshMutex = 0
  /\ IF session = 0 THEN NextStep /\ UNCHANGED sshMutex
                    ELSE sshMutex' = Lvgl /\ closing' = "network" /\ UNCHANGED todo
  /\ UNCHANGED <<session, connected, shellChannel, blocking, stopShell, shellHandle, onData,
                 fifo, readers, sessions, server, commands>>

FreeSession ==
  /\ At("free", "network")
  /\ session' = 0 /\ sshMutex' = 0 /\ NextStep
  /\ UNCHANGED <<connected, shellChannel, blocking, stopShell, shellHandle, onData,
                 fifo, readers, sessions, server, commands>>

\* Mutant of ClearFifo: what is left of the old session stays.
ClearNothing ==
  /\ Doing("clear")
  /\ NextStep
  /\ UNCHANGED <<fifo, sshClient, readers, sessions, server, commands>>

ClearFifo ==
  /\ Doing("clear")
  /\ fifo' = <<>> /\ NextStep
  /\ UNCHANGED <<sshClient, readers, sessions, server, commands>>

\* connect up to the new session, or to a step that fails before.
Login ==
  /\ Doing("login")
  /\ \/ /\ session' = sessions + 1 /\ sessions' = sessions + 1
        /\ blocking' = TRUE /\ todo' = <<"auth">> \o Tail(todo)
     \/ todo' = <<>> /\ UNCHANGED <<session, sessions, blocking>>
  /\ UNCHANGED <<connected, shellChannel, stopShell, shellHandle, onData, sshMutex, closing,
                 fifo, readers, server, commands>>

\* Handshake and authentication; when they fail connect disconnects.
Authenticate ==
  /\ Doing("auth")
  /\ \/ connected' = TRUE /\ todo' = Tail(todo)
     \/ todo' = Disconnect /\ UNCHANGED connected
  /\ UNCHANGED <<session, shellChannel, blocking, stopShell, shellHandle, onData, sshMutex,
                 closing, fifo, readers, sessions, server, commands>>

\* openShell after its closeShell; whether the task was created is not looked at.
OpenLocks ==
  /\ At("open", "ask") /\ sshMutex = 0
  /\ sshMutex' = Lvgl /\ blocking' = TRUE /\ closing' = "network"
  /\ UNCHANGED <<session, connected, shellChannel, stopShell, shellHandle, onData, todo, fifo,
                 readers, sessions, server, commands>>

OpenShell ==
  /\ At("open", "network")
  /\ shellChannel' = session /\ blocking' = FALSE /\ onData' = TRUE /\ stopShell' = FALSE
  /\ sshMutex' = 0 /\ NextStep
  /\ \/ reader' = [reader EXCEPT ![session] = "test"] /\ shellHandle' = session
     \/ UNCHANGED <<reader, shellHandle>>
  /\ UNCHANGED <<session, connected, fifo, held, sessions, server, commands>>

\* No channel, no PTY or no shell: the adapter closes.
OpenFails ==
  /\ At("open", "network")
  /\ sshMutex' = 0 /\ todo' = CloseAdapter /\ closing' = "ask"
  /\ UNCHANGED <<session, connected, shellChannel, blocking, stopShell, shellHandle, onData,
                 fifo, readers, sessions, server, commands>>

\* The timer of the terminal shows what is in the FIFO.
PumpStream ==
  /\ todo = <<>> /\ fifo # <<>>
  /\ fifo' = Tail(fifo)
  /\ UNCHANGED <<sshClient, terminal, readers, sessions, server, commands>>
-----------------------------------------------------------------------------
\* execute of a script: it looks whether there is a session, before it has the mutex.
ExecChecks ==
  /\ script = "idle" /\ connected /\ session # 0 /\ execs < MaxExecs
  /\ script' = "checked" /\ execs' = execs + 1
  /\ UNCHANGED <<sshClient, terminal, fifo, readers, sessions, server>>

\* The mutex is held from the command to its result, for as long as the server takes, and
\* the session stays in the mode execute has set.
ExecLocks ==
  /\ script = "checked" /\ sshMutex = 0 /\ session # 0
  /\ sshMutex' = Script /\ blocking' = TRUE /\ script' = "running"
  /\ UNCHANGED <<session, connected, shellChannel, stopShell, shellHandle, onData, terminal,
                 fifo, readers, sessions, server, execs>>

\* The session has gone since: the library follows a null pointer, and the board starts
\* again.
ExecPanics ==
  /\ script = "checked" /\ sshMutex = 0 /\ session = 0
  /\ connected' = FALSE /\ shellChannel' = 0 /\ blocking' = TRUE
  /\ stopShell' = FALSE /\ shellHandle' = 0 /\ onData' = FALSE
  /\ fifo' = <<>> /\ todo' = <<>> /\ closing' = "ask" /\ script' = "idle"
  /\ reader' = [r \in Shell |-> IF reader[r] = "none" THEN "none" ELSE "done"]
  /\ UNCHANGED <<session, sshMutex, held, sessions, server, execs>>

\* Mutant of ExecEnds: execute returns with the mutex.
ExecEndsLocked ==
  /\ script = "running" /\ script' = "idle"
  /\ UNCHANGED <<sshMutex, session, connected, shellChannel, blocking, stopShell, shellHandle,
                 onData, terminal, fifo, readers, sessions, server, execs>>

ExecEnds ==
  /\ script = "running" /\ script' = "idle"
  /\ sshMutex' = 0
  /\ UNCHANGED <<session, connected, shellChannel, blocking, stopShell, shellHandle, onData,
                 terminal, fifo, readers, sessions, server, execs>>

ReaderGoto(r, where) == reader' = [reader EXCEPT ![r] = where]

ReaderTests(r) ==
  /\ reader[r] = "test"
  /\ ReaderGoto(r, IF ~stopShell /\ session # 0 /\ shellChannel # 0 THEN "read" ELSE "end")
  /\ UNCHANGED <<sshClient, terminal, fifo, held, sessions, server, commands>>

\* libssh2_channel_read under the mutex: a block, an end, or nothing yet.  In a
\* session that blocks, the last is a wait with the mutex held.
ReaderReads(r) ==
  /\ \/ reader[r] = "read" /\ sshMutex = 0
     \/ reader[r] = "blocked" /\ (server[shellChannel].unread > 0 \/ ~server[shellChannel].up)
  /\ IF shellChannel = 0 THEN ReaderGoto(r, "select") /\ UNCHANGED <<held, server, sshMutex>>
     ELSE IF server[shellChannel].unread > 0
       THEN /\ ReaderGoto(r, "got") /\ held' = [held EXCEPT ![r] = shellChannel]
            /\ server' = [server EXCEPT ![shellChannel].unread = @ - 1] /\ sshMutex' = 0
       ELSE /\ UNCHANGED <<held, server>>
            /\ IF ~server[shellChannel].up THEN ReaderGoto(r, "end") /\ sshMutex' = 0
               ELSE IF blocking THEN ReaderGoto(r, "blocked") /\ sshMutex' = r
               ELSE ReaderGoto(r, "select") /\ UNCHANGED sshMutex
  /\ UNCHANGED <<session, connected, shellChannel, blocking, stopShell, shellHandle, onData,
                 terminal, fifo, sessions, commands>>

\* handleIncomingData: a full FIFO loses its oldest block.
ReaderDelivers(r) ==
  /\ reader[r] = "got"
  /\ ReaderGoto(r, "test")
  /\ fifo' = IF ~onData THEN fifo
             ELSE Append(IF Len(fifo) = FifoSize THEN Tail(fifo) ELSE fifo, held[r])
  /\ UNCHANGED <<sshClient, terminal, held, sessions, server, commands>>

ReaderSelects(r) ==
  /\ reader[r] = "select"
  /\ ReaderGoto(r, "test")
  /\ UNCHANGED <<sshClient, terminal, fifo, held, sessions, server, commands>>

ReaderEnds(r) ==
  /\ reader[r] = "end"
  /\ ReaderGoto(r, "done") /\ shellHandle' = 0
  /\ UNCHANGED <<session, connected, shellChannel, blocking, stopShell, onData, sshMutex,
                 terminal, fifo, held, sessions, server, commands>>

\* The other end: it sends, or closes the channel or the connection.
ServerActs ==
  /\ shellChannel # 0 /\ server[shellChannel].up
  /\ \/ /\ server[shellChannel].sent < MaxBlocks
        /\ server' = [server EXCEPT ![shellChannel].sent = @ + 1, ![shellChannel].unread = @ + 1]
     \/ server' = [server EXCEPT ![shellChannel].up = FALSE]
  /\ UNCHANGED <<sshClient, terminal, fifo, readers, sessions, commands>>

\* The steps of the LVGL task, and those in which it waits for the server.
TerminalStep ==
  \/ CloseAsks \/ CloseWaited \/ CloseLocks \/ FreeAsks \/ FreeLocks \/ ClearFifo
  \/ Login \/ OpenLocks

TerminalAnswered == CloseFrees \/ FreeSession \/ Authenticate \/ OpenShell \/ OpenFails

ReaderStep(r) ==
  ReaderTests(r) \/ ReaderReads(r) \/ ReaderDelivers(r) \/ ReaderSelects(r) \/ ReaderEnds(r)

NextSsh ==
  \/ UserCloses \/ UserConnects \/ TerminalStep \/ TerminalAnswered \/ PumpStream
  \/ ExecChecks \/ ExecLocks \/ ExecPanics \/ ExecEnds \/ ServerActs
  \/ \E r \in Shell : ReaderStep(r)

SpecSsh == InitSsh /\ [][NextSsh]_sshVars

\* The tasks run; no server has to answer.
FairSsh ==
  /\ SpecSsh /\ WF_sshVars(TerminalStep)
  /\ \A r \in Shell : WF_sshVars(ReaderStep(r))
-----------------------------------------------------------------------------
(* Properties *)

\* Every variable has the type of the member it stands for.
SshTypeOK ==
  /\ session \in 0..MaxSessions /\ shellChannel \in {0, session}
  /\ connected \in BOOLEAN /\ blocking \in BOOLEAN /\ stopShell \in BOOLEAN /\ onData \in BOOLEAN
  /\ shellHandle \in 0..MaxSessions /\ sshMutex \in 0..Lvgl
  /\ Len(fifo) <= FifoSize /\ \A i \in DOMAIN fifo : fifo[i] \in Shell
  /\ closing \in {"ask", "waiting", "locking", "network"}
  /\ script \in {"idle", "checked", "running"}
  /\ \A i \in DOMAIN todo : todo[i] \in {"shell", "free", "clear", "login", "auth", "open"}
  /\ reader \in [Shell -> {"none", "test", "read", "blocked", "got", "select", "end", "done"}]
  /\ held \in [Shell -> 0..MaxSessions] /\ sessions \in 0..MaxSessions /\ execs \in 0..MaxExecs

\* One reader at a time: when a shell is opened, the reader of the one before has
\* seen the request to stop, which openShell then takes back (closeShell, openShell).
OneReader == \A r, s \in Shell : Reading(r) /\ Reading(s) => r = s

\* The terminal only shows what the session it is connected to has sent; nothing
\* of an earlier one arrives late (close of the adapter, closeShell).
FreshOutput == todo = <<>> => \A i \in DOMAIN fifo : fifo[i] = session

\* Somebody waits for the server: the terminal, or a command or a reader with the mutex.
ServerAwaited ==
  \/ closing = "network" \/ Doing("auth") \/ script = "running"
  \/ \E r \in Shell : reader[r] = "blocked"

\* The LVGL task comes back from connect and close, unless the server is waited for: what
\* is held when a wait ends is given back (closeShell, disconnect, openShell, execute, the
\* shell task).
TerminalReturns == (todo # <<>>) ~> (todo = <<>> \/ ServerAwaited)

\* hal_ssh_p4.cpp:277: the session does not block, so that the shell can be read
\* asynchronously: no reader waits for the server with the mutex held.
ReadsNeverBlock == \A r \in Shell : reader[r] # "blocked"
=============================================================================
