----------------------------- MODULE LuaRunner ------------------------------
(***************************************************************************)
(* Scripts and the user interface (core/src/lua/LuaRunner.cpp, the "UI     *)
(* Control & State" part of LuaBridge.cpp, and the loops of the LVGL task  *)
(* in the board ports).  The Lua view starts and stops the one script; it  *)
(* runs in a task of its own on the one lua_State.  A script may pause the *)
(* user interface to draw on the screen itself: while it is paused the     *)
(* LVGL task does not run, so nobody can press a button.                   *)
(*                                                                         *)
(* The p-th start is run p, and _targetScript or _targetCode, which only   *)
(* a start sets, names the last one.  _taskHandle is a flag: it is only    *)
(* tested for null.  The two stores of pauseUI are one step.               *)
(***************************************************************************)
EXTENDS Naturals

CONSTANTS
  MaxRuns,     \* bound: the scripts started
  Pauses,      \* the pauses scripts ask for: a subset of {"forever", "while"}
  Catchers,    \* the runs whose scripts do their work in a pcall of their own
  CreateFails  \* whether createTask and lua_newstate may find no memory

ASSUME RunnerAssumption ==
  /\ MaxRuns \in Nat /\ Pauses \subseteq {"forever", "while"}
  /\ Catchers \subseteq 1..MaxRuns /\ CreateFails \in BOOLEAN

VARIABLES
  state,     \* _state
  abort,     \* _abortRequested
  taskHandle, \* _taskHandle is not null
  engine,    \* the lua_State exists
  hook,      \* hookCb is installed in the lua_State
  forever,   \* s_uiPausedIndefinite
  until,     \* s_uiPausedUntil: "zero", "ahead" of the clock or "past"
  refresh,   \* s_needsScreenRefresh
  lvgl,      \* where the LVGL task is
  runs,      \* the number of runs so far
  pc,        \* where the task of each run is
  ok,        \* how the script of each run ended
  script,    \* history: the script each run executed
  disowned   \* history: the runs whose state, or hook, the end of an earlier task
             \* took away, or whose start was told that it failed

runner == <<state, abort, taskHandle, engine, hook, runs>>
screen == <<forever, until, refresh>>
tasks == <<pc, ok, script, disowned>>
runnerVars == <<runner, screen, lvgl, tasks>>

Run == 1..MaxRuns
States == {"IDLE", "RUNNING", "FINISHED", "STOPPED", "ERROR"}
InLua(p) == pc[p] \in {"script", "pcall"}
Ended(p) == pc[p] \in {"none", "done"}
Published(p) == pc[p] \in {"restoring", "clearing", "done"}
\* The runs after p that a store of p's task into the state takes it from.
Heirs(p) == {q \in Run : p < q /\ q <= runs /\ ~Published(q)}
-----------------------------------------------------------------------------
InitRunner ==
  /\ state = "IDLE" /\ abort = FALSE /\ taskHandle = FALSE
  /\ engine = FALSE /\ hook = FALSE /\ runs = 0
  /\ forever = FALSE /\ until = "zero" /\ refresh = FALSE
  /\ lvgl = "asking"
  /\ pc = [p \in Run |-> "none"] /\ ok = [p \in Run |-> FALSE]
  /\ script = [p \in Run |-> p]
  /\ disowned = {}

\* LuaBridge::resumeUI.
ResumeUI ==
  /\ forever' = FALSE /\ until' = "zero"
  /\ refresh' = (refresh \/ forever \/ until # "zero")

\* isUIPaused at the head of the LVGL loop: go round again, let LVGL work, or
\* find that the pause is over.
IsUIPaused ==
  /\ lvgl = "asking"
  /\ ~forever /\ until # "ahead"
  /\ lvgl' = IF until = "past" THEN "resuming" ELSE "working"
  /\ UNCHANGED <<runner, screen, tasks>>

\* The call of resumeUI at the end of isUIPaused.
PauseOver ==
  /\ lvgl = "resuming" /\ ResumeUI
  /\ lvgl' = "working"
  /\ UNCHANGED <<runner, tasks>>

\* One round of lv_timer_handler and UIManager::update, which redraws the screen.
LvglDone ==
  /\ lvgl = "working" /\ lvgl' = "asking"
  /\ refresh' = FALSE
  /\ UNCHANGED <<runner, forever, until, tasks>>

\* Mutant of Idle: a script that was told to stop counts as ended.
IdleTooSoon == state # "RUNNING" \/ abort

\* startScript and startString refuse while a script runs.
Idle == state # "RUNNING"

\* startScript, startString: the script is named and the state set.
StartScript ==
  /\ lvgl = "working" /\ Idle /\ runs < MaxRuns
  /\ runs' = runs + 1 /\ abort' = FALSE /\ state' = "RUNNING"
  /\ lvgl' = "creating"
  /\ UNCHANGED <<taskHandle, engine, hook, screen, tasks>>

\* The task is created and may run before its handle is assigned.
CreateScript ==
  /\ lvgl = "creating" /\ lvgl' = "created"
  /\ pc' = [pc EXCEPT ![runs] = "created"]
  /\ UNCHANGED <<runner, screen, ok, script, disowned>>

CreateScriptFails ==
  /\ CreateFails /\ lvgl = "creating" /\ lvgl' = "working"
  /\ taskHandle' = FALSE /\ state' = "ERROR"
  /\ UNCHANGED <<abort, engine, hook, runs, screen, tasks>>

AssignScript ==
  /\ lvgl = "created" /\ lvgl' = "testing"
  /\ taskHandle' = TRUE
  /\ UNCHANGED <<state, abort, engine, hook, runs, screen, tasks>>

\* The test of _taskHandle, which the end of a task may just have cleared.
TestScript ==
  /\ lvgl = "testing" /\ lvgl' = "working"
  /\ IF taskHandle THEN UNCHANGED <<state, disowned>>
     ELSE state' = "ERROR" /\ disowned' = disowned \cup {runs}
  /\ UNCHANGED <<abort, taskHandle, engine, hook, runs, screen, pc, ok, script>>

Stop ==
  /\ lvgl = "working" /\ state = "RUNNING"
  /\ abort' = TRUE
  /\ UNCHANGED <<state, taskHandle, engine, hook, runs, screen, lvgl, tasks>>

\* The clock passes s_uiPausedUntil.
Lapse ==
  /\ until = "ahead" /\ until' = "past"
  /\ UNCHANGED <<runner, forever, refresh, lvgl, tasks>>
-----------------------------------------------------------------------------
\* luaTask up to the call of executeFile or executeString; the lua_State may not
\* be had for want of memory.
Enter(p) ==
  /\ pc[p] = "created"
  /\ \/ /\ engine' = TRUE /\ hook' = TRUE /\ script' = [script EXCEPT ![p] = runs]
        /\ pc' = [pc EXCEPT ![p] = "script"] /\ UNCHANGED <<state, disowned>>
     \/ /\ CreateFails /\ ~engine
        /\ state' = "ERROR" /\ disowned' = disowned \cup Heirs(p)
        /\ pc' = [pc EXCEPT ![p] = "restoring"]
        /\ UNCHANGED <<engine, hook, script>>
  /\ UNCHANGED <<abort, taskHandle, runs, screen, lvgl, ok>>

\* The script calls cbdos.gfx.pause_ui with 0 or with seconds.
PauseUI(p) ==
  /\ InLua(p)
  /\ \E kind \in Pauses :
       /\ forever' = (kind = "forever")
       /\ until' = IF kind = "forever" THEN "zero" ELSE "ahead"
  /\ UNCHANGED <<runner, refresh, lvgl, tasks>>

ScriptResumesUI(p) ==
  /\ InLua(p) /\ ResumeUI
  /\ UNCHANGED <<runner, lvgl, tasks>>


\* The script enters a pcall of its own, or leaves it.
Pcall(p) ==
  /\ p \in Catchers /\ InLua(p)
  /\ pc' = [pc EXCEPT ![p] = IF @ = "script" THEN "pcall" ELSE "script"]
  /\ UNCHANGED <<runner, screen, lvgl, ok, script, disowned>>

\* hookCb raises an error when the script is to end: it ends the script, or the
\* innermost pcall.
HookCb(p) ==
  /\ InLua(p) /\ hook /\ abort
  /\ IF pc[p] = "script"
       THEN pc' = [pc EXCEPT ![p] = "returned"] /\ ok' = [ok EXCEPT ![p] = FALSE]
       ELSE pc' = [pc EXCEPT ![p] = "script"] /\ ok' = ok
  /\ UNCHANGED <<runner, screen, lvgl, script, disowned>>

\* The script returns, or fails.
ScriptEnds(p) ==
  /\ pc[p] = "script"
  /\ pc' = [pc EXCEPT ![p] = "returned"] /\ ok' \in {ok, [ok EXCEPT ![p] = TRUE]}
  /\ UNCHANGED <<runner, screen, lvgl, script, disowned>>

Unhook(p) ==
  /\ pc[p] = "returned"
  /\ hook' = FALSE /\ disowned' = disowned \cup {q \in Run : p < q /\ InLua(q)}
  /\ pc' = [pc EXCEPT ![p] = "unhooked"]
  /\ UNCHANGED <<state, abort, taskHandle, engine, runs, screen, lvgl, ok, script>>

Verdict(p) == IF abort THEN "STOPPED" ELSE IF ok[p] THEN "FINISHED" ELSE "ERROR"

\* Mutant of Publish: a script that was stopped leaves the interface as it is.
PublishAndLeave(p) ==
  /\ pc[p] = "unhooked"
  /\ state' = Verdict(p) /\ disowned' = disowned \cup Heirs(p)
  /\ pc' = [pc EXCEPT ![p] = IF abort THEN "done" ELSE "restoring"]
  /\ UNCHANGED <<abort, taskHandle, engine, hook, runs, screen, lvgl, ok, script>>

\* The state is set before the interface is restored.
Publish(p) ==
  /\ pc[p] = "unhooked"
  /\ state' = Verdict(p) /\ disowned' = disowned \cup Heirs(p)
  /\ pc' = [pc EXCEPT ![p] = "restoring"]
  /\ UNCHANGED <<abort, taskHandle, engine, hook, runs, screen, lvgl, ok, script>>

Restore(p) ==
  /\ pc[p] = "restoring" /\ ResumeUI
  /\ pc' = [pc EXCEPT ![p] = "clearing"]
  /\ UNCHANGED <<runner, lvgl, ok, script, disowned>>

\* The task forgets itself, or the one that has been started since, and is deleted.
ClearHandle(p) ==
  /\ pc[p] = "clearing"
  /\ taskHandle' = FALSE
  /\ pc' = [pc EXCEPT ![p] = "done"]
  /\ UNCHANGED <<state, abort, engine, hook, runs, screen, lvgl, ok, script, disowned>>
-----------------------------------------------------------------------------
LvglStep ==
  \/ IsUIPaused \/ PauseOver \/ LvglDone
  \/ CreateScript \/ CreateScriptFails \/ AssignScript \/ TestScript

\* What luaTask does itself, and what its script does.
TaskStep(p) ==
  Enter(p) \/ HookCb(p) \/ Unhook(p) \/ Publish(p) \/ Restore(p) \/ ClearHandle(p)
ScriptStep(p) == Pcall(p) \/ PauseUI(p) \/ ScriptResumesUI(p) \/ ScriptEnds(p)

NextRunner ==
  \/ LvglStep \/ StartScript \/ Stop \/ Lapse
  \/ \E p \in Run : TaskStep(p) \/ ScriptStep(p)

SpecRunner == InitRunner /\ [][NextRunner]_runnerVars

\* The tasks run and time passes; what a script does, and when it ends, is its own
\* affair, but it keeps executing instructions, so the hook is called.
FairRunner ==
  /\ SpecRunner
  /\ WF_runnerVars(LvglStep) /\ WF_runnerVars(Lapse)
  /\ \A p \in Run : WF_runnerVars(TaskStep(p))
-----------------------------------------------------------------------------
(* Properties *)

\* Every variable has the type of the member it stands for, and a pause for ever
\* leaves no time at which it would end (pauseUI).
RunnerTypeOK ==
  /\ state \in States /\ abort \in BOOLEAN /\ taskHandle \in BOOLEAN
  /\ engine \in BOOLEAN /\ hook \in BOOLEAN /\ forever \in BOOLEAN /\ refresh \in BOOLEAN
  /\ until \in {"zero", "ahead", "past"} /\ ~(forever /\ until # "zero")
  /\ lvgl \in {"asking", "resuming", "working", "creating", "created", "testing"}
  /\ runs \in 0..MaxRuns /\ ok \in [Run -> BOOLEAN]
  /\ pc \in [Run -> {"none", "created", "script", "pcall", "returned", "unhooked", "restoring",
                    "clearing", "done"}]
  /\ script \in [Run -> 0..MaxRuns] /\ disowned \subseteq Run

\* One script at a time uses the lua_State, though the next may be started while
\* the task of the last is still restoring the interface, and each run executes
\* the script it was started for (startScript and luaTask): but for a run that the
\* late end of an earlier task has made look ended while its script ran.
OneScript ==
  /\ \A p, q \in Run : InLua(p) /\ InLua(q) /\ p < q => p \in disowned
  /\ \A p \in Run : InLua(p) => script[p] = p \/ p \in disowned

\* A running script can always be interrupted: the state says that it runs and the
\* hook is installed, unless an earlier task has taken them from it.
HookStays == \A p \in Run : InLua(p) /\ p \notin disowned => hook /\ state = "RUNNING"

\* When all tasks have ended the interface is not paused any more, whatever pauses
\* their scripts asked for and however they ended (the end of luaTask).
InterfaceRestored == (\A p \in Run : Ended(p)) => ~forever /\ until = "zero"

=============================================================================
