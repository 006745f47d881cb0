--------------------------- MODULE ProgramsProofs ----------------------------
(***************************************************************************)
(* Theorems about what runs on a board by itself, for every value of the   *)
(* constants: the Lua runner, the DuckyScript interpreter, the lists of    *)
(* stations, the channel sweep, and the composition of all with player,    *)
(* recorder and security key, whose theorems are in modules of their own.  *)
(***************************************************************************)
EXTENDS Programs, AudioPlayerProofs, WavRecorderProofs, SecurityKeyProofs, SequenceTheorems,
        WellFoundedInduction, TLAPS

\* The task of a run that has not published its end.
Unpublished(p) == InLua(p) \/ pc[p] \in {"created", "returned", "unhooked"}

\* Of the runs that nothing was taken from only the last can be unpublished, and it
\* keeps the state RUNNING, so that nothing is started beside it, and the hook; its
\* script is the one that was named for it.
RunInv ==
  /\ \A p \in Run :
       /\ pc[p] # "none" => p <= runs
       /\ Unpublished(p) /\ p \notin disowned => p = runs /\ state = "RUNNING"
       /\ InLua(p) /\ p \notin disowned => hook /\ script[p] = p
  /\ lvgl \in {"creating", "created", "testing"} => runs \in Run
  /\ lvgl = "creating" => pc[runs] = "none" /\ (state = "RUNNING" \/ runs \in disowned)

\* A pause is left by no task that has done more than publish its end.
PauseInv ==
  (\A p \in Run : pc[p] \in {"none", "clearing", "done"}) => ~forever /\ until = "zero"

\* The inductive invariant.
RunnerCorrect == RunnerTypeOK /\ RunInv /\ PauseInv
-----------------------------------------------------------------------------
LEMMA InitCorrect == InitRunner => RunnerCorrect
<1> SUFFICES ASSUME InitRunner PROVE RunnerCorrect
  OBVIOUS
<1>1. script \in [Run -> 0..MaxRuns] /\ runs \in 0..MaxRuns
  BY RunnerAssumption DEF InitRunner, Run
<1>2. RunnerTypeOK
  BY <1>1 DEF InitRunner, RunnerTypeOK, States
<1>3. RunInv /\ PauseInv
  BY DEF InitRunner, RunInv, PauseInv, Unpublished, InLua
<1> QED BY <1>2, <1>3 DEF RunnerCorrect

-----------------------------------------------------------------------------
\* The LVGL loop, the stop button and the clock change nothing of the runner but
\* the request to abort, and never begin a pause.
LEMMA ViewStep ==
  ASSUME RunnerCorrect, IsUIPaused \/ PauseOver \/ LvglDone \/ Stop \/ Lapse
  PROVE  RunnerCorrect'
<1> USE DEF RunnerCorrect, RunnerTypeOK, RunInv, PauseInv, Unpublished, InLua, runner, tasks
<1>1. CASE IsUIPaused BY <1>1 DEF IsUIPaused, screen
<1>2. CASE PauseOver BY <1>2 DEF PauseOver, ResumeUI
<1>3. CASE LvglDone BY <1>3 DEF LvglDone
<1>4. CASE Stop BY <1>4 DEF Stop, screen
<1>5. CASE Lapse BY <1>5 DEF Lapse
<1> QED BY <1>1, <1>2, <1>3, <1>4, <1>5

\* A start is refused unless every earlier run that nothing was taken from has
\* published its end.
LEMMA StartStep ==
  ASSUME RunnerCorrect, StartScript
  PROVE  RunnerCorrect'
<1>1. \A p \in Run : Unpublished(p) => p \in disowned
  BY DEF RunnerCorrect, RunInv, StartScript, Idle
<1>2. runs' \in 0..MaxRuns /\ runs' \in Run /\ pc[runs'] = "none"
  BY RunnerAssumption DEF StartScript, RunnerCorrect, RunnerTypeOK, RunInv, Run
<1>3. RunnerTypeOK'
  BY <1>2 DEF StartScript, RunnerCorrect, RunnerTypeOK, screen, tasks, States
<1>4. RunInv'
  <2>1. \A p \in Run : pc[p] # "none" => p <= runs'
    BY RunnerAssumption DEF StartScript, RunnerCorrect, RunnerTypeOK, RunInv, Run
  <2> QED BY <1>1, <1>2, <2>1 DEF StartScript, RunnerCorrect, RunInv, Unpublished, InLua, tasks
<1>5. PauseInv' BY DEF StartScript, RunnerCorrect, PauseInv, screen, tasks
<1> QED BY <1>3, <1>4, <1>5 DEF RunnerCorrect

LEMMA CreateStep ==
  ASSUME RunnerCorrect, CreateScript \/ CreateScriptFails \/ AssignScript \/ TestScript
  PROVE  RunnerCorrect'
<1> USE DEF RunnerCorrect, RunnerTypeOK, RunInv, PauseInv, Unpublished, InLua
<1>1. CASE CreateScript
  <2>1. runs \in Run /\ pc[runs] = "none" /\ (state = "RUNNING" \/ runs \in disowned)
    BY <1>1 DEF CreateScript
  <2>2. \A p \in Run \ {runs} : Unpublished(p) => p \in disowned BY <2>1
  <2>3. /\ pc' = [pc EXCEPT ![runs] = "created"] /\ lvgl' = "created"
        /\ UNCHANGED <<runner, screen, ok, script, disowned>>
    BY <1>1 DEF CreateScript
  <2>4. RunInv'
    <3>1. \A p \in Run : pc'[p] # "none" => p <= runs BY <2>1, <2>3
    <3> QED BY <2>1, <2>2, <2>3, <3>1 DEF runner
  <2> QED BY <2>1, <2>3, <2>4 DEF runner, screen
<1>2. CASE CreateScriptFails
  <2>1. \A p \in Run : Unpublished(p) => p \in disowned BY <1>2 DEF CreateScriptFails
  <2> QED BY <1>2, <2>1 DEF CreateScriptFails, screen, tasks, States
<1>3. CASE AssignScript BY <1>3 DEF AssignScript, screen, tasks
<1>4. CASE TestScript BY <1>4 DEF TestScript, screen, States
<1> QED BY <1>1, <1>2, <1>3, <1>4

\* The store of a task into the state takes it from no run but its heirs.
LEMMA StoreStep ==
  ASSUME RunnerCorrect, NEW p \in Run, pc[p] # "none", disowned' = disowned \cup Heirs(p),
         NEW where \in {"restoring"}, pc' = [pc EXCEPT ![p] = where],
         UNCHANGED <<runs, script, lvgl, hook>>
  PROVE  RunInv'
<1> USE DEF RunnerCorrect, RunnerTypeOK, RunInv, Unpublished, InLua
<1>1. disowned \subseteq disowned' OBVIOUS
<1>2. \A q \in Run : Unpublished(q)' => Unpublished(q) /\ q # p OBVIOUS
<1>3. \A q \in Run : Unpublished(q)' => q \in disowned'
  <2> SUFFICES ASSUME NEW q \in Run, Unpublished(q)', q \notin disowned' PROVE FALSE
    OBVIOUS
  <2>1. q = runs /\ q # p /\ p <= runs BY <1>1, <1>2
  <2>2. p < q /\ q <= runs BY <2>1, RunnerAssumption DEF Run
  <2>3. ~Published(q) BY <1>2 DEF Published
  <2> QED BY <2>2, <2>3 DEF Heirs
<1>4. ASSUME lvgl = "creating" PROVE runs \in disowned'
  <2>1. p < runs /\ ~Published(runs) /\ runs \in Run
    BY <1>4, RunnerAssumption DEF Published, Run
  <2> QED BY <2>1 DEF Heirs, Run
<1>5. \A q \in Run : pc'[q] # "none" => q <= runs OBVIOUS
<1>6. lvgl = "creating" => pc'[runs] = "none" OBVIOUS
<1> QED BY <1>1, <1>3, <1>4, <1>5, <1>6

\* What the task of a run does, and what its script does.
LEMMA TaskStepCorrect ==
  ASSUME RunnerCorrect, NEW p \in Run, TaskStep(p)
  PROVE  RunnerCorrect'
<1> USE DEF RunnerCorrect, RunnerTypeOK, PauseInv
<1>1. CASE Enter(p)
  <2>1. RunnerTypeOK'
    <3>1. disowned' \subseteq Run /\ script' \in [Run -> 0..MaxRuns] BY <1>1 DEF Enter, Heirs
    <3>2. state' \in States /\ engine' \in BOOLEAN /\ hook' \in BOOLEAN BY <1>1 DEF Enter, States
    <3>3. pc' \in [Run -> {"none", "created", "script", "pcall", "returned", "unhooked",
                          "restoring", "clearing", "done"}]
      BY <1>1 DEF Enter
    <3> QED BY <1>1, <3>1, <3>2, <3>3 DEF Enter, screen
  <2>2. PauseInv' BY <1>1 DEF Enter, screen
  <2>3. RunInv'
    <3>1. CASE pc' = [pc EXCEPT ![p] = "script"] /\ hook' = TRUE
               /\ script' = [script EXCEPT ![p] = runs] /\ UNCHANGED <<state, disowned>>
      BY <1>1, <3>1 DEF Enter, RunInv, Unpublished, InLua
    <3>2. CASE pc' = [pc EXCEPT ![p] = "restoring"] /\ disowned' = disowned \cup Heirs(p)
               /\ UNCHANGED <<engine, hook, script>>
      BY <1>1, <3>2, StoreStep DEF Enter
    <3> QED BY <1>1, <3>1, <3>2 DEF Enter
  <2> QED BY <2>1, <2>2, <2>3
<1>2. CASE HookCb(p)
  <2>1. PICK where \in {"returned", "script"} : pc' = [pc EXCEPT ![p] = where]
    BY <1>2 DEF HookCb
  <2>2. InLua(p) /\ ok' \in [Run -> BOOLEAN] BY <1>2 DEF HookCb
  <2>3. UNCHANGED <<runner, screen, lvgl, script, disowned>> BY <1>2 DEF HookCb
  <2>4. RunnerTypeOK' BY <2>1, <2>2, <2>3, ZenonT(40) DEF runner, screen
  <2>5. PauseInv' BY <2>1, <2>2, <2>3 DEF screen, InLua
  <2>6. RunInv' BY <2>1, <2>2, <2>3 DEF RunInv, Unpublished, InLua, runner
  <2> QED BY <2>4, <2>5, <2>6
<1>3. CASE Unhook(p)
  <2>1. RunnerTypeOK' BY <1>3 DEF Unhook, screen
  <2>2. PauseInv' BY <1>3 DEF Unhook, screen
  <2>3. RunInv'
    <3>1. \A q \in Run : InLua(q)' => q \in disowned'
      <4> SUFFICES ASSUME NEW q \in Run, InLua(q)', q \notin disowned' PROVE FALSE
        OBVIOUS
      <4>1. InLua(q) /\ q # p /\ q = runs BY <1>3 DEF Unhook, RunInv, Unpublished, InLua
      <4>2. p <= runs BY <1>3 DEF Unhook, RunInv
      <4>3. p < q BY <4>1, <4>2, RunnerAssumption DEF Run
      <4> QED BY <1>3, <4>1, <4>3 DEF Unhook
    <3>2. \A q \in Run : Unpublished(q)' => Unpublished(q) BY <1>3 DEF Unhook, Unpublished, InLua
    <3>3. disowned \subseteq disowned' /\ UNCHANGED <<state, runs, lvgl>> BY <1>3 DEF Unhook
    <3>4. \A q \in Run : (pc'[q] # "none") = (pc[q] # "none") BY <1>3 DEF Unhook
    <3> HIDE DEF RunnerCorrect, RunnerTypeOK, PauseInv
    <3> QED BY <3>1, <3>2, <3>3, <3>4 DEF RunInv, RunnerCorrect
  <2> QED BY <2>1, <2>2, <2>3
<1>4. CASE Publish(p)
  <2>1. RunnerTypeOK' BY <1>4 DEF Publish, Verdict, States, screen, Heirs
  <2>2. PauseInv' BY <1>4 DEF Publish, screen
  <2>3. RunInv' BY <1>4, StoreStep DEF Publish
  <2> QED BY <2>1, <2>2, <2>3
<1>5. CASE Restore(p)
  BY <1>5 DEF Restore, ResumeUI, RunInv, Unpublished, InLua, runner
<1>6. CASE ClearHandle(p)
  BY <1>6, ZenonT(40) DEF ClearHandle, RunInv, Unpublished, InLua, screen
<1> QED BY <1>1, <1>2, <1>3, <1>4, <1>5, <1>6 DEF TaskStep

LEMMA ScriptStepCorrect ==
  ASSUME RunnerCorrect, NEW p \in Run, ScriptStep(p)
  PROVE  RunnerCorrect'
<1> USE DEF RunnerCorrect, RunnerTypeOK, RunInv, PauseInv, Unpublished, InLua
<1>1. CASE Pcall(p) BY <1>1 DEF Pcall, runner, screen
<1>2. CASE PauseUI(p)
  <2>1. PICK pause \in {"forever", "while"} :
          /\ forever' = (pause = "forever")
          /\ until' = IF pause = "forever" THEN "zero" ELSE "ahead"
    BY <1>2, RunnerAssumption DEF PauseUI
  <2>2. RunnerTypeOK' BY <1>2, <2>1 DEF PauseUI, runner, tasks
  <2>3. RunInv' BY <1>2 DEF PauseUI, runner, tasks
  <2>4. PauseInv' BY <1>2 DEF PauseUI, tasks
  <2> QED BY <2>2, <2>3, <2>4
<1>3. CASE ScriptResumesUI(p) BY <1>3 DEF ScriptResumesUI, ResumeUI, runner, tasks
<1>4. CASE ScriptEnds(p)
  <2>1. pc' = [pc EXCEPT ![p] = "returned"] /\ pc[p] = "script" /\ ok' \in [Run -> BOOLEAN]
    BY <1>4 DEF ScriptEnds
  <2>2. UNCHANGED <<runner, screen, lvgl, script, disowned>> BY <1>4 DEF ScriptEnds
  <2>3. RunnerTypeOK' BY <2>1, <2>2 DEF runner, screen
  <2>4. PauseInv' BY <2>1, <2>2 DEF screen
  <2>5. RunInv' BY <2>1, <2>2 DEF runner
  <2> QED BY <2>3, <2>4, <2>5
<1> QED BY <1>1, <1>2, <1>3, <1>4 DEF ScriptStep

LEMMA CorrectStep == RunnerCorrect /\ [NextRunner]_runnerVars => RunnerCorrect'
<1> SUFFICES ASSUME RunnerCorrect, [NextRunner]_runnerVars PROVE RunnerCorrect'
  OBVIOUS
<1>1. CASE LvglStep \/ Stop \/ Lapse BY <1>1, ViewStep, CreateStep DEF LvglStep
<1>2. CASE StartScript BY <1>2, StartStep
<1>3. ASSUME NEW p \in Run, TaskStep(p) PROVE RunnerCorrect' BY <1>3, TaskStepCorrect
<1>4. ASSUME NEW p \in Run, ScriptStep(p) PROVE RunnerCorrect' BY <1>4, ScriptStepCorrect
<1>5. CASE UNCHANGED runnerVars
  BY <1>5
    DEF runnerVars, runner, screen, tasks, RunnerCorrect, RunnerTypeOK, RunInv, PauseInv,
     Unpublished, InLua
<1> QED BY <1>1, <1>2, <1>3, <1>4, <1>5 DEF NextRunner
-----------------------------------------------------------------------------
\* The inductive invariant holds whatever scripts do and however many are run.
THEOREM RunnerIsCorrect == SpecRunner => []RunnerCorrect
<1>1. InitRunner => RunnerCorrect BY InitCorrect
<1>2. RunnerCorrect /\ [NextRunner]_runnerVars => RunnerCorrect' BY CorrectStep
<1> QED BY <1>1, <1>2, PTL DEF SpecRunner

\* The types of LuaRunner's members, the two fields of a pause among them.
THEOREM RunnerTypes == SpecRunner => []RunnerTypeOK
<1>1. RunnerCorrect => RunnerTypeOK BY DEF RunnerCorrect
<1> QED BY <1>1, RunnerIsCorrect, PTL

\* One script at a time uses the lua_State, and it is the one its run was started
\* for (startScript and luaTask), but for a run that the late end of an earlier task
\* made look ended.
THEOREM OneScriptAtATime == SpecRunner => []OneScript
<1>1. RunnerCorrect => OneScript
  <2> SUFFICES ASSUME RunnerCorrect, NEW p \in Run, InLua(p), p \notin disowned
               PROVE  script[p] = p /\ \A q \in Run : InLua(q) => ~(p < q)
    BY DEF OneScript
  <2>1. p = runs /\ script[p] = p BY DEF RunnerCorrect, RunInv, Unpublished
  <2>2. \A q \in Run : InLua(q) => q <= runs BY DEF RunnerCorrect, RunInv, InLua
  <2> QED BY <2>1, <2>2, RunnerAssumption DEF Run
<1> QED BY <1>1, RunnerIsCorrect, PTL

\* A script in the lua_State that nothing was taken from always has the hook that can
\* interrupt it, and the state that lets stop ask for it (hookCb and stop).
THEOREM AlwaysInterruptible == SpecRunner => []HookStays
<1>1. RunnerCorrect => HookStays
  BY DEF RunnerCorrect, RunInv, HookStays, Unpublished
<1> QED BY <1>1, RunnerIsCorrect, PTL

\* When the tasks have ended no pause of theirs is left.
THEOREM InterfaceComesBack == SpecRunner => []InterfaceRestored
<1>1. RunnerCorrect => InterfaceRestored
  BY DEF RunnerCorrect, PauseInv, InterfaceRestored, Ended
<1> QED BY <1>1, RunnerIsCorrect, PTL
-----------------------------------------------------------------------------
\* The loop's counter is a channel while the worker listens on it; it ends one past the
\* last.
SweepTypeInv == SweepTypeOK /\ (worker = "dwell" => hop \in Channel)

\* While the worker sweeps, originalCh is the channel the user asked for last, unless he
\* has asked meanwhile; from "retune" on it is in s_radio again, and at "over" the driver
\* is tuned to it, if it is on.
SweepInv ==
  /\ ChannelKept
  /\ InSweep /\ ~crossed => original = wanted
  /\ worker \in {"retune", "over"} /\ ~crossed => channel = wanted
  /\ worker = "over" /\ ~crossed /\ on => tuned = wanted

LEMMA SweepTypesKept == SweepTypeInv /\ [NextSweep]_sweepVars => SweepTypeInv'
<1> SUFFICES ASSUME SweepTypeInv, [NextSweep]_sweepVars
             PROVE  SweepTypeInv'
  OBVIOUS
<1> USE DEF SweepTypeInv, SweepTypeOK
<1>0. Order => orders' \in 0..MaxOrders
  BY SweepAssumption DEF Order
<1>1. CASE SetPower
  BY <1>0, <1>1 DEF SetPower, Apply, requests, sweepTask, sweepHistory
<1>2. CASE SetChannel
  BY <1>0, <1>2 DEF SetChannel, requests, sweepTask
<1>3. CASE StartScan
  BY <1>0, <1>3 DEF StartScan, Apply, Created, Places
<1>4. CASE StartSweep
  BY <1>0, <1>4 DEF StartSweep, Apply, Created, sweepHistory, Places
<1>5. CASE StopScan
  BY <1>0, <1>5 DEF StopScan, settings, sweepTask
<1>6. CASE Scanning
  BY <1>6 DEF Scanning, WorkerScans, settings, Places
<1>7. CASE SweepBegins
  BY <1>7, SweepAssumption DEF SweepBegins, settings, requests, sweepHistory, Channel, Places
<1>8. CASE SweepHops
  <2>1. hop <= Channels => hop \in Channel
    BY SweepAssumption DEF Channel
  <2> QED
    BY <2>1, <1>8 DEF SweepHops, requests, sweepHistory, Places
<1>9. CASE SweepDwells
  <2>1. hop \in Channel => hop + 1 \in 1..(Channels + 1)
    BY SweepAssumption DEF Channel
  <2> QED
    BY <2>1, <1>9 DEF SweepDwells, settings, requests, sweepHistory, Places
<1>10. CASE SweepRestores \/ SweepRetunes \/ SweepEnds
  BY <1>10 DEF SweepRestores, SweepRetunes, SweepEnds, settings, requests, sweepHistory, Places
<1>11. CASE UNCHANGED sweepVars
  BY <1>11 DEF sweepVars, settings, requests, sweepTask, sweepHistory
<1> QED
  BY <1>1, <1>2, <1>3, <1>4, <1>5, <1>6, <1>7, <1>8, <1>9, <1>10, <1>11 DEF NextSweep

\* Every variable of the radio keeps its type (hal_radio_s3.cpp): in particular the
\* driver is never tuned to a channel that does not exist.
THEOREM SweepTypes == SpecSweep => []SweepTypeOK
<1>1. InitSweep => SweepTypeInv
  <2>1. 1 \in Channel /\ 1 \in 1..(Channels + 1) /\ 0 \in 0..MaxOrders
    BY SweepAssumption DEF Channel
  <2> QED
    BY <2>1 DEF InitSweep, SweepTypeInv, SweepTypeOK, Places
<1>2. SweepTypeInv => SweepTypeOK
  BY DEF SweepTypeInv
<1> QED BY <1>1, <1>2, SweepTypesKept, PTL DEF SpecSweep

LEMMA ChannelStep == SweepInv /\ [NextSweep]_sweepVars => SweepInv'
<1> SUFFICES ASSUME SweepInv, [NextSweep]_sweepVars
             PROVE  SweepInv'
  OBVIOUS
<1> USE DEF SweepInv, ChannelKept, InSweep
<1>1. CASE SetPower
  BY <1>1 DEF SetPower, Apply, requests, sweepTask, sweepHistory
<1>2. CASE SetChannel
  BY <1>2 DEF SetChannel, requests, sweepTask
<1>3. CASE StartScan
  BY <1>3 DEF StartScan, Apply, Created
<1>4. CASE StartSweep
  BY <1>4 DEF StartSweep, Apply, Created, sweepHistory
<1>5. CASE StopScan
  BY <1>5 DEF StopScan, settings, sweepTask
<1>6. CASE Scanning
  BY <1>6 DEF Scanning, WorkerScans, settings
<1>7. CASE SweepBegins
  BY <1>7 DEF SweepBegins, settings, requests, sweepHistory
<1>8. CASE SweepHops
  BY <1>8 DEF SweepHops, requests, sweepHistory
<1>9. CASE SweepDwells
  BY <1>9 DEF SweepDwells, settings, requests, sweepHistory
<1>10. CASE SweepRestores
  BY <1>10 DEF SweepRestores, requests, sweepHistory
<1>11. CASE SweepRetunes
  BY <1>11 DEF SweepRetunes, requests, sweepHistory
<1>12. CASE SweepEnds
  BY <1>12 DEF SweepEnds, settings, sweepHistory
<1>13. CASE UNCHANGED sweepVars
  BY <1>13 DEF sweepVars, settings, requests, sweepTask, sweepHistory
<1> QED
  BY <1>1, <1>2, <1>3, <1>4, <1>5, <1>6, <1>7, <1>8, <1>9, <1>10, <1>11, <1>12, <1>13
  DEF NextSweep

\* Outside a sweep the radio and its driver are on the channel the user asked for, unless
\* it was asked for during one (radioScanWorkerTask, setChannel, setPower).
THEOREM UserKeepsChannel == SpecSweep => []ChannelKept
<1>1. InitSweep => SweepInv
  BY DEF InitSweep, SweepInv, ChannelKept, InSweep
<1>2. SweepInv => ChannelKept
  BY DEF SweepInv
<1> QED BY <1>1, <1>2, ChannelStep, PTL DEF SpecSweep
-----------------------------------------------------------------------------
\* The constants are numbers, and every file Lua loads consists of lines.
LEMMA DuckyNumbers ==
  /\ DelayTicks \in Nat /\ DefaultTicks \in Nat /\ MaxDuckCalls \in Nat /\ MaxEntries \in Nat
  /\ \A f \in Scripts : f \in Seq(DuckLine)
BY DuckyAssumption

\* What is left of a DELAY, when it counts, is never more than the interpreter waits for:
\* nobody who shortens the wait leaves the rest as it was.
DelayCounted == rest <= pending

DuckyCorrect == DuckyTypeOK /\ DelayCounted

LEMMA DuckyInitCorrect == InitDucky => DuckyCorrect
BY DuckyNumbers DEF InitDucky, DuckyCorrect, DuckyTypeOK, DelayCounted, DuckLine

\* The calls of a Lua script, which come between any two steps of the console.
LEMMA DuckyLuaStep ==
  ASSUME DuckyCorrect, LuaLoads \/ LuaLoadsNothing \/ LuaRuns \/ LuaStops \/ LuaPaces
  PROVE  DuckyCorrect'
<1> USE DuckyNumbers DEF DuckyCorrect, DuckyTypeOK, DelayCounted
<1>0. LuaCall => duckCalls' \in 0..MaxDuckCalls /\ UNCHANGED <<cli, taken, entries>>
  BY DEF LuaCall, console
<1>1. CASE LuaLoads
  BY <1>0, <1>1 DEF LuaLoads, LoadLines, Rewind
<1>2. CASE LuaLoadsNothing
  BY <1>0, <1>2 DEF LuaLoadsNothing, Rewind
<1>3. CASE LuaRuns
  BY <1>0, <1>3 DEF LuaRuns, RunLines, Rewind, interpreter
<1>4. CASE LuaStops
  BY <1>0, <1>4 DEF LuaStops, Rewind
<1>5. CASE LuaPaces
  BY <1>0, <1>5 DEF LuaPaces
<1> QED BY <1>1, <1>2, <1>3, <1>4, <1>5

\* The console, from the line entered to the end of its loop.
LEMMA DuckyConsoleStep ==
  ASSUME DuckyCorrect, CliLoads \/ CliStep
  PROVE  DuckyCorrect'
<1> USE DuckyNumbers DEF DuckyCorrect, DuckyTypeOK, DelayCounted
<1>1. CASE CliLoads
  <2>1. PICK l \in DuckLine : LoadLines(<<l>>)
    BY <1>1 DEF CliLoads
  <2>2. <<l>> \in Seq(DuckLine)
    OBVIOUS
  <2> QED BY <1>1, <2>1, <2>2 DEF CliLoads, LoadLines, Rewind
<1>2. CASE CliRuns
  BY <1>2 DEF CliRuns, RunLines, Rewind, interpreter
<1>3. CASE CliEnds
  BY <1>3 DEF CliEnds, interpreter
<1>4. CASE StepCompletes
  BY <1>4 DEF StepCompletes, console
<1>5. CASE StepTakes
  BY <1>5 DEF StepTakes, Due
<1>6. CASE StepExecutes
  BY <1>6 DEF StepExecutes
<1> QED BY <1>1, <1>2, <1>3, <1>4, <1>5, <1>6 DEF CliStep

LEMMA DuckyStepCorrect == DuckyCorrect /\ [NextDucky]_duckyVars => DuckyCorrect'
<1> SUFFICES ASSUME DuckyCorrect, [NextDucky]_duckyVars PROVE DuckyCorrect'
  OBVIOUS
<1>1. CASE Lapses
  BY <1>1, DuckyNumbers DEF Lapses, console, DuckyCorrect, DuckyTypeOK, DelayCounted
<1>2. CASE UNCHANGED duckyVars
  BY <1>2 DEF duckyVars, interpreter, console, DuckyCorrect, DuckyTypeOK, DelayCounted
<1> QED BY <1>1, <1>2, DuckyLuaStep, DuckyConsoleStep DEF NextDucky

LEMMA DuckyIsCorrect == SpecDucky => []DuckyCorrect
<1> QED BY DuckyInitCorrect, DuckyStepCorrect, PTL DEF SpecDucky

\* Every member of the interpreter keeps its type, whatever the Lua script and the console
\* call in between: above all, no more lines are taken than there are (step).
THEOREM DuckyTypes == SpecDucky => []DuckyTypeOK
<1>1. DuckyCorrect => DuckyTypeOK
  BY DEF DuckyCorrect
<1> QED BY <1>1, DuckyIsCorrect, PTL

\* A DELAY of any length is waited for before the next line is taken, whoever has stopped,
\* loaded and run scripts meanwhile, unless a default delay was in force (step, run, stop).
THEOREM DelaysAreKept == SpecDucky => DelaysKept
<1>1. DuckyCorrect /\ [NextDucky]_duckyVars => [(current' = current + 1) => rest = 0]_duckyVars
  <2> SUFFICES ASSUME DuckyCorrect, NextDucky, current' = current + 1
               PROVE  rest = 0
    OBVIOUS
  <2>1. current \in Nat /\ rest \in Nat /\ rest <= pending
    BY DuckyNumbers DEF DuckyCorrect, DuckyTypeOK, DelayCounted
  <2>2. current' # 0 /\ current' # current
    BY <2>1
  <2>3. StepTakes
    BY <2>2 DEF NextDucky, LuaLoads, LuaLoadsNothing, LuaRuns, LuaStops, LuaPaces, CliLoads,
      CliStep, CliRuns, CliEnds, StepCompletes, StepExecutes, Lapses, LoadLines, RunLines,
      Rewind, interpreter
  <2> QED BY <2>1, <2>3 DEF StepTakes, Due
<1> QED BY <1>1, DuckyIsCorrect, PTL DEF SpecDucky, DelaysKept
-----------------------------------------------------------------------------
\* A list of stations, whatever made it.
Lists ==
  [id : [kind : {"fav", "pl", "imp", "m3u"}, n : 0..MaxLists],
   default : BOOLEAN, stations : Seq(Urls)]

\* Lists that begin, if there is any, with Favoritos, which is protected.
FavouritesFirst(ls) == ls \in Seq(Lists) /\ (ls # <<>> => ls[1].id = Fav /\ ls[1].default)

\* What a cut or failed save leaves in the file begins with Favoritos, so that the next
\* boot reads it first; and while the board is on there is a list.
ListsCorrect ==
  /\ powered \in BOOLEAN
  /\ FavouritesFirst(lists) /\ FavouritesFirst(flash)
  /\ IF powered THEN lists # <<>> ELSE lists = <<>>

LEMMA ListNumbers == MaxLists \in Nat /\ FirstStations \in Seq(Urls)
BY PlaylistsAssumption

\* A non-empty set of numbers has a least one.
LEMMA Least ==
  ASSUME NEW S, S \subseteq Nat, S # {}
  PROVE  \E k \in S : \A j \in S : k <= j
<1> DEFINE Less == OpToRel(<, Nat)
<1>1. PICK k \in S : \A j \in S : <<j, k>> \notin Less
  <2> HIDE DEF Less
  <2>1. IsWellFoundedOn(Less, Nat)
    BY NatLessThanWellFounded, Zenon DEF Less
  <2> QED BY <2>1, WFMin
<1>2. \A j \in S : ~(j < k)
  BY <1>1, Zenon DEF OpToRel
<1> HIDE DEF Less
<1> QED BY <1>2

\* What a list is made of.
LEMMA ListFields ==
  \A l \in Lists :
    /\ l.id \in [kind : {"fav", "pl", "imp", "m3u"}, n : 0..MaxLists]
    /\ l.id.kind \in {"fav", "pl", "imp", "m3u"} /\ l.id.n \in 0..MaxLists
    /\ l.default \in BOOLEAN /\ l.stations \in Seq(Urls)
    /\ l = List(l.id, l.default, l.stations)
BY DEF Lists, List

LEMMA ListMade ==
  ASSUME NEW id \in [kind : {"fav", "pl", "imp", "m3u"}, n : 0..MaxLists],
         NEW default \in BOOLEAN, NEW stations \in Seq(Urls)
  PROVE  /\ List(id, default, stations) \in Lists
         /\ List(id, default, stations).id = id
         /\ List(id, default, stations).default = default
BY DEF Lists, List

\* First names a list that there is, and that has the id.
LEMMA FirstIsThere ==
  ASSUME lists \in Seq(Lists), NEW i \in DOMAIN lists
  PROVE  LET k == First(lists[i].id) IN k \in DOMAIN lists /\ lists[k].id = lists[i].id
<1> DEFINE Same == {j \in DOMAIN lists : lists[j].id = lists[i].id}
<1>1. Same \subseteq Nat /\ Same # {}
  OBVIOUS
<1>2. PICK k \in Same : \A j \in Same : k <= j
  BY <1>1, Least
<1>3. \A j \in 1..(k - 1) : j \in DOMAIN lists /\ ~(k <= j)
  BY <1>2
<1>4. \A j \in 1..(k - 1) : lists[j].id # lists[i].id
  BY <1>2, <1>3
<1> QED BY <1>2, <1>4 DEF First

\* The first k of such lists are such lists.
LEMMA PrefixKept ==
  ASSUME NEW ls, FavouritesFirst(ls), NEW k \in 0..Len(ls)
  PROVE  /\ FavouritesFirst(SubSeq(ls, 1, k)) /\ Len(SubSeq(ls, 1, k)) = k
         /\ \A i \in 1..k : SubSeq(ls, 1, k)[i] = ls[i]
<1>1. ls \in Seq(Lists) /\ \A i \in 1..k : ls[i] \in Lists
  BY DEF FavouritesFirst
<1>2. PICK s : s = SubSeq(ls, 1, k)
  OBVIOUS
<1>3. s \in Seq(Lists) /\ Len(s) = k /\ \A i \in 1..k : s[i] = ls[i]
  BY <1>1, <1>2, SubSeqProperties
<1>4. s # <<>> => 1 \in 1..k /\ ls # <<>>
  BY <1>1, <1>3
<1>5. FavouritesFirst(s)
  BY <1>3, <1>4 DEF FavouritesFirst
<1> QED BY <1>2, <1>3, <1>5

\* One more list leaves the first where it is, if there is one.
LEMMA AppendKept ==
  ASSUME NEW ls, FavouritesFirst(ls), NEW l \in Lists, ls = <<>> => l.id = Fav /\ l.default
  PROVE  FavouritesFirst(Append(ls, l)) /\ Append(ls, l) # <<>>
<1>1. PICK s : s = Append(ls, l)
  OBVIOUS
<1>2. /\ ls \in Seq(Lists) /\ s \in Seq(Lists) /\ Len(s) = Len(ls) + 1 /\ s[Len(ls) + 1] = l
      /\ \A i \in 1..Len(ls) : s[i] = ls[i]
  BY <1>1 DEF FavouritesFirst
<1>3. s # <<>>
  BY <1>2
<1>4. CASE ls = <<>>
  BY <1>2, <1>4 DEF FavouritesFirst
<1>5. CASE ls # <<>>
  BY <1>2, <1>5 DEF FavouritesFirst
<1> QED BY <1>1, <1>3, <1>4, <1>5

\* What is read of a list that is there in part is a list: of Favoritos, it is Favoritos.
LEMMA PartsKept ==
  ASSUME NEW l \in Lists, NEW p \in Parts(l)
  PROVE  p \in Lists /\ (l.id = Fav /\ l.default => p.id = Fav /\ p.default)
<1>1. Fav \in [kind : {"fav", "pl", "imp", "m3u"}, n : 0..MaxLists]
  BY ListNumbers DEF Fav
<1>2. l.id \in [kind : {"fav", "pl", "imp", "m3u"}, n : 0..MaxLists] /\ l.default \in BOOLEAN
      /\ l.stations \in Seq(Urls) /\ <<>> \in Seq(Urls)
  BY ListFields
<1>3. CASE p \in {List(Fav, TRUE, <<>>), List(l.id, TRUE, <<>>)}
  <2>1. PICK id \in {Fav, l.id} : p = List(id, TRUE, <<>>)
    BY <1>3
  <2>2. /\ List(id, TRUE, <<>>) \in Lists /\ List(id, TRUE, <<>>).id = id
        /\ List(id, TRUE, <<>>).default = TRUE
    BY <1>1, <1>2, ListMade
  <2> QED BY <2>1, <2>2
<1>4. CASE \E k \in 0..Len(l.stations) : p = List(l.id, l.default, SubSeq(l.stations, 1, k))
  <2>1. PICK k \in 0..Len(l.stations) : p = List(l.id, l.default, SubSeq(l.stations, 1, k))
    BY <1>4
  <2>2. SubSeq(l.stations, 1, k) \in Seq(Urls)
    <3>1. \A i \in 1..k : l.stations[i] \in Urls
      BY <1>2
    <3> QED BY <3>1, SubSeqProperties
  <2> QED BY <1>2, <2>1, <2>2, ListMade
<1> QED BY <1>3, <1>4 DEF Parts

\* Wherever the power is cut in a save, what is left begins with Favoritos.
LEMMA CutsKept ==
  ASSUME NEW ls, FavouritesFirst(ls), NEW cut \in Cuts(ls)
  PROVE  FavouritesFirst(cut)
<1>1. CASE cut \in {SubSeq(ls, 1, k) : k \in 0..Len(ls)}
  BY <1>1, PrefixKept
<1>2. CASE \E k \in DOMAIN ls : cut \in {Append(SubSeq(ls, 1, k - 1), p) : p \in Parts(ls[k])}
  <2>0. PICK k \in DOMAIN ls : cut \in {Append(SubSeq(ls, 1, k - 1), p) : p \in Parts(ls[k])}
    BY <1>2
  <2>1. PICK p \in Parts(ls[k]) : cut = Append(SubSeq(ls, 1, k - 1), p)
    BY <2>0
  <2>2. ls \in Seq(Lists) /\ k \in 1..Len(ls) /\ ls[k] \in Lists /\ ls # <<>>
    BY <2>1 DEF FavouritesFirst
  <2>3. PICK s : s = SubSeq(ls, 1, k - 1)
    OBVIOUS
  <2>4. FavouritesFirst(s) /\ Len(s) = k - 1
    <3>1. k - 1 \in 0..Len(ls)
      BY <2>2
    <3> QED BY <2>3, <3>1, PrefixKept
  <2>5. p \in Lists /\ (ls[k].id = Fav /\ ls[k].default => p.id = Fav /\ p.default)
    BY <2>1, <2>2, PartsKept
  <2>6. s = <<>> => k = 1
    BY <2>2, <2>4
  <2>7. s = <<>> => p.id = Fav /\ p.default
    BY <2>2, <2>5, <2>6 DEF FavouritesFirst
  <2> QED BY <2>1, <2>3, <2>4, <2>5, <2>7, AppendKept
<1> QED BY <1>1, <1>2 DEF Cuts

\* A save leaves the invariant, whether it is done, fails or is cut.
LEMMA SaveKept ==
  ASSUME ListsCorrect, NEW ls, FavouritesFirst(ls), ls # <<>>, Save(ls)
  PROVE  ListsCorrect'
<1>0. /\ FavouritesFirst(flash)
      /\ \A cut \in Cuts(ls) : FavouritesFirst(cut)
  BY CutsKept DEF ListsCorrect
<1>1. CASE lists' = ls /\ flash' = ls /\ powered' = TRUE
  BY <1>1 DEF ListsCorrect, FavouritesFirst
<1>3. CASE lists' = ls /\ flash' \in {flash} \cup Cuts(ls) /\ powered' = TRUE
  <2>1. PICK now : now = flash'
    OBVIOUS
  <2>2. FavouritesFirst(now)
    BY <1>0, <1>3, <2>1
  <2>3. /\ FavouritesFirst(lists') /\ FavouritesFirst(flash')
        /\ lists' # <<>> /\ powered' \in BOOLEAN /\ powered'
    BY <1>3, <2>1, <2>2
  <2> QED BY <2>3, Zenon DEF ListsCorrect, FavouritesFirst
<1>2. CASE lists' = <<>> /\ flash' \in Cuts(ls) /\ powered' = FALSE
  <2>1. PICK cut : cut = flash'
    OBVIOUS
  <2>2. FavouritesFirst(cut)
    BY <1>2, <2>1, CutsKept
  <2>3. FavouritesFirst(<<>>)
    BY DEF FavouritesFirst
  <2>4. /\ FavouritesFirst(lists') /\ FavouritesFirst(flash')
        /\ lists' = <<>> /\ powered' \in BOOLEAN /\ ~powered'
    BY <1>2, <2>1, <2>2, <2>3
  <2> QED BY <2>4, Zenon DEF ListsCorrect, FavouritesFirst
<1> QED BY <1>1, <1>2, <1>3 DEF Save

LEMMA DefaultsCorrect == FavouritesFirst(Defaults) /\ Defaults # <<>>
<1>1. List(Fav, TRUE, FirstStations) \in Lists
  BY ListNumbers DEF List, Lists, Fav
<1> QED BY <1>1 DEF Defaults, FavouritesFirst, List

\* A list of other stations is the same list.
LEMMA ChangedKept ==
  ASSUME ListsCorrect, powered, NEW k \in DOMAIN lists, NEW st \in Seq(Urls), Changed(k, st)
  PROVE  ListsCorrect'
<1>1. PICK ls : ls = [lists EXCEPT ![k].stations = st]
  OBVIOUS
<1>2. lists \in Seq(Lists) /\ lists # <<>> /\ lists[1].id = Fav /\ lists[1].default
  BY DEF ListsCorrect, FavouritesFirst
<1>3. lists[k] \in Lists /\ [lists[k] EXCEPT !.stations = st] \in Lists
  <2>1. PICK l \in Lists : l = lists[k]
    BY <1>2
  <2>2. [l EXCEPT !.stations = st] = List(l.id, l.default, st)
    BY ListFields DEF List
  <2> QED BY <2>1, <2>2, ListFields, ListMade
<1>4. ls \in Seq(Lists) /\ Len(ls) = Len(lists)
  BY <1>1, <1>2, <1>3
<1>5. ls[1].id = lists[1].id /\ ls[1].default = lists[1].default
  <2>1. 1 \in DOMAIN lists /\ lists[1] \in Lists
    BY <1>2
  <2>2. CASE k = 1
    BY <1>1, <2>1, <2>2 DEF Lists
  <2>3. CASE k # 1
    BY <1>1, <2>1, <2>3
  <2> QED BY <2>2, <2>3
<1>6. FavouritesFirst(ls) /\ ls # <<>>
  BY <1>2, <1>4, <1>5 DEF FavouritesFirst
<1> QED BY <1>1, <1>6, SaveKept DEF Changed

\* What is left when one cell is taken out of a sequence.
LEMMA RemoveAtKept ==
  ASSUME NEW S, NEW s \in Seq(S), NEW k \in 1..Len(s)
  PROVE  /\ RemoveAt(s, k) \in Seq(S)
         /\ k # 1 => RemoveAt(s, k) # <<>> /\ RemoveAt(s, k)[1] = s[1]
<1>1. PICK b : b = SubSeq(s, 1, k - 1)
  OBVIOUS
<1>2. PICK a : a = SubSeq(s, k + 1, Len(s))
  OBVIOUS
<1>3. b \in Seq(S) /\ Len(b) = k - 1 /\ \A i \in 1..(k - 1) : b[i] = s[i]
  <2>1. \A i \in 1..(k - 1) : s[i] \in S
    OBVIOUS
  <2>2. k - 1 \in Int /\ (1 <= k - 1 \/ k - 1 = 0)
    OBVIOUS
  <2>3. /\ SubSeq(s, 1, k - 1) \in Seq(S)
        /\ Len(SubSeq(s, 1, k - 1)) = IF 1 <= k - 1 THEN (k - 1) - 1 + 1 ELSE 0
        /\ \A i \in 1..((k - 1) - 1 + 1) : SubSeq(s, 1, k - 1)[i] = s[1 + i - 1]
    BY <2>1, <2>2, SubSeqProperties
  <2> QED BY <1>1, <2>2, <2>3
<1>4. a \in Seq(S)
  <2>1. \A i \in (k + 1)..Len(s) : s[i] \in S
    OBVIOUS
  <2> QED BY <1>2, <2>1, SubSeqProperties
<1>5. PICK r : r = RemoveAt(s, k)
  OBVIOUS
<1>6. r = b \o a
  BY <1>1, <1>2, <1>5 DEF RemoveAt
<1>7. r \in Seq(S) /\ Len(r) = Len(b) + Len(a) /\ \A i \in 1..Len(b) : r[i] = b[i]
  BY <1>3, <1>4, <1>6
<1>8. k # 1 => r # <<>> /\ r[1] = s[1]
  BY <1>3, <1>4, <1>7
<1> QED BY <1>5, <1>7, <1>8

LEMMA CreateKept == ListsCorrect /\ Create => ListsCorrect'
<1> SUFFICES ASSUME ListsCorrect, Create PROVE ListsCorrect'
  OBVIOUS
<1>1. FavouritesFirst(lists) /\ lists # <<>> /\ Len(lists) + 1 \in 0..MaxLists
  BY ListNumbers DEF ListsCorrect, FavouritesFirst, Create
<1>2. PICK l \in Lists : Save(Append(lists, l))
  <2> DEFINE n == Len(lists) + 1
  <2>1. CASE Save(Append(lists, List([kind |-> "pl", n |-> n], FALSE, <<>>)))
    <3>1. List([kind |-> "pl", n |-> n], FALSE, <<>>) \in Lists
      BY <1>1 DEF List, Lists
    <3> QED BY <2>1, <3>1
  <2>2. CASE \E how \in {"imp", "m3u"}, u \in Urls :
               Save(Append(lists, List([kind |-> how, n |-> n], FALSE, <<u>>)))
    <3>1. PICK how \in {"imp", "m3u"}, u \in Urls :
            Save(Append(lists, List([kind |-> how, n |-> n], FALSE, <<u>>)))
      BY <2>2
    <3>2. List([kind |-> how, n |-> n], FALSE, <<u>>) \in Lists
      BY <1>1 DEF List, Lists
    <3> QED BY <3>1, <3>2
  <2> QED BY <2>1, <2>2 DEF Create
<1>3. FavouritesFirst(Append(lists, l)) /\ Append(lists, l) # <<>>
  BY <1>1, AppendKept
<1> QED BY <1>2, <1>3, SaveKept

\* The list that is deleted is not protected, so it is not the first one.
LEMMA DeleteKept == ListsCorrect /\ powered /\ Delete => ListsCorrect'
<1> SUFFICES ASSUME ListsCorrect, powered, Delete PROVE ListsCorrect'
  OBVIOUS
<1>1. lists \in Seq(Lists) /\ lists # <<>> /\ lists[1].id = Fav /\ lists[1].default
  BY DEF ListsCorrect, FavouritesFirst
<1>2. PICK i \in DOMAIN lists :
        ~lists[First(lists[i].id)].default /\ Save(RemoveAt(lists, First(lists[i].id)))
  BY DEF Delete
<1>3. PICK k : k = First(lists[i].id)
  OBVIOUS
<1>4. k \in 1..Len(lists) /\ k # 1
  BY <1>1, <1>2, <1>3, FirstIsThere
<1>5. /\ RemoveAt(lists, k) \in Seq(Lists)
      /\ RemoveAt(lists, k) # <<>> /\ RemoveAt(lists, k)[1] = lists[1]
  BY <1>1, <1>4, RemoveAtKept
<1>6. FavouritesFirst(RemoveAt(lists, k))
  BY <1>1, <1>5 DEF FavouritesFirst
<1> QED BY <1>2, <1>3, <1>5, <1>6, SaveKept

LEMMA StationsKept == ListsCorrect /\ powered /\ (AddStation \/ RemoveStation) => ListsCorrect'
<1> SUFFICES ASSUME ListsCorrect, powered, AddStation \/ RemoveStation PROVE ListsCorrect'
  OBVIOUS
<1>0. lists \in Seq(Lists)
  BY DEF ListsCorrect, FavouritesFirst
<1>1. \A i \in DOMAIN lists : lists[i].stations \in Seq(Urls)
  <2>1. \A i \in DOMAIN lists : lists[i] \in Lists
    BY <1>0
  <2> QED BY <2>1, ListFields
<1>2. CASE AddStation
  <2>1. PICK i \in DOMAIN lists, u \in Urls :
          LET k == First(lists[i].id) IN Changed(k, Append(lists[k].stations, u))
    BY <1>2 DEF AddStation
  <2>2. First(lists[i].id) \in DOMAIN lists
    BY <1>0, FirstIsThere
  <2>3. Append(lists[First(lists[i].id)].stations, u) \in Seq(Urls)
    BY <1>1, <2>2
  <2> QED BY <2>1, <2>2, <2>3, ChangedKept
<1>3. CASE RemoveStation
  <2>1. PICK i \in DOMAIN lists : \E s \in DOMAIN lists[i].stations :
          LET k == First(lists[i].id)
          IN s <= Len(lists[k].stations) /\ Changed(k, RemoveAt(lists[k].stations, s))
    BY <1>3 DEF RemoveStation
  <2>2. PICK k : k = First(lists[i].id)
    OBVIOUS
  <2>3. PICK s \in DOMAIN lists[i].stations :
          s <= Len(lists[k].stations) /\ Changed(k, RemoveAt(lists[k].stations, s))
    BY <2>1, <2>2
  <2>4. k \in DOMAIN lists
    BY <1>0, <2>2, FirstIsThere
  <2>5. lists[k].stations \in Seq(Urls) /\ lists[i].stations \in Seq(Urls)
    BY <1>1, <2>4
  <2>6. s \in 1..Len(lists[k].stations)
    BY <2>3, <2>5
  <2>7. RemoveAt(lists[k].stations, s) \in Seq(Urls)
    BY <2>5, <2>6, RemoveAtKept
  <2> QED BY <2>3, <2>4, <2>7, ChangedKept
<1> QED BY <1>2, <1>3

LEMMA ListsStep == ListsCorrect /\ [NextPlaylists]_playlistVars => ListsCorrect'
<1> SUFFICES ASSUME ListsCorrect, [NextPlaylists]_playlistVars PROVE ListsCorrect'
  OBVIOUS
<1>1. CASE Boot
  <2>1. CASE flash = <<>>
    BY <1>1, <2>1, DefaultsCorrect, SaveKept DEF Boot
  <2>2. CASE flash # <<>>
    BY <1>1, <2>2 DEF Boot, ListsCorrect, FavouritesFirst
  <2> QED BY <2>1, <2>2
<1>2. CASE Create
  BY <1>2, CreateKept
<1>3. CASE Delete \/ AddStation \/ RemoveStation
  \* While the board is off there are no lists, so there is nothing to choose from.
  <2>1. powered
    BY <1>3 DEF Delete, AddStation, RemoveStation, ListsCorrect
  <2> QED BY <1>3, <2>1, DeleteKept, StationsKept
<1>4. CASE UNCHANGED playlistVars
  BY <1>4 DEF playlistVars, ListsCorrect, FavouritesFirst
<1>5. CASE PowerCut
  <2>1. lists' = <<>> /\ ~powered' /\ flash' = flash
    BY <1>5 DEF PowerCut
  <2>2. FavouritesFirst(<<>>)
    BY DEF FavouritesFirst
  <2>3. powered' \in BOOLEAN /\ ~powered'
    BY <1>5 DEF PowerCut
  <2> QED BY <2>1, <2>2, <2>3 DEF ListsCorrect, FavouritesFirst
<1> QED BY <1>1, <1>2, <1>3, <1>4, <1>5 DEF NextPlaylists

LEMMA ListsAreCorrect == SpecPlaylists => []ListsCorrect
<1>1. InitPlaylists => ListsCorrect
  BY DefaultsCorrect DEF InitPlaylists, ListsCorrect
<1> QED BY <1>1, ListsStep, PTL DEF SpecPlaylists

\* Every list that is in memory or would be read from the file is one, however often a
\* save failed or the power was cut (deserializePlaylistsFromMsgPack).
THEOREM PlaylistsTypes == SpecPlaylists => []PlaylistsTypeOK
<1>1. ASSUME ListsCorrect PROVE PlaylistsTypeOK
  <2>1. powered \in BOOLEAN /\ \A ls \in {lists, flash} : ls \in Seq(Lists)
    BY <1>1 DEF ListsCorrect, FavouritesFirst
  <2>2. \A ls \in {lists, flash} : \A i \in DOMAIN ls : ls[i] \in Lists
    BY <2>1
  <2> QED BY <2>1, <2>2, ListFields DEF PlaylistsTypeOK
<1> QED BY <1>1, ListsAreCorrect, PTL

\* Whatever was done, and wherever the power was cut, the first list is Favoritos, and
\* protected (the constructor of RadioPlaylist, deserializePlaylistsFromMsgPack,
\* deletePlaylist).
THEOREM FavouritesStayFirst == SpecPlaylists => []FirstIsFavourites
<1>1. ListsCorrect => FirstIsFavourites
  BY DEF ListsCorrect, FavouritesFirst, FirstIsFavourites
<1> QED BY <1>1, ListsAreCorrect, PTL

-----------------------------------------------------------------------------
\* A step of one component is a step or a stutter of each.
LEMMA ProgramsStep ==
  [NextPrograms]_programsVars =>
    /\ [NextPlayer]_playerVars /\ [NextRecorder]_recorderVars /\ [NextRunner]_runnerVars
    /\ [NextDucky]_duckyVars /\ [NextPlaylists]_playlistVars /\ [NextSweep]_sweepVars
    /\ [NextKey]_keyVars /\ focus' = focus
<1> SUFFICES ASSUME [NextPrograms]_programsVars
             PROVE  /\ [NextPlayer]_playerVars /\ [NextRecorder]_recorderVars
                    /\ [NextRunner]_runnerVars /\ [NextDucky]_duckyVars
                    /\ [NextPlaylists]_playlistVars /\ [NextSweep]_sweepVars
                    /\ [NextKey]_keyVars /\ focus' = focus
  OBVIOUS
<1>1. CASE PlayerSteps
  BY <1>1 DEF PlayerSteps
<1>2. CASE RecorderSteps
  BY <1>2 DEF RecorderSteps
<1>3. CASE RunnerSteps
  BY <1>3 DEF RunnerSteps
<1>4. CASE DuckySteps
  BY <1>4 DEF DuckySteps
<1>5. CASE PlaylistsSteps
  BY <1>5 DEF PlaylistsSteps
<1>6. CASE SweepSteps
  BY <1>6 DEF SweepSteps
<1>7. CASE KeySteps
  BY <1>7 DEF KeySteps
<1>8. CASE UNCHANGED programsVars
  BY <1>8 DEF programsVars
<1> QED BY <1>1, <1>2, <1>3, <1>4, <1>5, <1>6, <1>7, <1>8 DEF NextPrograms

\* What runs on a board by itself is each of its components: whatever is proved of one of
\* them, from its own specification, holds in the composition.
THEOREM ProgramsImplement ==
  SpecPrograms =>
    /\ SpecPlayer /\ SpecRecorder /\ SpecRunner /\ SpecDucky /\ SpecPlaylists
    /\ SpecSweep /\ SpecKey
<1>1. InitPrograms =>
        /\ InitPlayer /\ InitRecorder /\ InitRunner /\ InitDucky /\ InitPlaylists
        /\ InitSweep /\ InitKey
  BY DEF InitPrograms
<1> QED
  BY <1>1, ProgramsStep, PTL
  DEF SpecPrograms, SpecPlayer, SpecRecorder, SpecRunner, SpecDucky, SpecPlaylists, SpecSweep,
    SpecKey

\* Every variable of every component keeps its type in the composition.
THEOREM ProgramsTypes == SpecPrograms => []ProgramsTypeOK
<1>1. SpecPrograms => [](focus \in Focuses)
  <2>1. InitPrograms => focus \in Focuses
    BY DEF InitPrograms
  <2>2. focus \in Focuses /\ [NextPrograms]_programsVars => (focus \in Focuses)'
    BY ProgramsStep
  <2> QED BY <2>1, <2>2, PTL DEF SpecPrograms
<1>2. /\ focus \in Focuses /\ PlayerTypeOK /\ RecorderTypeOK /\ RunnerTypeOK /\ DuckyTypeOK
      /\ PlaylistsTypeOK /\ SweepTypeOK /\ KeyTypeOK
      => ProgramsTypeOK
  BY DEF ProgramsTypeOK
<1> QED
  BY <1>1, <1>2, ProgramsImplement, PlayerTypes, RecorderTypes, RunnerTypes, DuckyTypes,
    PlaylistsTypes, SweepTypes, KeyTypes, PTL

\* Every safety property of a component holds in the composition, for every value of the
\* constants, but those of the player, which need the premise of one caller.
THEOREM ProgramsSafe ==
  SpecPrograms =>
    /\ [](RecordingBacked /\ OneTake /\ HeaderFaithful)
    /\ [](OneScript /\ InterfaceRestored)
    /\ [](FirstIsFavourites /\ ChannelKept)
    /\ [](PinBudget /\ CredentialsKept /\ CountsGrow)
    /\ DelaysKept
BY ProgramsImplement, RecordingNeverSticks, OneTakeAtATime, HeadersTellTheTruth,
  OneScriptAtATime, InterfaceComesBack, FavouritesStayFirst, UserKeepsChannel, PinIsBudgeted,
  CredentialsStay, CountsOnlyGrow, DelaysAreKept, PTL
=============================================================================
