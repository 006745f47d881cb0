------------------------------- MODULE Ducky --------------------------------
(***************************************************************************)
(* The DuckyScript interpreter (core/src/hid/DuckyInterpreter.cpp), one    *)
(* object for all.  A script makes progress by calls of step alone.  The   *)
(* serial console loads a line, runs it and steps until nothing is running *)
(* (hal_hid_p4.cpp); a Lua script loads, runs, asks and stops              *)
(* (LuaBridge.cpp), and steps nothing.                                     *)
(*                                                                         *)
(* A line is "type" (STRING, keys, REPEAT), "delay" (DELAY) or "default"   *)
(* (DEFAULT_DELAY).  Each call is one step, but for step itself, which     *)
(* takes a line and then executes it.  Nobody calls pause and resume.      *)
(***************************************************************************)
EXTENDS Naturals, Sequences

CONSTANTS
  Scripts,       \* the files Lua loads: sequences of lines
  DelayTicks,    \* the length of a DELAY
  DefaultTicks,  \* that of a DEFAULT_DELAY, and of set_default_delay
  MaxDuckCalls,  \* bound: the calls of the Lua script
  MaxEntries     \* bound: the lines entered at the console

DuckLine == {"type", "delay", "default"}

ASSUME DuckyAssumption ==
  /\ \A f \in Scripts : f \in Seq(DuckLine)
  /\ DelayTicks \in Nat /\ DefaultTicks \in Nat
  /\ MaxDuckCalls \in Nat /\ MaxEntries \in Nat

VARIABLES
  lines,      \* m_lines
  current,    \* m_currentLine: the number of lines taken
  duckState,  \* m_state
  pace,       \* m_defaultDelayMs
  pending,    \* how far m_delayUntilMs is ahead of the clock
  cli,        \* where the console is
  taken,      \* the line step executes
  duckCalls,  \* the calls of the Lua script so far
  entries,    \* the lines entered so far
  rest        \* history: what is left of a DELAY, if no default delay was in force

interpreter == <<lines, current, duckState, pace, pending>>
console == <<cli, taken, entries>>
duckyVars == <<interpreter, console, duckCalls, rest>>
-----------------------------------------------------------------------------
InitDucky ==
  /\ lines = <<>> /\ current = 0 /\ duckState = "idle" /\ pace = 0 /\ pending = 0
  /\ cli = "reading" /\ taken = "type" /\ entries = 0 /\ duckCalls = 0 /\ rest = 0

\* stop, and the part of loadScript and loadFromString that follows it.
Rewind == current' = 0 /\ pending' = 0 /\ rest' = 0
LoadLines(text) == Rewind /\ lines' = text /\ duckState' = "idle" /\ UNCHANGED pace

\* run, with anything loaded.
RunLines ==
  IF lines = <<>> THEN UNCHANGED <<interpreter, rest>>
  ELSE Rewind /\ duckState' = "running" /\ UNCHANGED <<lines, pace>>

LuaCall == duckCalls < MaxDuckCalls /\ duckCalls' = duckCalls + 1 /\ UNCHANGED console

LuaLoads == LuaCall /\ \E text \in Scripts : LoadLines(text)

\* loadScript of a file that is not there.
LuaLoadsNothing ==
  LuaCall /\ Rewind /\ lines' = <<>> /\ duckState' = "error" /\ UNCHANGED pace

LuaRuns == LuaCall /\ RunLines

LuaStops == LuaCall /\ Rewind /\ duckState' = "idle" /\ UNCHANGED <<lines, pace>>

LuaPaces ==
  LuaCall /\ pace' \in {0, DefaultTicks} /\ UNCHANGED <<lines, current, duckState, pending, rest>>
-----------------------------------------------------------------------------
\* "ducky: ..." at the console: loadFromString, then run, then the loop.
CliLoads ==
  /\ cli = "reading" /\ entries < MaxEntries
  /\ cli' = "loaded" /\ entries' = entries + 1
  /\ \E l \in DuckLine : LoadLines(<<l>>)
  /\ UNCHANGED <<taken, duckCalls>>

CliRuns ==
  /\ cli = "loaded" /\ cli' = "loop" /\ RunLines
  /\ UNCHANGED <<taken, entries, duckCalls>>

CliEnds ==
  /\ cli = "loop" /\ duckState # "running" /\ cli' = "reading"
  /\ UNCHANGED <<interpreter, taken, entries, duckCalls, rest>>

Due == cli = "loop" /\ duckState = "running" /\ pending = 0

\* Mutant of StepCompletes: the last line is waited for, not passed.
StepCompletesLate ==
  /\ Due /\ current > Len(lines)
  /\ duckState' = "completed"
  /\ UNCHANGED <<lines, current, pace, pending, console, duckCalls, rest>>

\* step, when no line is left ...
StepCompletes ==
  /\ Due /\ current >= Len(lines)
  /\ duckState' = "completed"
  /\ UNCHANGED <<lines, current, pace, pending, console, duckCalls, rest>>

\* ... and when there is one: it is taken,
StepTakes ==
  /\ Due /\ current < Len(lines)
  /\ taken' = lines[current + 1] /\ current' = current + 1 /\ cli' = "line"
  /\ UNCHANGED <<lines, duckState, pace, pending, entries, duckCalls, rest>>

\* Mutant of StepExecutes: the default delay is set when it is 0, too.
StepExecutesPaced ==
  /\ cli = "line" /\ cli' = "loop"
  /\ pace' = IF taken = "default" THEN DefaultTicks ELSE pace
  /\ pending' = IF duckState = "running" THEN pace' ELSE pending
  /\ rest' = IF taken = "delay" /\ pace = 0 THEN DelayTicks ELSE 0
  /\ UNCHANGED <<lines, current, duckState, taken, entries, duckCalls>>

\* and executed; a default delay takes the place of a delay the line has set.  The
\* script may have been stopped, or another one loaded, since the line was taken.
StepExecutes ==
  /\ cli = "line" /\ cli' = "loop"
  /\ pace' = IF taken = "default" THEN DefaultTicks ELSE pace
  /\ pending' = IF pace' > 0 /\ duckState = "running" THEN pace'
                ELSE IF taken = "delay" THEN DelayTicks ELSE pending
  /\ rest' = IF taken = "delay" /\ pace = 0 THEN DelayTicks ELSE 0
  /\ UNCHANGED <<lines, current, duckState, taken, entries, duckCalls>>

Lapses ==
  /\ pending > 0 /\ pending' = pending - 1
  /\ rest' = IF rest = 0 THEN 0 ELSE rest - 1
  /\ UNCHANGED <<lines, current, duckState, pace, console, duckCalls>>

CliStep == CliRuns \/ CliEnds \/ StepCompletes \/ StepTakes \/ StepExecutes

NextDucky ==
  \/ LuaLoads \/ LuaLoadsNothing \/ LuaRuns \/ LuaStops \/ LuaPaces
  \/ CliLoads \/ CliStep \/ Lapses

SpecDucky == InitDucky /\ [][NextDucky]_duckyVars

\* The console's task runs and time passes.
FairDucky == SpecDucky /\ WF_duckyVars(CliStep) /\ WF_duckyVars(Lapses)
-----------------------------------------------------------------------------
(* Properties *)

\* Every variable has the type of the member it stands for.
DuckyTypeOK ==
  /\ lines \in Seq(DuckLine) /\ current \in 0..Len(lines)
  /\ duckState \in {"idle", "running", "completed", "error"}
  /\ pace \in {0, DefaultTicks} /\ pending \in 0..(DelayTicks + DefaultTicks)
  /\ cli \in {"reading", "loaded", "loop", "line"} /\ taken \in DuckLine
  /\ duckCalls \in 0..MaxDuckCalls /\ entries \in 0..MaxEntries /\ rest \in 0..DelayTicks

\* A DELAY is kept before the next line is taken, whoever has stopped, loaded and run
\* scripts meanwhile, unless a default delay was in force (step, run, stop).
DelaysKept == [][(current' = current + 1) => rest = 0]_duckyVars

\* The console comes back from its loop, also when Lua has put a script of its own in
\* the place of the line entered (serial_interactive_cli_task).
ConsoleReturns == cli # "reading" ~> cli = "reading"

\* docs/api/core_apis_reference.md:362: a Lua script runs a file and asks is_running
\* until it has ended.
DuckyEnds == duckState = "running" ~> duckState # "running"
=============================================================================
