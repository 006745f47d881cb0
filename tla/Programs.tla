------------------------------ MODULE Programs ------------------------------
(***************************************************************************)
(* What runs on a board by itself: player, recorder, scripts, DuckyScript, *)
(* lists of stations, channel sweep, FIDO key.  They share no state.       *)
(* A behaviour is about one of them, the focus; the others stay as they    *)
(* are after boot.  So the state space is the union of theirs and not the  *)
(* product, and each property is about the behaviours that have its        *)
(* component in focus: in the others it holds from the initial state on.   *)
(***************************************************************************)
EXTENDS AudioPlayer, WavRecorder, LuaRunner, Ducky, Playlists, ChannelSweep,
        SecurityKey

CONSTANT Focuses   \* the components to look at

ASSUME ProgramsAssumption ==
  Focuses \subseteq
    {"player", "recorder", "lua", "ducky", "playlists", "sweep", "key"}

VARIABLE focus

programsVars ==
  <<focus, playerVars, recorderVars, runnerVars, duckyVars, playlistVars,
    sweepVars, keyVars>>

\* Values of the constants that a .cfg cannot write: the Ducky scripts a Lua script
\* loads, the stations of a new board.
DuckScripts == {<<"type", "delay">>, <<"default", "delay", "type">>}
NewStations == <<CHOOSE u \in Urls : TRUE>>
-----------------------------------------------------------------------------
InitPrograms ==
  /\ focus \in Focuses
  /\ InitPlayer /\ InitRecorder /\ InitRunner /\ InitDucky
  /\ InitPlaylists /\ InitSweep /\ InitKey

PlayerSteps ==
  /\ focus = "player" /\ NextPlayer
  /\ UNCHANGED <<focus, recorderVars, runnerVars, duckyVars, playlistVars,
                  sweepVars, keyVars>>

RecorderSteps ==
  /\ focus = "recorder" /\ NextRecorder
  /\ UNCHANGED <<focus, playerVars, runnerVars, duckyVars, playlistVars,
                  sweepVars, keyVars>>

RunnerSteps ==
  /\ focus = "lua" /\ NextRunner
  /\ UNCHANGED <<focus, playerVars, recorderVars, duckyVars, playlistVars,
                  sweepVars, keyVars>>

DuckySteps ==
  /\ focus = "ducky" /\ NextDucky
  /\ UNCHANGED <<focus, playerVars, recorderVars, runnerVars, playlistVars,
                  sweepVars, keyVars>>

PlaylistsSteps ==
  /\ focus = "playlists" /\ NextPlaylists
  /\ UNCHANGED <<focus, playerVars, recorderVars, runnerVars, duckyVars,
                  sweepVars, keyVars>>

SweepSteps ==
  /\ focus = "sweep" /\ NextSweep
  /\ UNCHANGED <<focus, playerVars, recorderVars, runnerVars, duckyVars,
                  playlistVars, keyVars>>

KeySteps ==
  /\ focus = "key" /\ NextKey
  /\ UNCHANGED <<focus, playerVars, recorderVars, runnerVars, duckyVars,
                  playlistVars, sweepVars>>

NextPrograms ==
  \/ PlayerSteps \/ RecorderSteps \/ RunnerSteps \/ DuckySteps
  \/ PlaylistsSteps \/ SweepSteps \/ KeySteps

SpecPrograms == InitPrograms /\ [][NextPrograms]_programsVars

\* The fairness each component has in its own module.
FairPrograms ==
  /\ SpecPrograms
  /\ \A c \in Caller : WF_playerVars(focus = "player" /\ CallStep(c))
  /\ \A t \in Play : WF_playerVars(focus = "player" /\ PlayTaskStep(t))
  /\ \A t \in Take : WF_recorderVars(focus = "recorder" /\ RecTaskStep(t))
  /\ WF_runnerVars(focus = "lua" /\ LvglStep) /\ WF_runnerVars(focus = "lua" /\ Lapse)
  /\ \A p \in Run : WF_runnerVars(focus = "lua" /\ TaskStep(p))
  /\ WF_duckyVars(focus = "ducky" /\ CliStep) /\ WF_duckyVars(focus = "ducky" /\ Lapses)
  /\ WF_sweepVars(focus = "sweep" /\ Worker)
-----------------------------------------------------------------------------
\* Every variable has the type its component gives it.
ProgramsTypeOK ==
  /\ focus \in Focuses
  /\ PlayerTypeOK /\ RecorderTypeOK /\ RunnerTypeOK /\ DuckyTypeOK
  /\ PlaylistsTypeOK /\ SweepTypeOK /\ KeyTypeOK
=============================================================================
