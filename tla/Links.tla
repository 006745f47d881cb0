------------------------------- MODULE Links --------------------------------
(***************************************************************************)
(* What connects a board with the world: streams, SSH, the USB port and    *)
(* what is plugged into it, the dongle at the PC.  They share no state.    *)
(* A behaviour is about one of them, the focus; the others stay as they    *)
(* are after boot.  So the state space is the union of theirs and not the  *)
(* product, and each property is about the behaviours that have its        *)
(* component in focus: in the others it holds from the initial state on.   *)
(***************************************************************************)
EXTENDS AudioPlayer, SshShell, UsbPort, UsbHost, DongleLink

CONSTANT Focuses   \* the components to look at

ASSUME LinksAssumption ==
  Focuses \subseteq
    {"player", "ssh", "port", "host", "dongle"}

VARIABLE focus

linksVars ==
  <<focus, playerVars, sshVars, portVars, hostVars, dongleVars>>

\* A value of a constant that a .cfg cannot write: the payloads the dongle sends.
PortLengths == <<2, 1>>
-----------------------------------------------------------------------------
InitLinks ==
  /\ focus \in Focuses
  /\ InitPlayer /\ InitSsh /\ InitPort /\ InitHost
  /\ InitDongle

PlayerSteps ==
  /\ focus = "player" /\ NextPlayer
  /\ UNCHANGED <<focus, sshVars, portVars, hostVars, dongleVars>>

SshSteps ==
  /\ focus = "ssh" /\ NextSsh
  /\ UNCHANGED <<focus, playerVars, portVars, hostVars, dongleVars>>

PortSteps ==
  /\ focus = "port" /\ NextPort
  /\ UNCHANGED <<focus, playerVars, sshVars, hostVars, dongleVars>>

HostSteps ==
  /\ focus = "host" /\ NextHost
  /\ UNCHANGED <<focus, playerVars, sshVars, portVars, dongleVars>>

DongleSteps ==
  /\ focus = "dongle" /\ NextDongle
  /\ UNCHANGED <<focus, playerVars, sshVars, portVars, hostVars>>

NextLinks ==
  \/ PlayerSteps \/ SshSteps \/ PortSteps \/ HostSteps
  \/ DongleSteps

SpecLinks == InitLinks /\ [][NextLinks]_linksVars

\* The fairness each component has in its own module.
FairLinks ==
  /\ SpecLinks
  /\ \A c \in Caller : WF_playerVars(focus = "player" /\ CallStep(c))
  /\ \A t \in Play : WF_playerVars(focus = "player" /\ PlayTaskStep(t))
  /\ WF_sshVars(focus = "ssh" /\ TerminalStep)
  /\ \A r \in Shell : WF_sshVars(focus = "ssh" /\ ReaderStep(r))
  /\ WF_hostVars(focus = "host" /\ DriverTells) /\ WF_hostVars(focus = "host" /\ ManagerTakes)
-----------------------------------------------------------------------------
\* Every variable has the type its component gives it.
LinksTypeOK ==
  /\ focus \in Focuses
  /\ PlayerTypeOK /\ SshTypeOK /\ PortTypeOK /\ HostTypeOK
  /\ DongleTypeOK
=============================================================================
