-------------------------- MODULE ControllerNetmgr --------------------------
(***************************************************************************)
(* The Flatpak client with local WireGuard profiles: the controller, its   *)
(* NetworkManager backend and NetworkManager itself.                       *)
(*                                                                         *)
(* A call the controller makes into the backend is taken in the next step, *)
(* and a signal of the backend runs the controller's slot in the same one. *)
(* The user activates and deactivates, quits, and lets updates through; a  *)
(* crash and restart of the client is the initial state with a tunnel up.  *)
(***************************************************************************)
EXTENDS Controller

CONSTANTS
  MaxActivations, MaxRx, \* bounds, see NetmgrController
  MaxInFlight,           \* users and timers wait when as many messages are under way
  Users,                 \* who uses the client
  Patient                \* users act and timers fire only between D-Bus exchanges

VARIABLES
  remote, dev, waiting, baseline, pollTimer, serverKey, toNM, fromNM,
  nmExists, nmKey, nmDev, lastId

NM == INSTANCE NetmgrController

ASSUME NetmgrAssumption == /\ MaxActivations \in Nat \ {0}
                           /\ MaxRx \in Nat \ {0}
                           /\ MaxInFlight \in Nat \ {0}
                           /\ Users \subseteq {"ExtensionUser", "ClientUser"}
                           /\ Patient \in BOOLEAN
                           /\ ProfileModes = {TRUE}

netVars == <<remote, dev, waiting, baseline, pollTimer, serverKey, toNM, fromNM,
             nmExists, nmKey, nmDev, lastId>>
vars == <<ctlVars, netVars>>

\* Types of the controller's and the backend's members and of the messages under
\* way between client and NetworkManager.
SysTypeOK == TypeOK /\ NM!NetTypeOK

SysInit == Init /\ NM!NetInit

-----------------------------------------------------------------------------
(* The backend takes the call the controller makes.                        *)

\* initialize(): the profile is unusable, or the connection exists already, or
\* it is added.
implInitialize ==
  /\ call = CallInitialize
  /\ \/ NM!initializeFails /\ implInitialized(FALSE, FALSE)
     \/ /\ nmExists
        /\ NM!initCompleted /\ UNCHANGED fromNM
        /\ implInitialized(TRUE, NM!IsConnected)
     \/ NM!initializeAdds /\ implReturn

implActivate ==
  /\ call.op = "activate"
  /\ NM!activate(call.key)
  /\ implReturn

\* deactivate(): disconnected() is emitted inside the call when there is no
\* device of ours.
implDeactivate ==
  /\ call = CallDeactivate
  /\ \/ NM!AlreadyDisconnected /\ disconnected /\ UNCHANGED netVars
     \/ NM!deactivate /\ implReturn

-----------------------------------------------------------------------------
(* The backend handles a reply, a signal or a tick of its timer.           *)

initReply ==
  /\ Idle
  /\ \/ NM!addCompleted /\ implInitialized(TRUE, NM!IsConnected)
     \/ /\ NM!dbusInitError
        /\ implInitialized(nmExists, nmExists /\ NM!IsConnected)

backendError ==
  /\ Idle
  /\ NM!dbusBackendError
  /\ handleBackendFailure("Fatal")

tunnelEnds ==
  /\ Idle
  /\ NM!deactivateFinished \/ NM!deviceRemoved
  /\ disconnected

deviceNews ==
  /\ Idle
  /\ NM!peerCompleted \/ NM!deviceAdded \/ NM!dbusStateChanged
       \/ NM!otherDeviceRemoved
  /\ UNCHANGED ctlVars

\* connected() of a peer that is no longer expected is ignored.
handshakeSeen ==
  /\ Idle
  /\ NM!checkHandshakeTraffic
  /\ IF Expected(serverKey) THEN connected(serverKey) ELSE UNCHANGED ctlVars

BackendNext ==
  \/ implInitialize \/ implActivate \/ implDeactivate
  \/ initReply \/ backendError \/ tunnelEnds \/ deviceNews \/ handshakeSeen

-----------------------------------------------------------------------------

\* Nothing is under way between the client and NetworkManager.
Settled == toNM = <<>> /\ fromNM = <<>> /\ nmDev.st \in {"UNKNOWN", "PREPARE", "ACTIVATED"}

Quietly(A) ==
  /\ Patient => Settled
  /\ Len(toNM) + Len(fromNM) < MaxInFlight
  /\ A
  /\ UNCHANGED netVars

startup == Quietly(~initPending /\ initialize)

userActivates == \E user \in Users, k \in Keys : Quietly(activateProfile(k, user))
userDeactivates == \E user \in Users : Quietly(deactivate(user))
userQuits == Quietly(quit)
updateArrives == Quietly(updateRequired)

UserActs == userActivates \/ userDeactivates \/ userQuits \/ updateArrives

handshakeTimesOut == Quietly(handshakeTimeout)
confirmingTimesOut == Quietly(confirmingTimeout)

NetworkManagerActs == NM!NMNext /\ UNCHANGED ctlVars

SysNext ==
  \/ startup \/ UserActs \/ handshakeTimesOut \/ confirmingTimesOut
  \/ BackendNext \/ NetworkManagerActs

SysSpec == SysInit /\ [][SysNext]_vars

\* The client's event loop runs and its handshake timer is due, NetworkManager
\* answers every call (or D-Bus does, with an error) and carries on.
SysFairness ==
  /\ WF_vars(startup)
  /\ WF_vars(BackendNext)
  /\ WF_vars(handshakeTimesOut)
  /\ WF_vars(NM!NMProgress /\ UNCHANGED ctlVars)

SysFairSpec == SysSpec /\ SysFairness

-----------------------------------------------------------------------------
(* What holds with any user and any delay of NetworkManager.               *)

\* A reply to DeactivateConnection is owed to the client.
DeactivationInFlight ==
  \/ \E i \in DOMAIN toNM : toNM[i].op = "deactivate"
  \/ \E i \in DOMAIN fromNM : fromNM[i].ev = "deactivated"

\* StateDisconnecting always ends: the disconnected() it waits for is owed,
\* whichever devices came and went since.  The same holds for the error state a
\* handshake timeout leaves through disconnected().
DisconnectAnswered ==
  state = "Disconnecting"
    \/ (state = "ConnectionError" /\ error # "NoServerAvailable" /\ backendAvailable)
  => call = CallDeactivate \/ DeactivationInFlight

\* The poll timer only runs for a device the client still holds and while it
\* waits for traffic; deviceRemoved() deletes the one the timer would read.
PollHasDevice == pollTimer => waiting /\ dev.id # 0

\* A handshake seen late, after the attempt was cancelled, never turns the
\* client on: only an attempt that is still queued does, or the start-up check.
OnlyQueuedConnects ==
  [][state' \in {"On", "OnPartial"} /\ state' # state =>
       state = "Initializing" \/ queue # <<>>]_vars

-----------------------------------------------------------------------------
(* What needs a patient user and a prompt NetworkManager.                  *)

\* A request that ends in a tunnel is on its way.
ActivationInFlight ==
  \/ \E i \in DOMAIN toNM : toNM[i].op \in {"update", "activate"}
  \/ \E i \in DOMAIN fromNM : fromNM[i].ev = "updated"

\* StateOff: no tunnel is up or coming up, unless the extension has just asked
\* for one or the backend never started.
OffIsIdle ==
  state = "Off" /\ queue = <<>> /\ backendAvailable =>
    nmDev.st \notin {"PREPARE", "ACTIVATED"} /\ ~ActivationInFlight

\* StateOn: the tunnel is up, to the peer that was asked for, unless news of
\* its end is on the way.
OnIsTunnel ==
  state \in {"On", "OnPartial"} /\ Settled =>
    nmDev.st = "ACTIVATED" /\ serverKey \in {nmDev.key, NoKey}

\* A connection attempt always comes to an end, however many messages fail.
AttemptEnds ==
  state \in {"Connecting", "Confirming"}
    ~> state \notin {"Connecting", "Confirming"}

\* A quit that waits for the tunnel to go down ends the program, unless an
\* update takes its place.
QuitOfTunnelEnds ==
  nextStep = "Quit" /\ state = "Disconnecting" ~> readyToQuit \/ nextStep # "Quit"

\* Attempts and quits both come to an end (the two liveness claims above).
NetmgrProgress == AttemptEnds /\ QuitOfTunnelEnds

=============================================================================
