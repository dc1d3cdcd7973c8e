-------------------------- MODULE NetmgrController --------------------------
(***************************************************************************)
(* The NetworkManager backend of the Flatpak build                         *)
(* (src/src/platforms/linux/netmgrcontroller.cpp) and, as its environment, *)
(* what NetworkManager does with its one WireGuard connection.             *)
(*                                                                         *)
(* Client and NetworkManager exchange D-Bus messages over two FIFO         *)
(* channels: method calls in toNM, replies and signals in fromNM.  The     *)
(* client also reads properties of NetworkManager's device with blocking   *)
(* calls, which see the current value and not the one of the last signal.  *)
(*                                                                         *)
(* The actions give the effect on this component alone.  What they emit    *)
(* (initialized, connected, disconnected, backendFailure) is connected to  *)
(* the controller's slots in module ControllerNetmgr.                      *)
(*                                                                         *)
(* As in Controller, <Handler>_<slip> is a mutant of <Handler>.            *)
(***************************************************************************)
EXTENDS Naturals, Sequences

CONSTANTS
  Keys,           \* public keys of the profiles' peers
  NoKey,          \* no peer
  MaxActivations, \* bound on the activations NetworkManager carries out
  MaxRx           \* bound on the received-bytes counter

VARIABLES
  remote,    \* m_remote is set: the connection's settings object is known
  dev,       \* m_device and its cached State and ActiveConnection
  waiting,   \* m_waitingForHandshakeTraffic
  baseline,  \* m_activationRxBytes
  pollTimer, \* m_handshakePollTimer is running
  serverKey, \* m_serverPublicKey
  toNM,      \* method calls NetworkManager has not handled
  fromNM,    \* replies and signals the client has not handled
  nmExists,  \* NetworkManager holds a connection with our UUID
  nmKey,     \* the peer in that connection's settings
  nmDev,     \* NetworkManager's WireGuard device
  lastId     \* activations so far; each gives the active connection its path

clientVars == <<remote, dev, waiting, baseline, pollTimer, serverKey>>
nmVars == <<nmExists, nmKey, nmDev, lastId>>
netVars == <<clientVars, toNM, fromNM, nmVars>>

-----------------------------------------------------------------------------

\* The device states the client tells apart, plus the ones on the way.
DeviceState == {"UNKNOWN", "PREPARE", "ACTIVATED", "DEACTIVATING", "FAILED",
                "DISCONNECTED"}

Ids == 0 .. MaxActivations

\* A device as the client caches it.  Its path is `id' and its active
\* connection `ac'; an active connection other than 0 ("/") has our UUID.
Device == [id : Ids, st : DeviceState, ac : Ids]
NoDevice == [id |-> 0, st |-> "UNKNOWN", ac |-> 0]

\* The device inside NetworkManager, with the peer it was set up with.
NMDevice == [id : Ids, st : DeviceState, ac : Ids, rx : 0 .. MaxRx,
             key : Keys \cup {NoKey}]
NoNMDevice == [id |-> 0, st |-> "UNKNOWN", ac |-> 0, rx |-> 0, key |-> NoKey]

Request == [op : {"add", "activate"}] \cup [op : {"update"}, key : Keys]
             \cup [op : {"deactivate"}, ac : Ids]

Event == [ev : {"added", "addFailed", "updated", "failed", "deactivated"}]
           \cup [ev : {"deviceAdded", "deviceRemoved"}, id : Ids]
           \cup [ev : {"state"}, id : Ids, st : DeviceState, ac : Ids]

\* Types of the backend's members (netmgrcontroller.h, netmgrdevice.h): a cached
\* device never carries more than NetworkManager's signals and properties say.
NetTypeOK ==
  /\ remote \in BOOLEAN
  /\ dev \in Device
  /\ waiting \in BOOLEAN
  /\ baseline \in 0 .. MaxRx
  /\ pollTimer \in BOOLEAN
  /\ serverKey \in Keys \cup {NoKey}
  /\ toNM \in Seq(Request)
  /\ fromNM \in Seq(Event)
  /\ nmExists \in BOOLEAN
  /\ nmKey \in Keys \cup {NoKey}
  /\ nmDev \in NMDevice
  /\ lastId \in Ids

\* The client starts; a tunnel of an earlier run may still be up.
NetInit ==
  /\ remote = FALSE
  /\ dev = NoDevice
  /\ waiting = FALSE
  /\ baseline = 0
  /\ pollTimer = FALSE
  /\ serverKey = NoKey
  /\ toNM = <<>>
  /\ fromNM = <<>>
  /\ \/ nmExists = FALSE /\ nmKey = NoKey /\ nmDev = NoNMDevice /\ lastId = 0
     \/ /\ nmExists = TRUE
        /\ nmKey \in Keys
        /\ \/ nmDev = NoNMDevice /\ lastId = 0
           \/ /\ nmDev = [id |-> 1, st |-> "ACTIVATED", ac |-> 1, rx |-> 1,
                          key |-> nmKey]
              /\ lastId = 1

-----------------------------------------------------------------------------
(* The client: calls from the controller.                                  *)

Send(request) == toNM' = Append(toNM, request)

Snapshot_wholeDevice == nmDev

\* The state and active connection a new NetmgrDevice reads.
Snapshot == [id |-> nmDev.id, st |-> nmDev.st, ac |-> nmDev.ac]

\* initialize() of a profile that cannot be used: emits initialized(false).
initializeFails ==
  UNCHANGED netVars

\* initialize() when the connection has to be created first.
initializeAdds ==
  /\ ~nmExists
  /\ Send([op |-> "add"])
  /\ UNCHANGED <<clientVars, fromNM, nmVars>>

\* initCompleted(): emits initialized(true, IsConnected).
IsConnected == nmDev.st = "ACTIVATED" /\ nmDev.ac # 0

initCompleted ==
  /\ remote' = TRUE
  /\ dev' = Snapshot
  /\ UNCHANGED <<waiting, baseline, pollTimer, serverKey, toNM, nmVars>>

\* activate() of peer k.
activate(k) ==
  /\ waiting' = TRUE
  /\ baseline' = 0
  /\ serverKey' = k
  /\ Send([op |-> "update", key |-> k])
  /\ UNCHANGED <<remote, dev, pollTimer, fromNM, nmVars>>

AlreadyDisconnected_unlessUp == dev.ac = 0 \/ dev.st # "ACTIVATED"

\* deactivate() finds no device of ours: emits disconnected() and returns.
AlreadyDisconnected == dev.ac = 0

deactivate_onlyWhenUp ==
  /\ ~AlreadyDisconnected
  /\ IF dev.st = "ACTIVATED" THEN Send([op |-> "deactivate", ac |-> dev.ac])
                              ELSE UNCHANGED toNM
  /\ UNCHANGED <<clientVars, fromNM, nmVars>>

\* DeactivateConnection is called with the active connection the client knows.
deactivate ==
  /\ ~AlreadyDisconnected
  /\ Send([op |-> "deactivate", ac |-> dev.ac])
  /\ UNCHANGED <<clientVars, fromNM, nmVars>>

-----------------------------------------------------------------------------
(* The client: replies and signals.                                        *)

Receive(ev) ==
  /\ fromNM # <<>>
  /\ Head(fromNM).ev = ev
  /\ fromNM' = Tail(fromNM)

\* The reply to AddConnection2.
addCompleted == Receive("added") /\ initCompleted

\* dbusInitError(): the connection may exist after all, else initialized(false).
dbusInitError ==
  /\ Receive("addFailed")
  /\ IF nmExists
     THEN initCompleted
     ELSE UNCHANGED <<clientVars, toNM, nmVars>>

\* The settings are updated: activate the connection.
peerCompleted ==
  /\ Receive("updated")
  /\ Send([op |-> "activate"])
  /\ UNCHANGED <<clientVars, nmVars>>

\* Update2 or ActivateConnection failed: emits backendFailure.
dbusBackendError ==
  /\ Receive("failed")
  /\ UNCHANGED <<clientVars, toNM, nmVars>>

\* The reply to DeactivateConnection, an error too: emits disconnected().
deactivateFinished ==
  /\ Receive("deactivated")
  /\ UNCHANGED <<clientVars, toNM, nmVars>>

\* rxBytes(), a blocking read: 0 when the device is gone.
rxBytes == IF nmDev.id = dev.id THEN nmDev.rx ELSE 0

ComesUp(d) == d.ac # 0 /\ d.st = "ACTIVATED"
GoesDown(d) == d.ac # 0 /\ d.st \in {"DEACTIVATING", "FAILED"}

deviceStateChanged_keepsPolling(d) ==
  /\ baseline' = IF ComesUp(d) THEN (IF nmDev.id = d.id THEN nmDev.rx ELSE 0)
                               ELSE baseline
  /\ pollTimer' = (pollTimer \/ (ComesUp(d) /\ waiting))
  /\ waiting' = (waiting /\ ~GoesDown(d))

\* deviceStateChanged() once the cached device is d.  The check it makes right
\* after taking the baseline is a first tick of the poll timer.
deviceStateChanged(d) ==
  /\ baseline' = IF ComesUp(d) THEN (IF nmDev.id = d.id THEN nmDev.rx ELSE 0)
                               ELSE baseline
  /\ pollTimer' = ((pollTimer \/ (ComesUp(d) /\ waiting)) /\ ~GoesDown(d))
  /\ waiting' = (waiting /\ ~GoesDown(d))

\* A device whose name cannot be read any more is not ours.
deviceAdded ==
  /\ Receive("deviceAdded")
  /\ IF Head(fromNM).id = nmDev.id
     THEN /\ dev' = Snapshot
          /\ deviceStateChanged(Snapshot)
     ELSE UNCHANGED <<dev, baseline, pollTimer, waiting>>
  /\ UNCHANGED <<remote, serverKey, toNM, nmVars>>

IsOurDevice_whileUp(id) == dev.st = "ACTIVATED" /\ dev.id = id

\* A signal about device `id' is about m_device.
IsOurDevice(id) == dev # NoDevice /\ dev.id = id

\* dbusStateChanged() and propertyChanged() of m_device.
dbusStateChanged ==
  /\ Receive("state")
  /\ LET e == Head(fromNM)
         d == [id |-> e.id, st |-> e.st, ac |-> e.ac]
     IN  IF IsOurDevice(e.id)
         THEN dev' = d /\ deviceStateChanged(d)
         ELSE UNCHANGED <<dev, baseline, pollTimer, waiting>>
  /\ UNCHANGED <<remote, serverKey, toNM, nmVars>>

\* deviceRemoved() of m_device: emits disconnected().
deviceRemoved ==
  /\ Receive("deviceRemoved")
  /\ IsOurDevice(Head(fromNM).id)
  /\ pollTimer' = FALSE
  /\ waiting' = FALSE
  /\ dev' = NoDevice
  /\ UNCHANGED <<remote, baseline, serverKey, toNM, nmVars>>

otherDeviceRemoved ==
  /\ Receive("deviceRemoved")
  /\ ~IsOurDevice(Head(fromNM).id)
  /\ UNCHANGED <<clientVars, toNM, nmVars>>

\* A tick of the poll timer that finds handshake traffic and the route ready:
\* emits connected(serverKey).  Any other tick does nothing.
checkHandshakeTraffic ==
  /\ pollTimer
  /\ waiting
  /\ dev.ac # 0
  /\ dev.st = "ACTIVATED"
  /\ rxBytes > baseline
  /\ pollTimer' = FALSE
  /\ waiting' = FALSE
  /\ UNCHANGED <<remote, dev, baseline, serverKey, toNM, fromNM, nmVars>>

-----------------------------------------------------------------------------
(* NetworkManager, external: as much of it as the client depends on.       *)

Take(op) ==
  /\ toNM # <<>>
  /\ Head(toNM).op = op
  /\ toNM' = Tail(toNM)

Reply(ev) == fromNM' = Append(fromNM, [ev |-> ev])

\* StateChanged and PropertiesChanged reach a client that has made a
\* NetmgrDevice for the device.
StateSignal(channel, d) ==
  IF dev.id = d.id
  THEN Append(channel, [ev |-> "state", id |-> d.id, st |-> d.st, ac |-> d.ac])
  ELSE channel

nmAdd ==
  /\ Take("add")
  /\ \/ ~nmExists /\ nmExists' = TRUE /\ Reply("added")
     \/ nmExists' = nmExists /\ Reply("addFailed")
  /\ UNCHANGED <<clientVars, nmKey, nmDev, lastId>>

\* Another process adds the connection.
nmAddedElsewhere ==
  /\ ~nmExists
  /\ toNM # <<>>
  /\ nmExists' = TRUE
  /\ nmKey' \in Keys
  /\ UNCHANGED <<clientVars, toNM, fromNM, nmDev, lastId>>

nmUpdate ==
  /\ Take("update")
  /\ \/ nmKey' = Head(toNM).key /\ Reply("updated")
     \/ nmKey' = nmKey /\ Reply("failed")
  /\ UNCHANGED <<clientVars, nmExists, nmDev, lastId>>

\* ActivateConnection makes the device, or starts over on the one that is up.
nmActivate ==
  /\ Take("activate")
  /\ \/ /\ nmDev = NoNMDevice
        /\ lastId < MaxActivations
        /\ nmDev' = [id |-> lastId + 1, st |-> "PREPARE", ac |-> lastId + 1,
                     rx |-> 0, key |-> nmKey]
        /\ fromNM' = Append(fromNM, [ev |-> "deviceAdded", id |-> lastId + 1])
        /\ lastId' = lastId + 1
     \/ /\ nmDev.st \in {"PREPARE", "ACTIVATED"}
        /\ lastId < MaxActivations
        /\ nmDev' = [nmDev EXCEPT !.st = "PREPARE", !.ac = lastId + 1, !.key = nmKey]
        /\ fromNM' = StateSignal(StateSignal(fromNM,
                                             [nmDev EXCEPT !.st = "DEACTIVATING"]),
                                 nmDev')
        /\ lastId' = lastId + 1
     \/ Reply("failed") /\ UNCHANGED <<nmDev, lastId>>
  /\ UNCHANGED <<clientVars, nmExists, nmKey>>

nmDeactivate ==
  /\ Take("deactivate")
  /\ IF nmDev.ac = Head(toNM).ac /\ nmDev.st \in {"PREPARE", "ACTIVATED"}
     THEN /\ nmDev' = [nmDev EXCEPT !.st = "DEACTIVATING"]
          /\ fromNM' = Append(StateSignal(fromNM, nmDev'), [ev |-> "deactivated"])
     ELSE nmDev' = nmDev /\ Reply("deactivated")
  /\ UNCHANGED <<clientVars, nmExists, nmKey, lastId>>

NMMoves(from, to) ==
  /\ nmDev.st \in from
  /\ nmDev' = [nmDev EXCEPT !.st = to, !.ac = IF to = "DISCONNECTED" THEN 0 ELSE @]
  /\ fromNM' = StateSignal(fromNM, nmDev')
  /\ UNCHANGED <<clientVars, toNM, nmExists, nmKey, lastId>>

nmBringsUp == NMMoves({"PREPARE"}, "ACTIVATED")
nmFails == NMMoves({"PREPARE"}, "FAILED")
nmDrops == NMMoves({"ACTIVATED"}, "DEACTIVATING")
nmTearsDown == NMMoves({"DEACTIVATING", "FAILED"}, "DISCONNECTED")

nmRemoves ==
  /\ nmDev.st = "DISCONNECTED"
  /\ nmDev' = NoNMDevice
  /\ fromNM' = Append(fromNM, [ev |-> "deviceRemoved", id |-> nmDev.id])
  /\ UNCHANGED <<clientVars, toNM, nmExists, nmKey, lastId>>

\* The peer answers.
nmTraffic ==
  /\ nmDev.st = "ACTIVATED"
  /\ nmDev.rx < MaxRx
  /\ nmDev' = [nmDev EXCEPT !.rx = @ + 1]
  /\ UNCHANGED <<clientVars, toNM, fromNM, nmExists, nmKey, lastId>>

\* What NetworkManager does of itself, without the failures.
NMProgress ==
  \/ nmAdd \/ nmUpdate \/ nmActivate \/ nmDeactivate
  \/ nmBringsUp \/ nmTearsDown \/ nmRemoves

NMNext == NMProgress \/ nmAddedElsewhere \/ nmFails \/ nmDrops \/ nmTraffic

=============================================================================
