--------------------------- MODULE ControllerLinux ---------------------------
(***************************************************************************)
(* The plain Linux client with local WireGuard profiles: the controller,   *)
(* its backend LinuxController                                             *)
(* (src/src/platforms/linux/linuxcontroller.cpp), the system bus and the   *)
(* privileged daemon, of which only DaemonService is known.                *)
(*                                                                         *)
(* LinuxController has no state of its own.  It turns calls into D-Bus     *)
(* calls, and reports disconnected() for each of: the daemon's signal, a   *)
(* reply that is false, an error, and a change of the name's owner.  So    *)
(* the end of one tunnel may be reported several times.                    *)
(*                                                                         *)
(* Calls are in toDaemon; replies and signals, which the bus delivers in   *)
(* the order it got them, in fromDaemon.                                   *)
(***************************************************************************)
EXTENDS Controller

CONSTANTS
  MaxInFlight,  \* users and timers wait when as many messages are under way
  MaxStops,     \* bound on the times the daemon stops
  Users         \* who uses the client

ASSUME LinuxAssumption == /\ MaxInFlight \in Nat \ {0}
                          /\ MaxStops \in Nat
                          /\ Users \subseteq {"ExtensionUser", "ClientUser"}
                          /\ ProfileModes = {TRUE}

VARIABLES
  conns, serving,    \* the daemon, see DaemonService
  toDaemon,     \* calls it has not handled
  fromDaemon,   \* replies and signals the client has not handled
  stops,        \* times the daemon has stopped
  refused,      \* history: a call that failed has left the tunnel up
  overtaken     \* history: a report ended an attempt that is younger than it

SingleHop == "SingleHop"

Service == INSTANCE DaemonService WITH
  HopKinds <- {SingleHop}, Peers <- Keys, NoPeer <- NoKey

linuxVars == <<conns, serving, toDaemon, fromDaemon, stops, refused, overtaken>>
vars == <<ctlVars, linuxVars>>

Request == [op : {"status", "deactivate"}] \cup [op : {"activate"}, key : Keys]

Event == [ev : {"disconnected", "ownerLost"}]
           \cup [ev : {"connected"}, key : Keys]
           \cup [ev : {"status", "activate", "deactivate"}, error : BOOLEAN,
                 ok : BOOLEAN]

\* Types of the controller's members, the daemon's connections and the messages
\* on the bus.
LinuxTypeOK ==
  /\ TypeOK
  /\ conns \in [{SingleHop} -> [server : Keys \cup {NoKey}, told : BOOLEAN]]
  /\ serving \in BOOLEAN
  /\ toDaemon \in Seq(Request)
  /\ fromDaemon \in Seq(Event)
  /\ stops \in 0 .. MaxStops
  /\ refused \in BOOLEAN
  /\ overtaken \in BOOLEAN

\* The client starts, perhaps after a crash, when the daemon may have a tunnel.
LinuxInit ==
  /\ Init
  /\ conns \in {Service!NoConns} \cup
       [{SingleHop} -> [server : Keys, told : BOOLEAN]]
  /\ serving \in BOOLEAN
  /\ ~serving => conns = Service!NoConns
  /\ toDaemon = <<>> /\ fromDaemon = <<>>
  /\ stops = 0
  /\ refused = FALSE /\ overtaken = FALSE

daemonIdle == conns = Service!NoConns

-----------------------------------------------------------------------------
(* The calls of the controller into LinuxController.                       *)

Call_(op, request) ==
  /\ call.op = op
  /\ implReturn
  /\ toDaemon' = Append(toDaemon, request)
  /\ UNCHANGED <<conns, serving, fromDaemon, stops, refused, overtaken>>

implInitialize == Call_("initialize", [op |-> "status"])
implActivate == Call_("activate", [op |-> "activate", key |-> call.key])
implDeactivate_fireAndForget ==
  /\ call.op = "deactivate"
  /\ fromDaemon' = Append(fromDaemon, [ev |-> "disconnected"])
  /\ implReturn
  /\ UNCHANGED <<conns, serving, toDaemon, stops, refused, overtaken>>

implDeactivate == Call_("deactivate", [op |-> "deactivate"])

-----------------------------------------------------------------------------
(* What LinuxController does with replies and signals.                     *)

Receive(evs) ==
  /\ Idle
  /\ fromDaemon # <<>>
  /\ Head(fromDaemon).ev \in evs
  /\ fromDaemon' = Tail(fromDaemon)
  /\ UNCHANGED <<conns, serving, toDaemon, stops, refused>>

\* The status of an unauthorized caller is the empty text, which is no object
\* and reads as "not connected".
initializeCompleted ==
  LET m == Head(fromDaemon) IN
  /\ Receive({"status"})
  /\ implInitialized(~m.error, ~m.error /\ m.ok)
  /\ UNCHANGED overtaken

\* An activation whose result the client has not seen.
ActivationUnderWay ==
  \/ \E i \in DOMAIN toDaemon : toDaemon[i].op = "activate"
  \/ \E i \in DOMAIN fromDaemon :
       i > 1 /\ fromDaemon[i].ev = "activate" /\ fromDaemon[i].ok

ReportEnd == disconnected /\ overtaken' = (overtaken \/ ActivationUnderWay)

IsFailure_errorOnly(m) == m.error

\* Errors and false results end the attempt.
IsFailure(m) == m.error \/ ~m.ok

operationCompleted ==
  LET m == Head(fromDaemon) IN
  /\ Receive({"activate", "deactivate"})
  /\ IF IsFailure(m) THEN ReportEnd ELSE UNCHANGED <<ctlVars, overtaken>>

dbusDisconnected == Receive({"disconnected"}) /\ ReportEnd
dbusNameOwnerChanged_logsOnly ==
  Receive({"ownerLost"}) /\ UNCHANGED <<ctlVars, overtaken>>

dbusNameOwnerChanged == Receive({"ownerLost"}) /\ ReportEnd

\* connected() of a peer that is no longer expected is ignored.
dbusConnected ==
  LET k == Head(fromDaemon).key IN
  /\ Receive({"connected"})
  /\ IF Expected(k) THEN connected(k) ELSE UNCHANGED ctlVars
  /\ UNCHANGED overtaken

BackendNext ==
  \/ implInitialize \/ implActivate \/ implDeactivate
  \/ initializeCompleted \/ operationCompleted
  \/ dbusDisconnected \/ dbusNameOwnerChanged \/ dbusConnected

-----------------------------------------------------------------------------
(* The daemon and the bus.                                                 *)

Reply(ev, ok) == [ev |-> ev, error |-> FALSE, ok |-> ok]
Error(request) == [ev |-> request.op, error |-> TRUE, ok |-> FALSE]

Take(op) ==
  /\ serving
  /\ toDaemon # <<>>
  /\ Head(toDaemon).op = op
  /\ toDaemon' = Tail(toDaemon)
  /\ UNCHANGED <<ctlVars, serving, stops, overtaken>>

Send(events) == fromDaemon' = fromDaemon \o events

\* Any connection counts as connected, with or without a handshake.
daemonStatus ==
  /\ Take("status")
  /\ \E ok \in {FALSE, ~daemonIdle} :
       /\ Send(<<Reply("status", ok)>>)
       /\ refused' = (refused \/ (~ok /\ ~daemonIdle))
  /\ UNCHANGED conns

daemonActivate ==
  LET k == Head(toDaemon).key IN
  /\ Take("activate")
  /\ \/ /\ Service!Activated(SingleHop, k)
        /\ Send(<<Reply("activate", TRUE)>>)
        /\ UNCHANGED refused
     \/ /\ Service!NotActivated(SingleHop, k)
        /\ Send(<<Reply("activate", FALSE)>>)
        /\ refused' = (refused \/ conns' # Service!NoConns)

\* The signal is emitted before the method returns, and whatever became of the
\* interface; an unauthorized caller changes nothing and there is no signal.
daemonDeactivate ==
  /\ Take("deactivate")
  /\ \/ /\ Service!Deactivated
        /\ \E ok \in BOOLEAN :
             Send(<<[ev |-> "disconnected"], Reply("deactivate", ok)>>)
        /\ UNCHANGED refused
     \/ /\ UNCHANGED conns
        /\ Send(<<Reply("deactivate", FALSE)>>)
        /\ refused' = (refused \/ ~daemonIdle)

daemonAnnounces ==
  /\ serving
  /\ Service!Announced({SingleHop})
  /\ Send(<<[ev |-> "connected", key |-> conns[SingleHop].server]>>)
  /\ UNCHANGED <<ctlVars, serving, toDaemon, stops, refused, overtaken>>

\* The bus tells of the lost owner and answers the calls that are left.
daemonStops ==
  /\ stops < MaxStops
  /\ stops' = stops + 1
  /\ Service!stop
  /\ Send(<<[ev |-> "ownerLost"]>> \o
          [i \in DOMAIN toDaemon |-> Error(toDaemon[i])])
  /\ toDaemon' = <<>>
  /\ UNCHANGED <<ctlVars, refused, overtaken>>

\* A call, or systemd, starts it.
daemonStarts ==
  /\ Service!start /\ serving'
  /\ UNCHANGED <<ctlVars, toDaemon, fromDaemon, stops, refused, overtaken>>

\* It cannot be started.
callFails ==
  /\ ~serving
  /\ toDaemon # <<>>
  /\ Send(<<Error(Head(toDaemon))>>)
  /\ toDaemon' = Tail(toDaemon)
  /\ UNCHANGED <<ctlVars, conns, serving, stops, refused, overtaken>>

DaemonAnswers ==
  daemonStatus \/ daemonActivate \/ daemonDeactivate \/ callFails

DaemonNext == DaemonAnswers \/ daemonAnnounces \/ daemonStops \/ daemonStarts

-----------------------------------------------------------------------------

Settled == toDaemon = <<>> /\ fromDaemon = <<>> /\ call = NoCall

Quietly(A) ==
  /\ Len(toDaemon) + Len(fromDaemon) < MaxInFlight
  /\ A
  /\ UNCHANGED linuxVars

startup == Quietly(~initPending /\ initialize)
userActivates == \E user \in Users, k \in Keys : Quietly(activateProfile(k, user))
userDeactivates == \E user \in Users : Quietly(deactivate(user))
userQuits == Quietly(quit)
handshakeTimesOut == Quietly(handshakeTimeout)

LinuxNext ==
  \/ startup \/ userActivates \/ userDeactivates \/ userQuits
  \/ handshakeTimesOut \/ BackendNext \/ DaemonNext

LinuxSpec == LinuxInit /\ [][LinuxNext]_vars

\* The event loops of client and daemon run, the handshake timer is due, and
\* the bus answers calls that the daemon cannot.  No handshake is promised.
LinuxFairSpec ==
  /\ LinuxSpec
  /\ WF_vars(startup)
  /\ WF_vars(BackendNext)
  /\ WF_vars(handshakeTimesOut)
  /\ WF_vars(DaemonAnswers)

-----------------------------------------------------------------------------

\* The end of a deactivation is on its way to the client.
EndUnderWay ==
  \/ call = CallDeactivate
  \/ \E i \in DOMAIN toDaemon : toDaemon[i].op = "deactivate"
  \/ \E i \in DOMAIN fromDaemon :
       \/ fromDaemon[i].ev \in {"disconnected", "ownerLost"}
       \/ fromDaemon[i].ev \in {"activate", "deactivate"}
          /\ IsFailure(fromDaemon[i])

\* Waiting for disconnected() always has a reason: the daemon's refusal, its
\* signal, an error or the loss of its name is still to come, also when the
\* daemon was replaced in between (linuxcontroller.cpp:76, 162).
EndIsUnderWay ==
  \/ state = "Disconnecting"
  \/ state = "ConnectionError" /\ error # "NoServerAvailable" /\ backendAvailable
  => EndUnderWay

\* StateOff with a tunnel up has two causes only: a call that failed without
\* taking the tunnel down, and a second report of an earlier end (the signal
\* and the false result of one deactivate(), or the lost owner and the errors of
\* pending calls) that ended an attempt started since.
OffIsIdleUnless ==
  state = "Off" /\ queue = <<>> /\ backendAvailable /\ Settled /\ ~daemonIdle
    => refused \/ overtaken

\* StateOn means that the daemon has a connection, unless the end of it is on
\* the way, however often the daemon was replaced.
OnIsConnection ==
  state \in {"On", "OnPartial"} /\ Settled => ~daemonIdle

\* A connection attempt comes to an end, whatever fails.
LinuxAttemptEnds ==
  state \in {"Connecting", "Confirming"}
    ~> state \notin {"Connecting", "Confirming"}

\* Both ways in which what LinuxController leads the controller to show could
\* differ from what the daemon has.
ShownIsDaemons == OffIsIdleUnless /\ OnIsConnection

=============================================================================
