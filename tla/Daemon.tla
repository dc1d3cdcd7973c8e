------------------------------- MODULE Daemon -------------------------------
(***************************************************************************)
(* The privileged daemon of the plain Linux build: class Daemon            *)
(* (src/src/daemon/daemon.cpp), the D-Bus service that derives from it and *)
(* its helpers for WireGuard, the firewall and addresses                   *)
(* (src/src/platforms/linux/daemon/).                                      *)
(*                                                                         *)
(* A D-Bus method runs to its end before the daemon's event loop does      *)
(* anything else, so one method call is one step.  What makes it hard is   *)
(* that it is a chain of system calls each of which may fail: the method   *)
(* then returns false and everything the earlier ones did stays.  So a     *)
(* method is modelled by the SET OF ITS OUTCOMES, a result and the state   *)
(* it leaves, put together from the outcomes of its calls with Then (an    *)
(* early return on failure) and Regardless (the result is not looked at).  *)
(*                                                                         *)
(* Not kept, because no property tells their values apart: routes, policy  *)
(* rules, resolvers and LAN exclusions (the calls that set them still fail *)
(* where the code looks at the result), endpoint address families, and     *)
(* split tunnelling by net_cls cgroups (version 1).  No two servers share  *)
(* an address, and an application has one control group.                   *)
(*                                                                         *)
(* As in Controller, <Handler>_<slip> is a mutant of <Handler>.            *)
(***************************************************************************)
EXTENDS Naturals

CONSTANTS
  Servers,   \* public keys of the servers
  NoServer,  \* no server
  Devices,   \* private key, device addresses and gateways of an activation
  Apps,      \* desktop files, each with the control group it runs in
  Configs    \* the configurations the client may send

VARIABLES
  st,      \* members of the daemon, and what it has set up in the kernel
  running, \* the applications that AppTracker knows to run
  alive,   \* the daemon's process is running
  acked    \* the hops whose last activate() returned true

daemonVars == <<st, running, alive, acked>>

-----------------------------------------------------------------------------

HopType == {"SingleHop", "MultiHopEntry", "MultiHopExit"}

\* InterfaceConfig, as far as the daemon compares it.
Config == [hop : HopType, server : Servers, device : Devices,
           apps : SUBSET Apps]

ASSUME ConfigsAssumption == Configs \subseteq Config
ASSUME ServersAssumption == NoServer \notin Servers

NoConnection == [server |-> NoServer]

\* ConnectionState: its configuration, and whether m_date is valid.
Connection == [config : Config, date : BOOLEAN]

\* The kernel: the interface, whether it has its addresses and is up, its
\* peers, the peer that has the default route as allowed address, the peers
\* that have shaken hands; the firewall's tables, the servers and the control
\* groups they mark.
Kernel ==
  [link : BOOLEAN, ready : BOOLEAN, peers : SUBSET Servers,
   carrier : Servers \cup {NoServer}, shook : SUBSET Servers,
   tables : {"none", "partial", "full"}, marks : SUBSET Servers,
   cgroups : SUBSET Apps]

\* m_connections, m_handshakeTimer, m_peerEndpoints (the servers that are in
\* it), LinuxFirewall::m_isUp, m_excludedApps, m_excludedCgroups.
DaemonState ==
  [conn : [HopType -> Connection \cup {NoConnection}], timer : BOOLEAN,
   endpoints : SUBSET Servers, isUp : BOOLEAN, excludedApps : SUBSET Apps,
   excludedCgroups : SUBSET Apps, k : Kernel]

\* Types of the daemon's members and of what it keeps in the kernel
\* (daemon.h, dbusservice.h, wireguardutilslinux.h, linuxfirewall.h).
DaemonTypeOK ==
  /\ st \in DaemonState
  /\ running \subseteq Apps
  /\ alive \in BOOLEAN
  /\ acked \subseteq HopType

Idle == [h \in HopType |-> NoConnection]

NoKernel == [link |-> FALSE, ready |-> FALSE, peers |-> {},
             carrier |-> NoServer, shook |-> {}, tables |-> "none",
             marks |-> {}, cgroups |-> {}]

\* The members of a daemon that has just been constructed.
Fresh(kernel) ==
  [conn |-> Idle, timer |-> FALSE, endpoints |-> {}, isUp |-> FALSE,
   excludedApps |-> {}, excludedCgroups |-> {}, k |-> kernel]

DaemonInit ==
  /\ st = Fresh(NoKernel)
  /\ running = {}
  /\ alive = TRUE
  /\ acked = {}

Connected(s, h) == s.conn[h] # NoConnection

-----------------------------------------------------------------------------
(* Outcomes.                                                               *)

Ok(s) == [ok |-> TRUE, s |-> s]
Fail(s) == [ok |-> FALSE, s |-> s]

\* A call that takes s to t, or fails and leaves s.
MayFail(s, t) == {Fail(s), Ok(t)}

Then(outcomes, F(_)) == UNION {IF o.ok THEN F(o.s) ELSE {o} : o \in outcomes}
Regardless(outcomes, F(_)) == UNION {F(o.s) : o \in outcomes}

-----------------------------------------------------------------------------
(* LinuxFirewall.  Removing the tables removes the marks in them, and a    *)
(* mark cannot be set without tables nor removed when it is not there.     *)

down(s) ==
  IF s.isUp
    THEN MayFail(s, [s EXCEPT !.k.tables = "none", !.k.marks = {},
                              !.k.cgroups = {}])
    ELSE {Ok(s)}

\* Once the tables exist a failing rule takes them down again, if it can.
up(s) ==
  Then(MayFail(s, [s EXCEPT !.k.tables = "partial", !.isUp = TRUE]),
       LAMBDA t : {Ok([t EXCEPT !.k.tables = "full"])}
                    \cup {Fail(o.s) : o \in down(t)})

markInbound(s, server) ==
  IF s.k.tables = "none"
    THEN {Fail(s)}
    ELSE MayFail(s, [s EXCEPT !.k.marks = @ \cup {server}])

clearInbound(s, server) ==
  IF server \in s.k.marks
    THEN MayFail(s, [s EXCEPT !.k.marks = @ \ {server}])
    ELSE {Fail(s)}

-----------------------------------------------------------------------------
(* WireguardUtilsLinux and IPUtilsLinux.                                   *)

\* Netlink requests; whether the kernel carries them out is only logged.
rtmSendRule(s) == MayFail(s, s)
updateRoutePrefix(s) == MayFail(s, s)

\* The endpoint's address is looked up, with a bounded number of retries.
setPeerEndpoint(s) == MayFail(s, s)

\* addInterface(): the device with its key and mark, the policy rules, the
\* firewall, and the interface's index.
addInterface(s) ==
  Then(MayFail(s, [s EXCEPT !.k.link = TRUE]),
    LAMBDA t : Then(MayFail(t, t),
      LAMBDA u : Then(rtmSendRule(u),
        LAMBDA v : Then(up(v),
          LAMBDA w : MayFail(w, w)))))

addInterfaceIPs(s) == MayFail(s, s)

setMTUAndUp(s) == MayFail(s, [s EXCEPT !.k.ready = TRUE])

\* The default route is the allowed address of one peer only: the peer that
\* is given it takes it over.
AddPeer(s, c) ==
  [s EXCEPT !.k.peers = @ \cup {c.server},
            !.k.carrier = IF c.hop = "MultiHopEntry" THEN @ ELSE c.server]

updatePeer_ignoresFirewall(s, c) ==
  Regardless(markInbound(s, c.server),
    LAMBDA t : MayFail(t,
      AddPeer([t EXCEPT !.endpoints = @ \cup {c.server}], c)))

\* The endpoint is resolved and marked, then the peer is set.
updatePeer(s, c) ==
  Then(setPeerEndpoint(s),
       LAMBDA t : Then(markInbound(t, c.server),
         LAMBDA u :
           LET v == [u EXCEPT !.endpoints = @ \cup {c.server}]
           IN  MayFail(v, AddPeer(v, c))))

deletePeer(s, c) ==
  LET t == [s EXCEPT !.endpoints = @ \ {c.server}]
  IN  Then(IF c.server \in s.endpoints THEN clearInbound(t, c.server)
                                       ELSE {Ok(s)},
           LAMBDA u : MayFail(u,
             [u EXCEPT !.k.peers = @ \ {c.server},
                       !.k.shook = @ \ {c.server},
                       !.k.carrier = IF @ = c.server THEN NoServer ELSE @]))

\* deleteInterface(): firewall, policy rules, then the device if there is one.
deleteInterface(s) ==
  Then(down(s),
       LAMBDA t : Then(rtmSendRule(t),
         LAMBDA u :
           IF u.k.link
             THEN MayFail(u, [u EXCEPT !.k.link = FALSE, !.k.ready = FALSE,
                                       !.k.peers = {}, !.k.shook = {},
                                       !.k.carrier = NoServer])
             ELSE {Fail(u)}))

-----------------------------------------------------------------------------
(* Daemon.                                                                 *)

supportServerSwitching(s, c) ==
  Connected(s, c.hop) /\ s.conn[c.hop].config.device = c.device

SetConnection_noDate(s, c) ==
  [s EXCEPT !.conn[c.hop] = [config |-> c]]

SetConnection_keepsDate(s, c) ==
  [s EXCEPT !.conn[c.hop] =
     [config |-> c, date |-> Connected(s, c.hop) /\ s.conn[c.hop].date]]

\* ConnectionState(config): a connection without a date.
SetConnection(s, c) ==
  [s EXCEPT !.conn[c.hop] = [config |-> c, date |-> FALSE]]

switchServer_deletesAlways(s, c) ==
  LET last == s.conn[c.hop].config
  IN  Then(updatePeer(s, c),
           LAMBDA t : Then(deletePeer(t, last),
             LAMBDA u : {Ok(SetConnection(u, c))}))

\* The new peer, then the old one's removal.  Failing routes are only logged.
switchServer(s, c) ==
  LET last == s.conn[c.hop].config
  IN  Then(updatePeer(s, c),
           LAMBDA t : Then(
             IF c.server # last.server THEN deletePeer(t, last) ELSE {Ok(t)},
             LAMBDA u : {Ok(SetConnection(u, c))}))

\* Only the hop that reaches the internet changes the resolvers.
maybeUpdateResolvers(s, c) ==
  IF c.hop = "MultiHopEntry" THEN {Ok(s)} ELSE MayFail(s, s)

StartPolling_onlyFirst(s, c) ==
  [SetConnection(s, c) EXCEPT !.timer =
     \/ @
     \/ \A h \in HopType : ~Connected(s, h)]

\* The end of an activation that succeeds.
StartPolling(s, c) == [SetConnection(s, c) EXCEPT !.timer = TRUE]

activateSwitch(s, c) ==
  Then(switchServer(s, c),
       LAMBDA t : Then(maybeUpdateResolvers(t, c),
         LAMBDA u : {Ok(StartPolling(u, c))}))

\* The interface is set up only if there is none yet.
activateNew(s, c) ==
  Then(IF s.k.link
         THEN {Ok(s)}
         ELSE Then(Then(addInterface(s), addInterfaceIPs), setMTUAndUp),
       LAMBDA t : Then(updatePeer(t, c),
         LAMBDA u : Then(maybeUpdateResolvers(u, c),
           LAMBDA v : Then(updateRoutePrefix(v),
             LAMBDA w : {Ok(StartPolling(w, c))}))))

DeleteHop(s, h) ==
  IF Connected(s, h) THEN deletePeer(s, s.conn[h].config) ELSE {Ok(s)}

\* deactivate(): the peers of m_connections, then the interface.
deactivateTunnel(s) ==
  Regardless(DeleteHop(s, "SingleHop"),
    LAMBDA t : Regardless(DeleteHop(t, "MultiHopEntry"),
      LAMBDA u : Regardless(DeleteHop(u, "MultiHopExit"),
        LAMBDA v : deleteInterface([v EXCEPT !.conn = Idle]))))

-----------------------------------------------------------------------------
(* DBusService.                                                            *)

\* polkit's answer; the daemon's own calls are always authorized.
isCallerAuthorized(s) == MayFail(s, s)

clearAppStates(s) ==
  [s EXCEPT !.k.cgroups = {}, !.excludedApps = {}, !.excludedCgroups = {}]

setAppStates_notRunning(s, apps) ==
  [s EXCEPT !.excludedApps = apps]

\* setAppState(..., Excluded) of every application the configuration disables.
setAppStates(s, apps) ==
  [s EXCEPT !.excludedApps = apps,
            !.excludedCgroups = apps \cap running,
            !.k.cgroups = IF s.k.tables = "none" THEN {}
                                                 ELSE apps \cap running]

ReloadApps(s, c) == {Ok(setAppStates(clearAppStates(s), c.apps))}

serviceDeactivate(s) == deactivateTunnel(clearAppStates(s))

\* DBusService::activate() of a hop that is not connected.
serviceActivateNew(s, c) ==
  Then(isCallerAuthorized(s),
       LAMBDA t : Then(activateNew(t, c), LAMBDA u : ReloadApps(u, c)))

\* DBusService::activate().  Without server switching the tunnel is taken
\* down first, through the virtual functions and so with polkit asked again.
serviceActivate(s, c) ==
  IF ~Connected(s, c.hop)
    THEN serviceActivateNew(s, c)
    ELSE Then(isCallerAuthorized(s),
           LAMBDA t : Then(
             IF supportServerSwitching(t, c)
               THEN activateSwitch(t, c)
               ELSE Then(isCallerAuthorized(t),
                      LAMBDA u : Then(serviceDeactivate(u),
                        LAMBDA v : serviceActivateNew(v, c))),
             LAMBDA w : ReloadApps(w, c)))

-----------------------------------------------------------------------------
(* The steps.                                                              *)

\* What the controller sees to: single hop and multi hop never mix, and no
\* server serves two hops.
ClientMaySend(c) ==
  \A h \in HopType \ {c.hop} :
    Connected(st, h) =>
      /\ h # "SingleHop" /\ c.hop # "SingleHop"
      /\ st.conn[h].config.server # c.server

activate(c) ==
  /\ alive
  /\ ClientMaySend(c)
  /\ \E o \in serviceActivate(st, c) :
       /\ st' = o.s
       /\ acked' = {h \in IF o.ok THEN acked \cup {c.hop}
                                  ELSE acked \ {c.hop} :
                      Connected(o.s, h)}
  /\ UNCHANGED <<running, alive>>

\* deactivate() over D-Bus.
deactivate ==
  /\ alive
  /\ \E o \in Then(isCallerAuthorized(st), serviceDeactivate) :
       /\ st' = o.s
       /\ acked' = {h \in acked : Connected(o.s, h)}
  /\ UNCHANGED <<running, alive>>

\* A signal: the tunnel is taken down and the process ends, with another
\* down() from the destructor of LinuxFirewall.
quitRequested ==
  /\ alive
  /\ \E o \in Regardless(serviceDeactivate(st), down) : st' = Fresh(o.s.k)
  /\ alive' = FALSE
  /\ acked' = {}
  /\ UNCHANGED running

Dated(conn) ==
  [h \in HopType |->
     IF Connected(st, h) /\ conn[h].config.server \in st.k.shook
       THEN [conn[h] EXCEPT !.date = TRUE]
       ELSE conn[h]]

CheckHandshake_once ==
  [st EXCEPT !.conn = Dated(st.conn), !.timer = FALSE]

\* What checkHandshake() leaves: connections whose peer has shaken hands get
\* their date (and connected() is emitted), and the timer runs on if one of
\* the others still waits.
CheckHandshake ==
  LET conn == Dated(st.conn)
  IN  [st EXCEPT
         !.conn = conn,
         !.timer = \E h \in HopType : conn[h] # NoConnection /\ ~conn[h].date]

checkHandshake ==
  /\ alive /\ st.timer
  /\ st' = CheckHandshake
  /\ UNCHANGED <<running, alive, acked>>

\* AppTracker's signals.
appLaunched(a) ==
  /\ alive
  /\ a \notin running
  /\ running' = running \cup {a}
  /\ st' = IF a \in st.excludedApps
             THEN [st EXCEPT !.excludedCgroups = @ \cup {a},
                             !.k.cgroups = IF st.k.tables = "none" THEN @
                                             ELSE @ \cup {a}]
             ELSE st
  /\ UNCHANGED <<alive, acked>>

appTerminated(a) ==
  /\ alive
  /\ a \in running
  /\ running' = running \ {a}
  /\ st' = IF a \in st.excludedCgroups
             THEN [st EXCEPT !.excludedCgroups = @ \ {a},
                             !.k.cgroups = @ \ {a}]
             ELSE st
  /\ UNCHANGED <<alive, acked>>

\* A peer of an interface that is up shakes hands with its server.
handshake(server) ==
  /\ st.k.ready
  /\ server \in st.k.peers \ st.k.shook
  /\ st' = [st EXCEPT !.k.shook = @ \cup {server}]
  /\ UNCHANGED <<running, alive, acked>>

\* The process dies; the kernel keeps what it was told.
crash ==
  /\ alive
  /\ st' = Fresh(st.k)
  /\ alive' = FALSE
  /\ acked' = {}
  /\ UNCHANGED running

\* The constructors: LinuxFirewall removes the tables, whatever comes of it,
\* and DBusService the interface, or the process ends.
start ==
  /\ ~alive
  /\ \E o \in Regardless(down([st EXCEPT !.isUp = TRUE]),
                LAMBDA t : LET s == Fresh(t.k)
                           IN  IF s.k.link THEN deleteInterface(s)
                                           ELSE {Ok(s)}) :
       /\ st' = o.s
       /\ alive' = o.ok
  /\ acked' = {}
  /\ running' = {}

DaemonNext ==
  \/ \E c \in Configs : activate(c)
  \/ deactivate
  \/ quitRequested
  \/ checkHandshake
  \/ \E a \in Apps : appLaunched(a) \/ appTerminated(a)
  \/ \E server \in Servers : handshake(server)
  \/ crash
  \/ start

DaemonSpec == DaemonInit /\ [][DaemonNext]_daemonVars

\* The event loop runs a timer that has elapsed.
DaemonFairSpec == DaemonSpec /\ WF_daemonVars(checkHandshake)

-----------------------------------------------------------------------------
(* Properties.                                                             *)

Awaited(h) == h \in acked /\ ~st.conn[h].date

\* A connection that activate() reported as started and that has not shaken
\* hands is polled for its handshake, also after failed switches of other
\* hops and retries: the single-shot timer (daemon.cpp:93, 163, 513) runs.
AwaitedIsPolled ==
  \A h \in HopType : Awaited(h) => st.timer

HandshakeUnreported(h) ==
  Awaited(h) /\ st.conn[h].config.server \in st.k.shook

\* A handshake of a connection that activate() reported as started is
\* announced with connected(), unless another call takes that peer away
\* first: "the connection will be completed asynchronously by the emission of
\* either a connected or disconnected signal" (docs/Components/daemon.md:15).
HandshakeReported ==
  \A h \in HopType : []<>~HandshakeUnreported(h)

\* No connection is reported as started without the firewall's tables, whose
\* chains drop what is not let through, however many activations failed half
\* way before: a retry skips the set-up of an interface that exists
\* (daemon.cpp:114) but not the mark that needs the tables.
TunnelIsFenced ==
  acked # {} => st.k.tables # "none"

\* A connection reported as started has its peer in the kernel, its server's
\* packets marked, and the default route if it is the hop to the internet:
\* failed switches to other servers and back leave nothing else in charge.
PeerInPlace ==
  \A h \in acked :
    LET server == st.conn[h].config.server
    IN  /\ server \in st.k.peers \cap st.k.marks \cap st.endpoints
        /\ h # "MultiHopEntry" => st.k.carrier = server

\* While a connection is up the control groups exempt from the tunnel are
\* the running ones of the excluded applications, in whatever order
\* applications start and end and configurations are loaded.
SplitTunnelExact ==
  acked # {} => /\ st.k.cgroups = running \cap st.excludedApps
                /\ st.excludedCgroups = st.k.cgroups

\* "Bring up the wireguard interface if not already done." (daemon.cpp:113):
\* a connection reported as started runs over an interface with addresses
\* that is up.
ConnectionHasInterface ==
  acked # {} => st.k.ready

-----------------------------------------------------------------------------
(* What the clients rely on.                                               *)

\* The daemon as its D-Bus interface shows it.
Service == INSTANCE DaemonService WITH
  HopKinds <- HopType, Peers <- Servers, NoPeer <- NoServer, serving <- alive,
  conns <- [h \in HopType |->
              IF Connected(st, h)
                THEN [server |-> st.conn[h].config.server, told |-> st.conn[h].date]
                ELSE [server |-> NoServer, told |-> FALSE]]

\* The daemon implements the service its clients are modelled against: a true
\* result leaves the connection asked for, not yet announced; a false one leaves
\* the old connections, none, or the new one; and no handshake is announced that
\* was not asked for, whichever of the calls in the chain failed.
ImplementsService == Service!ServiceSpec

\* A connection reported as started has everything it stands for: its fence, its
\* peer, its excluded applications and a timer that waits for its handshake.
ConnectionInPlace ==
  AwaitedIsPolled /\ TunnelIsFenced /\ PeerInPlace /\ SplitTunnelExact

=============================================================================
