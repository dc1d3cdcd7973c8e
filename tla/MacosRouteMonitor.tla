-------------------------- MODULE MacosRouteMonitor --------------------------
(***************************************************************************)
(* MacosRouteMonitor of the macOS daemon: the routes past the tunnel to    *)
(* the addresses of the VPN server, which must follow the default route of *)
(* the system.  The daemon learns of changes from messages of the routing  *)
(* socket, handled one by one when its event loop runs, so its idea of the *)
(* default route (m_default) lags behind.                                  *)
(*                                                                         *)
(* A gateway is identified with its interface.  Messages that the handlers *)
(* ignore are left out: routes of an interface's own scope, routes with a  *)
(* netmask (the tunnel's and the exclusion routes themselves) and routes   *)
(* over the tunnel.                                                        *)
(***************************************************************************)
EXTENDS Naturals, Sequences

CONSTANTS
  MacServers,     \* servers the client may ask for
  MacNoServer,
  MacAddress,     \* the address of each, of both families; may be shared
  MacIfs,         \* interfaces to the internet: positive numbers
  MaxRtMessages   \* the system's default routes stay while as many messages wait

ASSUME MacAssumption ==
  MacNoServer \notin MacServers /\ MacIfs \subseteq Nat \ {0} /\ MaxRtMessages \in Nat

VARIABLES
  macPhase,       \* how far addInterface() and updatePeer() are
  macPeer,        \* the server whose peer is set up
  macExclusions,     \* m_exclusionRoutes
  m_default,      \* m_defaultIfindexIpv4 and 6, 0 if not known
  sysDefault,     \* the system's default route of each family, 0 if none
  linksUp,        \* interfaces that are up
  hostRoutes,     \* the interface of the route to each address, 0 if none
  rtQueue,        \* messages of the routing socket
  lapsed,         \* history: addresses whose route was not written or has gone
  orphans         \* history: routes of a daemon that crashed

macVars == <<macPhase, macPeer, macExclusions, m_default, sysDefault, linksUp,
             hostRoutes, rtQueue, lapsed, orphans>>
systemVars == <<sysDefault, linksUp>>

MacFamilies == {"v4", "v6"}
MacPrefixes == {MacAddress[s] : s \in MacServers} \X MacFamilies
PrefixesOf(s) == {MacAddress[s]} \X MacFamilies

MacInit ==
  /\ macPhase = "none" /\ macPeer = MacNoServer
  /\ macExclusions = {} /\ m_default = [f \in MacFamilies |-> 0]
  /\ sysDefault = [f \in MacFamilies |-> 0] /\ linksUp = {}
  /\ hostRoutes = [p \in MacPrefixes |-> 0]
  /\ rtQueue = <<>> /\ lapsed = {} /\ orphans = {}

MacTypeOK ==
  /\ macPhase \in {"none", "opened", "fetched", "up"}
  /\ macPeer \in MacServers \cup {MacNoServer}
  /\ {macExclusions, lapsed, orphans} \subseteq SUBSET MacPrefixes
  /\ {m_default, sysDefault} \subseteq [MacFamilies -> MacIfs \cup {0}]
  /\ linksUp \subseteq MacIfs
  /\ hostRoutes \in [MacPrefixes -> MacIfs \cup {0}]
  /\ rtQueue \in Seq([rtm : {"ADD", "CHANGE", "DELETE"}, fam : MacFamilies,
                      via : MacIfs \cup {0}])

-----------------------------------------------------------------------------
(* What the kernel does with a message of rtmSendRoute().                  *)

\* A route that exists is not added again, which rtmSendRoute() takes for
\* success (EEXIST); one that does not exist is not changed; and none is made
\* over an interface that is down.
Accepted(action, p, via) ==
  CASE action = "ADD"    -> hostRoutes[p] = 0 /\ via \in linksUp
    [] action = "CHANGE" -> hostRoutes[p] # 0 /\ via \in linksUp
    [] OTHER             -> TRUE

rtmSendRoute(action, ps, via) ==
  [p \in MacPrefixes |->
     IF p \in ps /\ Accepted(action, p, via) THEN via ELSE hostRoutes[p]]

-----------------------------------------------------------------------------
(* The daemon.                                                             *)

\* MacosRouteMonitor(): the socket is opened and the routes are fetched, while
\* the system goes on; messages are not handled before activate() returns.
openMonitor ==
  /\ macPhase = "none"
  /\ macPhase' = "opened" /\ rtQueue' = <<>>
  /\ UNCHANGED <<macPeer, macExclusions, m_default, hostRoutes, lapsed, orphans>>
  /\ UNCHANGED systemVars

rtmFetchRoutes ==
  /\ macPhase = "opened"
  /\ macPhase' = "fetched" /\ m_default' = sysDefault
  /\ UNCHANGED <<macPeer, macExclusions, hostRoutes, rtQueue, lapsed, orphans>>
  /\ UNCHANGED systemVars

\* addExclusionRoute() of both addresses: at once if the default route is known.
\* Its result is not looked at.
Immediate(new) == {p \in new : m_default[p[2]] # 0}

WithRoutes(new, routes) ==
  [p \in MacPrefixes |->
     IF p \in Immediate(new) /\ Accepted("ADD", p, m_default[p[2]])
     THEN m_default[p[2]] ELSE routes[p]]

\* deleteExclusionRoute().
WithoutRoutes_listOnly(old, routes) == routes
WithoutRoutes(old, routes) == [p \in MacPrefixes |-> IF p \in old THEN 0 ELSE routes[p]]

\* The first route of an address could not be written, or one was there already
\* that goes elsewhere.
Unwritten(new, routes) == {p \in new : routes[p] # m_default[p[2]]}

macActivate(s) ==
  LET new == PrefixesOf(s)
      routes == WithRoutes(new, hostRoutes)
  IN  /\ macPhase = "fetched"
      /\ macPhase' = "up" /\ macPeer' = s
      /\ macExclusions' = new /\ hostRoutes' = routes
      /\ lapsed' = Unwritten(new, routes)
      /\ orphans' = orphans \ new
      /\ UNCHANGED <<m_default, rtQueue>> /\ UNCHANGED systemVars

\* switchServer(): updatePeer() for the new server, then deletePeer() for the
\* old one, which takes a shared address away again.
macSwitchServer(s) ==
  LET old == PrefixesOf(macPeer)
      new == PrefixesOf(s) \ macExclusions
      routes == WithoutRoutes(old, WithRoutes(new, hostRoutes))
  IN  /\ macPhase = "up" /\ s # macPeer
      /\ macPeer' = s
      /\ macExclusions' = (macExclusions \cup new) \ old
      /\ hostRoutes' = routes
      /\ lapsed' = ((lapsed \cup Unwritten(new, routes)) \ old)
                     \cup (PrefixesOf(s) \cap old)
      /\ orphans' = orphans \ new
      /\ UNCHANGED <<macPhase, m_default, rtQueue>> /\ UNCHANGED systemVars

\* deactivate(), or an activation that fails: deletePeer(), and the destructor
\* flushes what is left and closes the socket.
macDeactivate ==
  /\ macPhase # "none"
  /\ macPhase' = "none" /\ macPeer' = MacNoServer
  /\ hostRoutes' = WithoutRoutes(macExclusions, hostRoutes)
  /\ macExclusions' = {} /\ m_default' = [f \in MacFamilies |-> 0]
  /\ rtQueue' = <<>> /\ lapsed' = {}
  /\ UNCHANGED orphans /\ UNCHANGED systemVars

macCrash ==
  /\ macPhase # "none"
  /\ macPhase' = "none" /\ macPeer' = MacNoServer
  /\ orphans' = orphans \cup {p \in macExclusions : hostRoutes[p] # 0}
  /\ macExclusions' = {} /\ m_default' = [f \in MacFamilies |-> 0]
  /\ rtQueue' = <<>> /\ lapsed' = {}
  /\ UNCHANGED hostRoutes /\ UNCHANGED systemVars

Excluded(f) == {p \in macExclusions : p[2] = f}

handleRtmDelete(f) ==
  /\ m_default' = [m_default EXCEPT ![f] = 0]
  /\ hostRoutes' = rtmSendRoute("DELETE", Excluded(f), 0)

handleRtmUpdate_alwaysAdds(f, via) ==
  /\ m_default' = [m_default EXCEPT ![f] = via]
  /\ hostRoutes' = rtmSendRoute("ADD", Excluded(f), via)

\* RTM_CHANGE if a default route was known, RTM_ADD otherwise.
handleRtmUpdate(f, via) ==
  LET action == IF m_default[f] # 0 THEN "CHANGE" ELSE "ADD"
  IN  /\ m_default' = [m_default EXCEPT ![f] = via]
      /\ hostRoutes' = rtmSendRoute(action, Excluded(f), via)

\* The routes that a message would move to an interface that has gone meanwhile.
Outdated(msg) == IF msg.via \in linksUp THEN {} ELSE Excluded(msg.fam)

rtsockReady ==
  /\ macPhase = "up" /\ rtQueue # <<>>
  /\ LET msg == Head(rtQueue)
     IN  IF msg.rtm = "DELETE" THEN handleRtmDelete(msg.fam)
         ELSE handleRtmUpdate(msg.fam, msg.via)
  /\ rtQueue' = Tail(rtQueue)
  /\ lapsed' = {p \in lapsed \cup Outdated(Head(rtQueue)) :
                  p \in macExclusions => hostRoutes'[p] # m_default'[p[2]]}
  /\ UNCHANGED <<macPhase, macPeer, macExclusions, orphans>> /\ UNCHANGED systemVars

-----------------------------------------------------------------------------
(* The system.                                                             *)

\* The kernel's message, if a socket is open to get it.
Told(msgs) == rtQueue' = IF macPhase = "none" THEN <<>> ELSE rtQueue \o msgs

defaultSet(f, i) ==
  /\ i \in linksUp /\ sysDefault[f] # i /\ Len(rtQueue) < MaxRtMessages
  /\ sysDefault' = [sysDefault EXCEPT ![f] = i]
  /\ Told(<<[rtm |-> IF sysDefault[f] = 0 THEN "ADD" ELSE "CHANGE", fam |-> f, via |-> i]>>)
  /\ UNCHANGED <<macPhase, macPeer, macExclusions, m_default, linksUp, hostRoutes, lapsed, orphans>>

Lost(f) == [rtm |-> "DELETE", fam |-> f, via |-> 0]

defaultLost(f) ==
  /\ sysDefault[f] # 0 /\ Len(rtQueue) < MaxRtMessages
  /\ sysDefault' = [sysDefault EXCEPT ![f] = 0]
  /\ Told(<<Lost(f)>>)
  /\ UNCHANGED <<macPhase, macPeer, macExclusions, m_default, linksUp, hostRoutes, lapsed, orphans>>

linkRises(i) ==
  /\ i \notin linksUp
  /\ linksUp' = linksUp \cup {i}
  /\ UNCHANGED <<macPhase, macPeer, macExclusions, m_default, sysDefault, hostRoutes,
                 rtQueue, lapsed, orphans>>

\* With an interface go its routes: also those that are about to be moved to
\* another interface, which then cannot be changed.
linkFalls(i) ==
  LET lost(f) == IF sysDefault[f] = i THEN <<Lost(f)>> ELSE <<>>
      without(fn) == [x \in DOMAIN fn |-> IF fn[x] = i THEN 0 ELSE fn[x]]
  IN  /\ i \in linksUp /\ Len(rtQueue) < MaxRtMessages
      /\ linksUp' = linksUp \ {i}
      /\ sysDefault' = without(sysDefault)
      /\ hostRoutes' = without(hostRoutes)
      /\ orphans' = {p \in orphans : hostRoutes'[p] # 0}
      /\ Told(lost("v4") \o lost("v6"))
      /\ lapsed' = lapsed \cup {p \in macExclusions : hostRoutes[p] = i /\ sysDefault[p[2]] # i}
      /\ UNCHANGED <<macPhase, macPeer, macExclusions, m_default>>

MacDaemonNext ==
  \/ openMonitor \/ rtmFetchRoutes
  \/ \E s \in MacServers : macActivate(s) \/ macSwitchServer(s)
  \/ macDeactivate \/ macCrash \/ rtsockReady

MacSystemNext ==
  \/ \E f \in MacFamilies : defaultLost(f) \/ \E i \in MacIfs : defaultSet(f, i)
  \/ \E i \in MacIfs : linkRises(i) \/ linkFalls(i)

MacNext == MacDaemonNext \/ MacSystemNext

MacSpec == MacInit /\ [][MacNext]_macVars

-----------------------------------------------------------------------------

\* As soon as the messages are handled, the packets to the server take the
\* system's default route, and none if there is none, whatever changed while the
\* daemon was starting, switching or behind with the messages: else they would
\* enter the tunnel they are to carry.  Excepted are addresses whose first route
\* the kernel refused, was there before, or was deleted with the old server's, those
\* whose route fell with its interface before it was moved to another, and those that
\* were to be moved to an interface that had gone meanwhile and could not be.
MacExclusionsFollow ==
  macPhase = "up" /\ rtQueue = <<>> =>
    \A p \in PrefixesOf(macPeer) \ lapsed : hostRoutes[p] = sysDefault[p[2]]

\* No other address keeps its route past the tunnel, but for routes of a daemon
\* that crashed.
MacNoStrayRoutes ==
  \A p \in MacPrefixes : hostRoutes[p] # 0 => p \in macExclusions \cup orphans

\* The routes of excluded servers follow the default route, and none is left over.
MacRoutesRight == MacExclusionsFollow /\ MacNoStrayRoutes

=============================================================================
