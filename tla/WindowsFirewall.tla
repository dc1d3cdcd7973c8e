--------------------------- MODULE WindowsFirewall ---------------------------
(***************************************************************************)
(* The kill switch of the Windows daemon: WindowsFirewall                  *)
(* (src/src/platforms/windows/daemon/windowsfirewall.cpp) as the Windows   *)
(* daemon drives it through WireguardUtilsWindows.                         *)
(*                                                                         *)
(* Filters enter the filter engine in transactions.  The daemon knows a    *)
(* filter by the identifier it keeps (m_activeRules, m_peerRules); one     *)
(* whose identifier is lost stays until the daemon ends.  As in Daemon, a  *)
(* method is the set of its outcomes; its state also records every rule    *)
(* set that was in force on the way (`seen'), since packets pass between   *)
(* two transactions.                                                       *)
(*                                                                         *)
(* In one sublayer the matching filter of the highest weight decides; two  *)
(* of the same weight leave it to the engine's automatic weighting, so     *)
(* nothing is claimed then.  Nothing matching lets a packet pass.          *)
(***************************************************************************)
EXTENDS Naturals, FiniteSets

CONSTANTS
  WinServers,   \* public keys
  WinDevices,   \* keys, addresses and gateways of an activation
  MaxLost       \* bound on the filters whose identifiers are lost

VARIABLE
  win           \* the daemon and the filter engine

WinHops == {"SingleHop", "MultiHopEntry", "MultiHopExit"}
DnsSetups == {"none", "gateway", "custom"}
WinConfig == [hop : WinHops, server : WinServers, device : WinDevices, dns : DnsSetups]

\* The entry of two hops gets no resolver (controller.cpp), the others do.
WinConfigs == {c \in WinConfig : (c.hop = "MultiHopEntry") = (c.dns = "none")}

-----------------------------------------------------------------------------
(* Filters and packets.                                                    *)

Out == {"out4", "out6"}
In == {"in4", "in6"}
LOW_WEIGHT == 0
MED_WEIGHT == 7
HIGH_WEIGHT == 13
MAX_WEIGHT == 15

WinAddrs == {"lan", "host", "exit", "gateway", "custom"}

Filter(layers, fields, weight, act) ==
  [layers |-> layers, fields |-> fields, weight |-> weight, act |-> act]
Permit(layers, fields, weight) == Filter(layers, fields, weight, "permit")
Block(layers, fields, weight) == Filter(layers, fields, weight, "block")

allowTrafficOfAdapter(iface, weight) == Permit(Out \cup In, [iface |-> {iface}], weight)
allowTrafficForAppOnAll(weight) == Permit(Out \cup In, [app |-> {"daemon"}], weight)
blockTrafficOnPort(weight) == Block(Out \cup In, [svc |-> {"dns"}], weight)
blockTrafficTo(addrs, weight) == Block(Out \cup In, [addr |-> addrs], weight)
allowTrafficTo(addrs, weight) == Permit(Out \cup In, [addr |-> addrs], weight)

\* Out to the IPv4 broadcast address only, in from anywhere; the ports are the
\* same for IPv6.
allowDHCPTraffic(weight) ==
  {Permit({"out4"}, [svc |-> {"dhcp"}, addr |-> {"lan"}], weight),
   Permit({"in4", "out6", "in6"}, [svc |-> {"dhcp"}], weight)}

allowHyperVTraffic(weight) == Permit({"mac"}, [iface |-> {"vm"}], weight)

InterfaceFilters_dnsLow ==
  {allowTrafficOfAdapter("tunnel", MED_WEIGHT), allowHyperVTraffic(MED_WEIGHT),
   allowTrafficForAppOnAll(MAX_WEIGHT), blockTrafficOnPort(LOW_WEIGHT),
   allowTrafficOfAdapter("lo", MED_WEIGHT)} \cup allowDHCPTraffic(MED_WEIGHT)

\* The filters of enableInterface().
InterfaceFilters ==
  {allowTrafficOfAdapter("tunnel", MED_WEIGHT), allowHyperVTraffic(MED_WEIGHT),
   allowTrafficForAppOnAll(MAX_WEIGHT), blockTrafficOnPort(MED_WEIGHT),
   allowTrafficOfAdapter("lo", MED_WEIGHT)} \cup allowDHCPTraffic(MED_WEIGHT)

\* The resolver of a server is its IPv4 gateway, and then the IPv6 gateway too;
\* another one has one address.
ResolverLayers(dns) == IF dns = "gateway" THEN Out \cup In ELSE {"out4", "in4"}

allowResolver_medium(dns) ==
  Permit(ResolverLayers(dns), [svc |-> {"dns"}, addr |-> {dns}], MED_WEIGHT)

allowResolver(dns) ==
  Permit(ResolverLayers(dns), [svc |-> {"dns"}, addr |-> {dns}], HIGH_WEIGHT)

\* The filters of one transaction: those of the adapter, of the local networks,
\* or of a server with the ranges it takes (all, or the exit) and its resolver.
InterfaceRules == [of |-> "interface"]
LanRules == [of |-> "lan"]
PeerRules(c) == [of |-> "peer", server |-> c.server, all |-> c.hop # "MultiHopEntry",
                 dns |-> c.dns]

FiltersOf(rules) ==
  CASE rules.of = "interface" -> InterfaceFilters
    [] rules.of = "lan"       -> {allowTrafficTo({"lan"}, LOW_WEIGHT + 1)}
    [] rules.of = "peer"      ->
         {blockTrafficTo(IF rules.all THEN WinAddrs ELSE {"exit"}, LOW_WEIGHT)}
           \cup (IF rules.dns = "none" THEN {} ELSE {allowResolver(rules.dns)})

Packet == [layer : Out \cup In, iface : {"tunnel", "lo", "eth"}, app : {"daemon", "other"},
           svc : {"web", "dns", "dhcp"}, addr : WinAddrs]

WinMatches(f, p) ==
  p.layer \in f.layers /\ \A k \in DOMAIN f.fields : p[k] \in f.fields[k]

\* What the filters that decide say, of those in force.
Says(inForce, p) ==
  LET match == {f \in UNION {FiltersOf(r) : r \in inForce} : WinMatches(f, p)}
      top == {f \in match : \A g \in match : g.weight <= f.weight}
  IN  IF match = {} THEN {"permit"} ELSE {f.act : f \in top}

-----------------------------------------------------------------------------
(* Outcomes of the firewall's methods, on the state                        *)
(*   known     filters in the engine whose identifiers the daemon has      *)
(*   orphans   filters in the engine whose identifiers are lost            *)
(*   seen      what has been in force since the call began                 *)
(*   adapter   m_adapter is set                                            *)
(*   conn      m_connections                                               *)
(*   whole     history: no activation failed since the adapter was made    *)
(*   stuck     history: the last attempt to remove the filters failed      *)

WOk(s) == [ok |-> TRUE, s |-> s]
WFail(s) == [ok |-> FALSE, s |-> s]
WThen(outcomes, F(_)) == UNION {IF o.ok THEN F(o.s) ELSE {o} : o \in outcomes}
WFailing(outcomes) == {WFail(o.s) : o \in outcomes}

InForce(s) == s.known \cup s.orphans
Transact(s, filters) ==
  [s EXCEPT !.known = filters, !.seen = @ \cup {filters \cup s.orphans}]

disableKillSwitch_activeRulesOnly(s) ==
  {WFail([s EXCEPT !.stuck = TRUE]),
   WOk([Transact(s, {r \in s.known : r.of = "peer"}) EXCEPT !.whole = FALSE, !.stuck = FALSE])}

\* A transaction that fails is aborted; the identifiers are kept.
disableKillSwitch(s) ==
  {WFail([s EXCEPT !.stuck = TRUE]),
   WOk([Transact(s, {}) EXCEPT !.whole = FALSE, !.stuck = FALSE])}

\* The transaction begins and then fails, or is not begun.
enableInterface(s) ==
  {WOk([Transact(s, s.known \cup {InterfaceRules}) EXCEPT !.whole = TRUE]), WFail(s)}
    \cup WFailing(disableKillSwitch(s))

enableLanBypass(s) ==
  {WOk(Transact(s, s.known \cup {LanRules}))} \cup WFailing(disableKillSwitch(s))

enablePeerTraffic(s, c) ==
  {WOk(Transact(s, s.known \cup {PeerRules(c)}))} \cup WFailing(disableKillSwitch(s))

\* The identifiers are dropped before the transaction is committed.
disablePeerTraffic(s, server) ==
  LET ofPeer == {r \in s.known : r.of = "peer" /\ r.server = server}
  IN  {WFail(s), WOk(Transact(s, s.known \ ofPeer)),
       WFail([s EXCEPT !.known = @ \ ofPeer, !.orphans = @ \cup ofPeer])}

-----------------------------------------------------------------------------
(* WireguardUtilsWindows.                                                  *)

\* The adapter, its key and addresses may fail before the firewall is touched.
winAddInterface(s) ==
  {WFail(s)} \cup
    WThen(enableInterface(s), LAMBDA t : {WOk([t EXCEPT !.adapter = TRUE])})
    \cup UNION {WFailing(disableKillSwitch(o.s)) : o \in {p \in enableInterface(s) : ~p.ok}}

winUpdatePeer(s, c) ==
  WThen(enablePeerTraffic(s, c),
        LAMBDA t : {WFail(t), WOk(t)})

\* The result of the firewall is not looked at.
winDeletePeer(s, server) ==
  {WFail(s)} \cup {WOk(o.s) : o \in disablePeerTraffic(s, server)}

\* Nor is it here.
winDeleteInterface(s) ==
  IF ~s.adapter THEN {WFail(s)}
  ELSE {WOk([o.s EXCEPT !.adapter = FALSE]) : o \in disableKillSwitch(s)}

-----------------------------------------------------------------------------
(* Daemon, with resolvers and routes that may fail.                        *)

Unconnected == [hop |-> "none"]
WConnected(s, h) == s.conn[h] # Unconnected
NoConn == [h \in WinHops |-> Unconnected]

winSwitchServer_oldFirst(s, c) ==
  LET last == s.conn[c.hop].server
  IN  WThen(IF last = c.server THEN {WOk(s)} ELSE winDeletePeer(s, last),
            LAMBDA t : WThen(winUpdatePeer(t, c), LAMBDA u : {WOk([u EXCEPT !.conn[c.hop] = c])}))

\* The new peer's filters are in force before the old one's go.
winSwitchServer(s, c) ==
  LET last == s.conn[c.hop].server
  IN  WThen(winUpdatePeer(s, c),
            LAMBDA t : WThen(IF last = c.server THEN {WOk(t)} ELSE winDeletePeer(t, last),
                             LAMBDA u : {WOk([u EXCEPT !.conn[c.hop] = c])}))

\* A connection that is new: the interface, the LAN, the peer, then the rest.
bringUp(s, c) ==
  LET adapterMade == IF s.adapter THEN {WOk(s)} ELSE WThen(winAddInterface(s), enableLanBypass)
  IN  WThen(adapterMade,
            LAMBDA t : WThen(winUpdatePeer(t, c),
                             LAMBDA u : {WFail(u), WOk([u EXCEPT !.conn[c.hop] = c])}))

\* deactivate(), hop by hop; the results of winDeletePeer() are not looked at.
hopDown(s, h) ==
  IF WConnected(s, h) THEN {o.s : o \in winDeletePeer(s, s.conn[h].server)} ELSE {s}

takeDown(s) ==
  LET peersGone == UNION {UNION {hopDown(u, "MultiHopExit") : u \in hopDown(t, "MultiHopEntry")}
                            : t \in hopDown(s, "SingleHop")}
  IN  UNION {winDeleteInterface([t EXCEPT !.conn = NoConn]) : t \in peersGone}

\* activationFailure() disables the kill switch (WindowsDaemon's constructor).
onFailure(outcomes) ==
  {o \in outcomes : o.ok} \cup
    {WFail([o.s EXCEPT !.whole = FALSE]) :
       o \in UNION {disableKillSwitch(p.s) : p \in {q \in outcomes : ~q.ok}}}

sameDevice(s, c) == s.conn[c.hop].device = c.device

activateOutcomes(s, c) ==
  onFailure(
    IF ~WConnected(s, c.hop) THEN bringUp(s, c)
    ELSE IF sameDevice(s, c) THEN WThen(winSwitchServer(s, c), LAMBDA t : {WFail(t), WOk(t)})
    ELSE WThen(takeDown(s), LAMBDA t : onFailure(bringUp(t, c))))

-----------------------------------------------------------------------------

WinFresh == [known |-> {}, orphans |-> {}, seen |-> {}, adapter |-> FALSE,
             conn |-> NoConn, whole |-> FALSE, stuck |-> FALSE]

WinInit == win = WinFresh

Begun == [win EXCEPT !.seen = {InForce(win)}]

\* Controller activates a single hop, or an entry and then an exit.
InOrder(c) ==
  CASE c.hop = "SingleHop"     -> ~WConnected(win, "MultiHopEntry")
    [] c.hop = "MultiHopEntry" -> ~WConnected(win, "SingleHop")
    [] OTHER                   -> WConnected(win, "MultiHopEntry")

\* The entry and the exit are different servers.
OwnServer(c) ==
  \A h \in WinHops \ {c.hop} : WConnected(win, h) => win.conn[h].server # c.server

\* The hops that take all traffic.
Carrying(s) == {h \in {"SingleHop", "MultiHopExit"} : WConnected(s, h)}

\* Traffic of an application that bypasses the tunnel: neither to the LAN, nor
\* DHCP, nor to a resolver (a server keeps all that were chosen for it), and
\* name queries wherever else they go.
Bypass(s) ==
  {p \in Packet : /\ p.iface = "eth" /\ p.app = "other"
                  /\ \/ p.svc = "web" /\ p.addr # "lan"
                     \/ p.svc = "dns" /\ \A r \in InForce(s) : r.of = "peer" => p.addr # r.dns}

\* What bypasses the tunnel between two steps, if the kill switch is whole at
\* both and the connection just goes on; kept for WinNoGap.
Gaps(s, t) ==
  {r \in t.seen : /\ s.whole /\ t.whole
                  /\ \E h \in Carrying(s) \cap Carrying(t) : s.conn[h].device = t.conn[h].device
                  /\ \E p \in Bypass(s) \cap Bypass(t) : Says(r, p) # {"block"}}
Ended(o) == [o.s EXCEPT !.seen = Gaps(win, o.s)]

\* Bound: no activation once more than MaxLost filters were lost.
winActivate ==
  Cardinality(win.orphans) <= MaxLost /\ \E c \in WinConfigs :
    InOrder(c) /\ OwnServer(c) /\ \E o \in activateOutcomes(Begun, c) : win' = Ended(o)

winDeactivate == \E o \in takeDown(Begun) : win' = Ended(o)

\* The session is dynamic: its filters end with the daemon, and so does the
\* adapter.
winCrash == win # WinFresh /\ win' = WinFresh

WinNext == winActivate \/ winDeactivate \/ winCrash

WinSpec == WinInit /\ [][WinNext]_win

-----------------------------------------------------------------------------

\* While a connection carries all traffic and nothing failed since the adapter
\* was made, no application gets past the tunnel, whichever servers, resolvers
\* and hops were chosen before.
WinFenced == win.whole /\ Carrying(win) # {} =>
  \A p \in Bypass(win) : Says(InForce(win), p) = {"block"}

\* A switch of servers has no gap: at no moment of it the filters of neither
\* server are in force.
WinNoGap == win.seen = {}

\* What the kill switch must let pass, passes: the tunnel, the daemon itself,
\* the local network, and names through the tunnel from the chosen resolver,
\* which outweigh the blocks of all traffic and of all other names.
WinUsable ==
  win.whole =>
    \A h \in Carrying(win), p \in Packet :
      \/ p.app = "daemon"
      \/ p.svc = "web" /\ (p.iface = "tunnel" \/ p.addr = "lan")
      \/ p.svc = "dns" /\ p.iface = "tunnel" /\ p.addr = win.conn[h].dns
           /\ p.layer \in ResolverLayers(win.conn[h].dns)
      => Says(InForce(win), p) = {"permit"}

\* Without an adapter no filter is left to block traffic: those of every peer
\* and of the adapter are found and removed, whatever failed before, unless the
\* last attempt to remove them failed too.  (Filters whose identifiers were lost
\* when a peer's removal failed to commit do stay.)
WinReleased == ~win.adapter /\ ~win.stuck => win.known = {}

\* Types of the members of WindowsFirewall, WireguardUtilsWindows and Daemon.
WinTypeOK ==
  /\ {win.adapter, win.whole, win.stuck} \subseteq BOOLEAN
  /\ \A h \in WinHops : win.conn[h] \in WinConfigs \cup {Unconnected}
  /\ \A r \in InForce(win) : \A f \in FiltersOf(r) : f.weight \in 0 .. MAX_WEIGHT

\* The kill switch holds, also in the middle of a switch, leaves the tunnel and
\* the local network usable, and goes with the tunnel.
KillSwitchRight == WinFenced /\ WinNoGap /\ WinUsable /\ WinReleased

=============================================================================
