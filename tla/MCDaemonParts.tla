--------------------------- MODULE MCDaemonParts ----------------------------
(* One instance for TLC of the parts of the daemon that keep state of       *)
(* their own and do not act on each other: the Linux service, its packet   *)
(* filter and its resolver, the packet filter and the routes of the        *)
(* Windows daemon and its split tunnel, and the routes of the macOS        *)
(* daemon.  Each behaviour is one of the part that its first state names;  *)
(* the others rest.                                                        *)
EXTENDS Daemon, Netfilter, DnsUtilsLinux, WindowsFirewall, WindowsRouteMonitor,
        MacosRouteMonitor, WindowsSplitTunnel

CONSTANTS s1, s2, s3, d1, d2, a1, w1, w2

VARIABLE part

partVars == <<part, daemonVars, filterVars, dnsVars, win, routeVars, macVars,
              splitVars>>

\* Single hop to both servers for two devices, with the application excluded
\* and not; multi hop over either server, the exit with the application
\* excluded as the controller sends it.
MCConfigs ==
  [hop : {"SingleHop"}, server : Servers, device : Devices, apps : SUBSET Apps]
    \cup [hop : {"MultiHopEntry"}, server : Servers, device : {d1},
          apps : {{}}]
    \cup [hop : {"MultiHopExit"}, server : Servers, device : {d1},
          apps : {{a1}}]

\* A default route and one to each half of a space of addresses, on each of two
\* interfaces whose metrics rank them the other way round than the routes'.
MCIfMetric == <<1, 2>>
MCSysRows == {[dest |-> d, luid |-> l, metric |-> IF l = 1 THEN 3 ELSE 1] :
                d \in {<<>>, <<0>>, <<1>>}, l \in {1, 2}}
MCExcludable == {<<0>>, <<1, 1>>}

\* Two servers share an address.
MCMacAddress == [s \in MacServers |-> IF s = s3 THEN 2 ELSE 1]

PartsInit ==
  /\ part \in {"service", "netfilter", "resolver", "windows firewall",
               "windows routes", "windows split tunnel", "macos routes"}
  /\ DaemonInit /\ FilterInit /\ WinInit /\ RouteInit /\ MacInit
  /\ DnsInit /\ (part # "resolver" => own = {})
  /\ SplitInit /\ (part # "windows split tunnel" => ~mullvad /\ outside = w1)

PartsNext ==
  /\ UNCHANGED part
  /\ \/ /\ part = "service" /\ DaemonNext
        /\ UNCHANGED <<filterVars, dnsVars, win, routeVars, macVars, splitVars>>
     \/ /\ part = "netfilter" /\ FilterNext
        /\ UNCHANGED <<daemonVars, dnsVars, win, routeVars, macVars, splitVars>>
     \/ /\ part = "resolver" /\ DnsNext
        /\ UNCHANGED <<daemonVars, filterVars, win, routeVars, macVars, splitVars>>
     \/ /\ part = "windows firewall" /\ WinNext
        /\ UNCHANGED <<daemonVars, filterVars, dnsVars, routeVars, macVars, splitVars>>
     \/ /\ part = "windows routes" /\ RouteNext
        /\ UNCHANGED <<daemonVars, filterVars, dnsVars, win, macVars, splitVars>>
     \/ /\ part = "macos routes" /\ MacNext
        /\ UNCHANGED <<daemonVars, filterVars, dnsVars, win, routeVars, splitVars>>
     \/ /\ part = "windows split tunnel" /\ SplitNext
        /\ UNCHANGED <<daemonVars, filterVars, dnsVars, win, routeVars, macVars>>

PartsSpec ==
  /\ PartsInit /\ [][PartsNext]_partVars
  /\ WF_daemonVars(part = "service" /\ checkHandshake)

\* The values the parts keep have the types of the variables they stand for.
PartsTypeOK == DaemonTypeOK /\ DnsTypeOK /\ WinTypeOK /\ RouteTypeOK /\ MacTypeOK
               /\ SplitTypeOK
=============================================================================
