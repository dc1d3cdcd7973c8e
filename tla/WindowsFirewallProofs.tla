------------------------ MODULE WindowsFirewallProofs ------------------------
(***************************************************************************)
(* Proofs about the kill switch of the Windows daemon.                     *)
(*                                                                         *)
(* The first part is about filters: what a set of rules says of a packet   *)
(* follows from one matching filter that outweighs all matching filters of *)
(* the opposite action.  The second part follows the rules through the     *)
(* transactions of the daemon.                                             *)
(***************************************************************************)
EXTENDS WindowsFirewall, TLAPS

-----------------------------------------------------------------------------
(* Filters.                                                                *)

\* The rules that a transaction adds.
Rules == {InterfaceRules, LanRules} \cup {PeerRules(c) : c \in WinConfigs}

\* The rules of one server.
PeerRuleSet == [of : {"peer"}, server : WinServers, all : BOOLEAN, dns : DnsSetups]

\* Rules are of three kinds.
LEMMA RulesTyped == \A r \in Rules : r = InterfaceRules \/ r = LanRules \/ r \in PeerRuleSet
<1>1. \A c \in WinConfigs : PeerRules(c) \in PeerRuleSet
  BY DEF WinConfigs, WinConfig, PeerRules, PeerRuleSet
<1> QED BY <1>1 DEF Rules

\* The weights that filters have.
Weights == {0, 1, 7, 13, 15}

\* Of the filters that match, some have the greatest weight.
LEMMA SomeOnTop ==
  ASSUME NEW M, M # {}, \A f \in M : f.weight \in Weights
  PROVE  \E f \in M : \A g \in M : g.weight <= f.weight
<1> DEFINE Has(w) == \E f \in M : f.weight = w
<1>1. CASE Has(15)
  BY <1>1 DEF Weights
<1>2. CASE ~Has(15) /\ Has(13)
  BY <1>2 DEF Weights
<1>3. CASE ~Has(15) /\ ~Has(13) /\ Has(7)
  BY <1>3 DEF Weights
<1>4. CASE ~Has(15) /\ ~Has(13) /\ ~Has(7) /\ Has(1)
  BY <1>4 DEF Weights
<1>5. CASE ~Has(15) /\ ~Has(13) /\ ~Has(7) /\ ~Has(1)
  BY <1>5 DEF Weights
<1> QED BY <1>1, <1>2, <1>3, <1>4, <1>5

\* The filters in force that match a packet.
Matching(inForce, p) == {f \in UNION {FiltersOf(r) : r \in inForce} : WinMatches(f, p)}

\* A filter decides that outweighs all matching filters of another action.
LEMMA Outweighs ==
  ASSUME NEW inForce, NEW p, NEW f \in Matching(inForce, p),
         \A g \in Matching(inForce, p) : g.weight \in Weights,
         \A g \in Matching(inForce, p) : g.act = f.act \/ g.weight < f.weight
  PROVE  Says(inForce, p) = {f.act}
<1> DEFINE M == Matching(inForce, p)
           top == {g \in M : \A h \in M : h.weight <= g.weight}
<1>1. Says(inForce, p) = {g.act : g \in top}
  BY DEF Says, Matching
<1>2. PICK t \in M : \A g \in M : g.weight <= t.weight
  BY SomeOnTop
<1> HIDE DEF M
<1>3. t \in top
  BY <1>2
<1>4. \A g \in top : g.act = f.act
  <2> SUFFICES ASSUME NEW g \in top PROVE g.act = f.act
    OBVIOUS
  <2>1. g \in M /\ f.weight <= g.weight /\ g.weight \in Weights /\ f.weight \in Weights
    BY DEF M
  <2>2. ~(g.weight < f.weight)
    BY <2>1 DEF Weights
  <2> QED BY <2>1, <2>2 DEF M
<1> QED BY <1>1, <1>3, <1>4

\* The filters of the interface.
LEMMA InterfaceFiltersAre ==
  \A f : f \in FiltersOf(InterfaceRules) <=>
    \/ f = allowTrafficOfAdapter("tunnel", MED_WEIGHT)
    \/ f = allowHyperVTraffic(MED_WEIGHT)
    \/ f = allowTrafficForAppOnAll(MAX_WEIGHT)
    \/ f = blockTrafficOnPort(MED_WEIGHT)
    \/ f = allowTrafficOfAdapter("lo", MED_WEIGHT)
    \/ f = Permit({"out4"}, [svc |-> {"dhcp"}, addr |-> {"lan"}], MED_WEIGHT)
    \/ f = Permit({"in4", "out6", "in6"}, [svc |-> {"dhcp"}], MED_WEIGHT)
BY Zenon DEF FiltersOf, InterfaceRules, InterfaceFilters, allowDHCPTraffic

\* The filter of the local networks.
LEMMA LanFiltersAre ==
  FiltersOf(LanRules) = {allowTrafficTo({"lan"}, LOW_WEIGHT + 1)}
BY DEF FiltersOf, LanRules

\* The filters of a server.
LEMMA PeerFiltersAre ==
  ASSUME NEW r \in PeerRuleSet
  PROVE  \A f : f \in FiltersOf(r) <=>
           \/ f = blockTrafficTo(IF r.all THEN WinAddrs ELSE {"exit"}, LOW_WEIGHT)
           \/ r.dns # "none" /\ f = allowResolver(r.dns)
<1>1. r.of = "peer" /\ r.of # "interface" /\ r.of # "lan"
  BY DEF PeerRuleSet
<1> QED BY <1>1 DEF FiltersOf

\* The layers and the fields of a packet.
LEMMA PacketTyped ==
  ASSUME NEW p \in Packet
  PROVE  /\ p.layer \in Out \cup In /\ p.layer # "mac"
         /\ p.iface \in {"tunnel", "lo", "eth"} /\ p.app \in {"daemon", "other"}
         /\ p.svc \in {"web", "dns", "dhcp"} /\ p.addr \in WinAddrs
BY DEF Packet, Out, In

\* What a filter that matches a packet does to it, and why.
LEMMA InterfaceMatch ==
  ASSUME NEW p \in Packet, NEW f \in FiltersOf(InterfaceRules), WinMatches(f, p)
  PROVE  \/ f.act = "permit" /\ f.weight = 7 /\ (p.iface # "eth" \/ p.svc = "dhcp")
         \/ f.act = "permit" /\ f.weight = 15 /\ p.app = "daemon"
         \/ f.act = "block" /\ f.weight = 7 /\ p.svc = "dns"
<1>1. CASE f = allowTrafficOfAdapter("tunnel", MED_WEIGHT)
  <2>1. f.act = "permit" /\ f.weight = 7 /\ f.fields = [iface |-> {"tunnel"}]
    BY <1>1 DEF allowTrafficOfAdapter, Permit, Filter, MED_WEIGHT
  <2>2. p.iface = "tunnel"
    BY <2>1 DEF WinMatches
  <2> QED BY <2>1, <2>2
<1>2. CASE f = allowHyperVTraffic(MED_WEIGHT)
  <2>1. f.layers = {"mac"}
    BY <1>2 DEF allowHyperVTraffic, Permit, Filter
  <2> QED BY <2>1, PacketTyped DEF WinMatches
<1>3. CASE f = allowTrafficForAppOnAll(MAX_WEIGHT)
  <2>1. f.act = "permit" /\ f.weight = 15 /\ f.fields = [app |-> {"daemon"}]
    BY <1>3 DEF allowTrafficForAppOnAll, Permit, Filter, MAX_WEIGHT
  <2>2. p.app = "daemon"
    BY <2>1 DEF WinMatches
  <2> QED BY <2>1, <2>2
<1>4. CASE f = blockTrafficOnPort(MED_WEIGHT)
  <2>1. f.act = "block" /\ f.weight = 7 /\ f.fields = [svc |-> {"dns"}]
    BY <1>4 DEF blockTrafficOnPort, Block, Filter, MED_WEIGHT
  <2>2. p.svc = "dns"
    BY <2>1 DEF WinMatches
  <2> QED BY <2>1, <2>2
<1>5. CASE f = allowTrafficOfAdapter("lo", MED_WEIGHT)
  <2>1. f.act = "permit" /\ f.weight = 7 /\ f.fields = [iface |-> {"lo"}]
    BY <1>5 DEF allowTrafficOfAdapter, Permit, Filter, MED_WEIGHT
  <2>2. p.iface = "lo"
    BY <2>1 DEF WinMatches
  <2> QED BY <2>1, <2>2
<1>6. CASE f = Permit({"out4"}, [svc |-> {"dhcp"}, addr |-> {"lan"}], MED_WEIGHT)
  <2>1. f.act = "permit" /\ f.weight = 7 /\ f.fields = [svc |-> {"dhcp"}, addr |-> {"lan"}]
    BY <1>6 DEF Permit, Filter, MED_WEIGHT
  <2>2. p.svc = "dhcp"
    BY <2>1 DEF WinMatches
  <2> QED BY <2>1, <2>2
<1>7. CASE f = Permit({"in4", "out6", "in6"}, [svc |-> {"dhcp"}], MED_WEIGHT)
  <2>1. f.act = "permit" /\ f.weight = 7 /\ f.fields = [svc |-> {"dhcp"}]
    BY <1>7 DEF Permit, Filter, MED_WEIGHT
  <2>2. p.svc = "dhcp"
    BY <2>1 DEF WinMatches
  <2> QED BY <2>1, <2>2
<1> QED BY <1>1, <1>2, <1>3, <1>4, <1>5, <1>6, <1>7, InterfaceFiltersAre

\* What matches of the local networks.
LEMMA LanMatch ==
  ASSUME NEW p \in Packet, NEW f \in FiltersOf(LanRules), WinMatches(f, p)
  PROVE  f.act = "permit" /\ f.weight = 1 /\ p.addr = "lan"
<1>1. f = Filter(Out \cup In, [addr |-> {"lan"}], 1, "permit")
  BY LanFiltersAre DEF allowTrafficTo, Permit, LOW_WEIGHT
<1>2. f.act = "permit" /\ f.weight = 1 /\ f.fields = [addr |-> {"lan"}]
  BY <1>1 DEF Filter
<1> QED BY <1>2 DEF WinMatches

\* What matches of a server.
LEMMA PeerMatch ==
  ASSUME NEW p \in Packet, NEW r \in PeerRuleSet, NEW f \in FiltersOf(r), WinMatches(f, p)
  PROVE  \/ f.act = "block" /\ f.weight = 0
         \/ f.act = "permit" /\ f.weight = 13 /\ p.svc = "dns" /\ p.addr = r.dns
<1>1. CASE f = blockTrafficTo(IF r.all THEN WinAddrs ELSE {"exit"}, LOW_WEIGHT)
  BY <1>1 DEF blockTrafficTo, Block, Filter, LOW_WEIGHT
<1>2. CASE f = allowResolver(r.dns)
  <2>1. f.act = "permit" /\ f.weight = 13 /\ f.fields = [svc |-> {"dns"}, addr |-> {r.dns}]
    BY <1>2 DEF allowResolver, Permit, Filter, HIGH_WEIGHT
  <2>2. p.svc = "dns" /\ p.addr = r.dns
    BY <2>1 DEF WinMatches
  <2> QED BY <2>1, <2>2
<1> QED BY <1>1, <1>2, PeerFiltersAre

\* All that can match.
LEMMA MatchingKinds ==
  ASSUME NEW p \in Packet, NEW R \in SUBSET Rules, NEW f \in Matching(R, p)
  PROVE  \/ f.act = "permit" /\ f.weight = 7 /\ (p.iface # "eth" \/ p.svc = "dhcp")
         \/ f.act = "permit" /\ f.weight = 15 /\ p.app = "daemon"
         \/ f.act = "block" /\ f.weight = 7 /\ p.svc = "dns"
         \/ f.act = "permit" /\ f.weight = 1 /\ p.addr = "lan"
         \/ f.act = "block" /\ f.weight = 0
         \/ f.act = "permit" /\ f.weight = 13 /\ p.svc = "dns"
              /\ \E r \in R : r.of = "peer" /\ p.addr = r.dns
<1>1. PICK r \in R : f \in FiltersOf(r) /\ WinMatches(f, p)
  BY DEF Matching
<1>2. CASE r = InterfaceRules
  BY <1>1, <1>2, InterfaceMatch
<1>3. CASE r = LanRules
  BY <1>1, <1>3, LanMatch
<1>4. CASE r \in PeerRuleSet
  <2>1. r.of = "peer"
    BY <1>4 DEF PeerRuleSet
  <2>2. \/ f.act = "block" /\ f.weight = 0
        \/ f.act = "permit" /\ f.weight = 13 /\ p.svc = "dns" /\ p.addr = r.dns
    BY <1>1, <1>4, PeerMatch
  <2> QED BY <2>1, <2>2
<1> QED BY <1>2, <1>3, <1>4, RulesTyped

\* The weights of filters that match.
LEMMA MatchingWeights ==
  ASSUME NEW p \in Packet, NEW R \in SUBSET Rules, NEW f \in Matching(R, p)
  PROVE  f.weight \in Weights
<1>1. f.weight = 7 \/ f.weight = 15 \/ f.weight = 1 \/ f.weight = 0 \/ f.weight = 13
  BY MatchingKinds
<1> QED BY <1>1 DEF Weights

\* The filter of a server that takes all traffic blocks every packet, with the
\* least weight.
LEMMA AllBlocked ==
  ASSUME NEW R \in SUBSET Rules, NEW p \in Packet, NEW q \in R, q \in PeerRuleSet, q.all
  PROVE  \E f \in Matching(R, p) : f.act = "block" /\ f.weight = 0
<1> DEFINE f == blockTrafficTo(WinAddrs, LOW_WEIGHT)
<1>1. f \in FiltersOf(q)
  BY PeerFiltersAre
<1>2. /\ f.act = "block" /\ f.weight = 0
      /\ f.layers = Out \cup In /\ f.fields = [addr |-> WinAddrs]
  BY DEF blockTrafficTo, Block, Filter, LOW_WEIGHT
<1> HIDE DEF f
<1>3. WinMatches(f, p)
  BY <1>2, PacketTyped DEF WinMatches
<1> QED BY <1>1, <1>2, <1>3 DEF Matching

\* With the rules of the adapter, queries for names are blocked with more.
LEMMA NamesBlocked ==
  ASSUME NEW R \in SUBSET Rules, NEW p \in Packet, InterfaceRules \in R, p.svc = "dns"
  PROVE  \E f \in Matching(R, p) : f.act = "block" /\ f.weight = 7
<1> DEFINE f == blockTrafficOnPort(MED_WEIGHT)
<1>1. f \in FiltersOf(InterfaceRules)
  BY InterfaceFiltersAre
<1>2. /\ f.act = "block" /\ f.weight = 7
      /\ f.layers = Out \cup In /\ f.fields = [svc |-> {"dns"}]
  BY DEF blockTrafficOnPort, Block, Filter, MED_WEIGHT
<1> HIDE DEF f
<1>3. WinMatches(f, p)
  BY <1>2, PacketTyped DEF WinMatches
<1> QED BY <1>1, <1>2, <1>3 DEF Matching

\* Rules that hold back what bypasses the tunnel: those of the adapter and of a
\* server that takes all traffic.
Fencing(R) == InterfaceRules \in R /\ \E q \in R : q \in PeerRuleSet /\ q.all

\* A packet that bypasses the tunnel as far as the rules R go.
Bypassing(R, p) ==
  /\ p.iface = "eth" /\ p.app = "other"
  /\ \/ p.svc = "web" /\ p.addr # "lan"
     \/ p.svc = "dns" /\ \A r \in R : r.of = "peer" => p.addr # r.dns

\* Behind such rules nothing bypasses the tunnel.
LEMMA FenceHolds ==
  ASSUME NEW R \in SUBSET Rules, NEW p \in Packet, Fencing(R), Bypassing(R, p)
  PROVE  Says(R, p) = {"block"}
<1> DEFINE M == Matching(R, p)
<1>1. \A g \in M : g.weight \in Weights
  BY MatchingWeights
<1>2. CASE p.svc = "web" /\ p.addr # "lan"
  <2>1. PICK f \in M : f.act = "block" /\ f.weight = 0
    BY AllBlocked DEF Fencing
  <2>2. \A g \in M : g.act = "block"
    <3> SUFFICES ASSUME NEW g \in M PROVE g.act = "block"
      OBVIOUS
    <3> QED BY <1>2, MatchingKinds DEF Bypassing
  <2> QED BY <1>1, <2>1, <2>2, Outweighs
<1>3. CASE p.svc = "dns" /\ \A r \in R : r.of = "peer" => p.addr # r.dns
  <2>1. PICK f \in M : f.act = "block" /\ f.weight = 7
    BY <1>3, NamesBlocked DEF Fencing
  <2>2. \A g \in M : g.act = "block" \/ g.weight = 1
    <3> SUFFICES ASSUME NEW g \in M PROVE g.act = "block" \/ g.weight = 1
      OBVIOUS
    <3> QED BY <1>3, MatchingKinds DEF Bypassing
  <2>3. \A g \in M : g.act = f.act \/ g.weight < f.weight
    BY <2>1, <2>2
  <2> QED BY <1>1, <2>1, <2>3, Outweighs
<1> QED BY <1>2, <1>3 DEF Bypassing

\* The daemon is never held back.
LEMMA DaemonPasses ==
  ASSUME NEW R \in SUBSET Rules, NEW p \in Packet, InterfaceRules \in R, p.app = "daemon"
  PROVE  Says(R, p) = {"permit"}
<1> DEFINE f == allowTrafficForAppOnAll(MAX_WEIGHT)
           M == Matching(R, p)
<1>1. f \in FiltersOf(InterfaceRules)
  BY InterfaceFiltersAre
<1>2. /\ f.act = "permit" /\ f.weight = 15
      /\ f.layers = Out \cup In /\ f.fields = [app |-> {"daemon"}]
  BY DEF allowTrafficForAppOnAll, Permit, Filter, MAX_WEIGHT
<1> HIDE DEF f
<1>3. f \in M
  BY <1>1, <1>2, PacketTyped DEF WinMatches, Matching
<1>4. \A g \in M : g.act = "permit" \/ g.weight = 7 \/ g.weight = 0
  BY MatchingKinds
<1>5. \A g \in M : g.act = f.act \/ g.weight < f.weight
  BY <1>2, <1>4
<1> QED BY <1>2, <1>3, <1>5, MatchingWeights, Outweighs

\* Nor is what goes through the tunnel, but for names,
LEMMA TunnelPasses ==
  ASSUME NEW R \in SUBSET Rules, NEW p \in Packet, InterfaceRules \in R,
         p.svc = "web", p.iface = "tunnel"
  PROVE  Says(R, p) = {"permit"}
<1> DEFINE f == allowTrafficOfAdapter("tunnel", MED_WEIGHT)
           M == Matching(R, p)
<1>1. f \in FiltersOf(InterfaceRules)
  BY InterfaceFiltersAre
<1>2. /\ f.act = "permit" /\ f.weight = 7
      /\ f.layers = Out \cup In /\ f.fields = [iface |-> {"tunnel"}]
  BY DEF allowTrafficOfAdapter, Permit, Filter, MED_WEIGHT
<1> HIDE DEF f
<1>3. f \in M
  BY <1>1, <1>2, PacketTyped DEF WinMatches, Matching
<1>4. \A g \in M : g.act = "permit" \/ g.weight = 0
  BY MatchingKinds
<1>5. \A g \in M : g.act = f.act \/ g.weight < f.weight
  BY <1>2, <1>4
<1> QED BY <1>2, <1>3, <1>5, MatchingWeights, Outweighs

\* nor what goes to the local network,
LEMMA LanPasses ==
  ASSUME NEW R \in SUBSET Rules, NEW p \in Packet, LanRules \in R,
         p.svc = "web", p.addr = "lan"
  PROVE  Says(R, p) = {"permit"}
<1> DEFINE f == allowTrafficTo({"lan"}, LOW_WEIGHT + 1)
           M == Matching(R, p)
<1>1. f \in FiltersOf(LanRules)
  BY LanFiltersAre
<1>2. /\ f.act = "permit" /\ f.weight = 1
      /\ f.layers = Out \cup In /\ f.fields = [addr |-> {"lan"}]
  BY DEF allowTrafficTo, Permit, Filter, LOW_WEIGHT
<1> HIDE DEF f
<1>3. f \in M
  BY <1>1, <1>2, PacketTyped DEF WinMatches, Matching
<1>4. \A g \in M : g.act = "permit" \/ g.weight = 0
  BY MatchingKinds
<1>5. \A g \in M : g.act = f.act \/ g.weight < f.weight
  BY <1>2, <1>4
<1> QED BY <1>2, <1>3, <1>5, MatchingWeights, Outweighs

\* nor queries to a resolver of a server.
LEMMA ResolverPasses ==
  ASSUME NEW R \in SUBSET Rules, NEW p \in Packet, NEW q \in R, q \in PeerRuleSet,
         p.svc = "dns", p.addr = q.dns, p.layer \in ResolverLayers(q.dns)
  PROVE  Says(R, p) = {"permit"}
<1> DEFINE f == allowResolver(q.dns)
           M == Matching(R, p)
<1>1. f \in FiltersOf(q)
  <2>1. q.dns # "none"
    BY PacketTyped DEF WinAddrs
  <2> QED BY <2>1, PeerFiltersAre
<1>2. /\ f.act = "permit" /\ f.weight = 13
      /\ f.layers = ResolverLayers(q.dns) /\ f.fields = [svc |-> {"dns"}, addr |-> {q.dns}]
  BY DEF allowResolver, Permit, Filter, HIGH_WEIGHT
<1> HIDE DEF f
<1>3. f \in M
  BY <1>1, <1>2 DEF WinMatches, Matching
<1>4. \A g \in M : g.act = "permit" \/ g.weight = 7 \/ g.weight = 0
  BY MatchingKinds
<1>5. \A g \in M : g.act = f.act \/ g.weight < f.weight
  BY <1>2, <1>4
<1> QED BY <1>2, <1>3, <1>5, MatchingWeights, Outweighs

-----------------------------------------------------------------------------
(* Transactions.                                                           *)

\* Connections are kept under their hop, and no two are to the same server.
WinConns ==
  {f \in [WinHops -> WinConfigs \cup {Unconnected}] :
     /\ \A h \in WinHops : f[h] # Unconnected => f[h] \in WinConfigs /\ f[h].hop = h
     /\ \A h, g \in WinHops :
          f[h] # Unconnected /\ f[g] # Unconnected /\ h # g => f[h].server # f[g].server}

\* The state of the daemon and of the engine.
WinRecord ==
  [known : SUBSET Rules, orphans : SUBSET Rules, seen : SUBSET (SUBSET Rules),
   adapter : BOOLEAN, conn : WinConns, whole : BOOLEAN, stuck : BOOLEAN]

\* There is no connection without an adapter.
WinStates == {s \in WinRecord : \A h \in WinHops : WConnected(s, h) => s.adapter}

\* The rules the daemon adds.
LEMMA RulesKnown ==
  InterfaceRules \in Rules /\ LanRules \in Rules /\ \A c \in WinConfigs : PeerRules(c) \in Rules
BY DEF Rules

\* The fields of a state.
LEMMA StateFields ==
  ASSUME NEW s \in WinStates
  PROVE  /\ s.known \subseteq Rules /\ s.orphans \subseteq Rules /\ s.seen \subseteq SUBSET Rules
         /\ s.adapter \in BOOLEAN /\ s.whole \in BOOLEAN /\ s.stuck \in BOOLEAN
         /\ s.conn \in WinConns
         /\ InForce(s) \in SUBSET Rules
BY DEF WinStates, WinRecord, InForce

\* A transaction.
LEMMA TransactTyped ==
  ASSUME NEW s \in WinStates, NEW R \in SUBSET Rules
  PROVE  LET t == Transact(s, R) IN
         /\ t \in WinStates
         /\ t.known = R /\ t.orphans = s.orphans /\ t.seen = s.seen \cup {R \cup s.orphans}
         /\ t.adapter = s.adapter /\ t.conn = s.conn /\ t.whole = s.whole /\ t.stuck = s.stuck
BY DEF Transact, WinStates, WinRecord, WConnected

\* Fields that are set on their own.
LEMMA WholeSet ==
  ASSUME NEW s \in WinStates, NEW b \in BOOLEAN
  PROVE  LET t == [s EXCEPT !.whole = b] IN
         /\ t \in WinStates
         /\ t.known = s.known /\ t.orphans = s.orphans /\ t.seen = s.seen
         /\ t.adapter = s.adapter /\ t.conn = s.conn /\ t.whole = b /\ t.stuck = s.stuck
BY DEF WinStates, WinRecord, WConnected

\* The last attempt to remove the filters failed, or not.
LEMMA StuckSet ==
  ASSUME NEW s \in WinStates, NEW b \in BOOLEAN
  PROVE  LET t == [s EXCEPT !.stuck = b] IN
         /\ t \in WinStates
         /\ t.known = s.known /\ t.orphans = s.orphans /\ t.seen = s.seen
         /\ t.adapter = s.adapter /\ t.conn = s.conn /\ t.whole = s.whole /\ t.stuck = b
BY DEF WinStates, WinRecord, WConnected

\* The adapter is made,
LEMMA AdapterMade ==
  ASSUME NEW s \in WinStates
  PROVE  LET t == [s EXCEPT !.adapter = TRUE] IN
         /\ t \in WinStates
         /\ t.known = s.known /\ t.orphans = s.orphans /\ t.seen = s.seen
         /\ t.adapter /\ t.conn = s.conn /\ t.whole = s.whole /\ t.stuck = s.stuck
BY DEF WinStates, WinRecord, WConnected

\* it is gone, which it may be without connections,
LEMMA AdapterGone ==
  ASSUME NEW s \in WinStates, s.conn = NoConn
  PROVE  LET t == [s EXCEPT !.adapter = FALSE] IN
         /\ t \in WinStates
         /\ t.known = s.known /\ t.orphans = s.orphans /\ t.seen = s.seen
         /\ ~t.adapter /\ t.conn = NoConn /\ t.whole = s.whole /\ t.stuck = s.stuck
BY DEF WinStates, WinRecord, WConnected, NoConn

\* and all connections are.
LEMMA AllUnconnected ==
  ASSUME NEW s \in WinStates
  PROVE  LET t == [s EXCEPT !.conn = NoConn] IN
         /\ t \in WinStates
         /\ t.known = s.known /\ t.orphans = s.orphans /\ t.seen = s.seen
         /\ t.adapter = s.adapter /\ t.conn = NoConn /\ t.whole = s.whole /\ t.stuck = s.stuck
<1>1. NoConn \in WinConns
  BY DEF NoConn, WinConns
<1> QED BY <1>1 DEF WinStates, WinRecord, WConnected, NoConn

\* Another hop is never connected to the server of c.
Own(s, c) == \A h \in WinHops \ {c.hop} : WConnected(s, h) => s.conn[h].server # c.server

\* A hop is connected to a server no other hop is connected to.
LEMMA HopConnected ==
  ASSUME NEW s \in WinStates, NEW c \in WinConfigs, s.adapter, Own(s, c)
  PROVE  LET t == [s EXCEPT !.conn[c.hop] = c] IN
         /\ t \in WinStates
         /\ t.known = s.known /\ t.orphans = s.orphans /\ t.seen = s.seen
         /\ t.adapter = s.adapter /\ t.whole = s.whole /\ t.stuck = s.stuck
         /\ t.conn = [s.conn EXCEPT ![c.hop] = c]
<1>1. c.hop \in WinHops /\ s \in WinRecord /\ s.conn \in WinConns
  BY DEF WinConfigs, WinConfig, WinStates, WinRecord
<1> DEFINE f == [s.conn EXCEPT ![c.hop] = c]
<1>2. /\ f \in [WinHops -> WinConfigs \cup {Unconnected}]
      /\ f[c.hop] = c /\ \A h \in WinHops \ {c.hop} : f[h] = s.conn[h]
  BY <1>1 DEF WinConns
<1>3. \A h \in WinHops : s.conn[h] # Unconnected => s.conn[h] \in WinConfigs /\ s.conn[h].hop = h
  BY <1>1 DEF WinConns
<1>4. \A h, g \in WinHops : s.conn[h] # Unconnected /\ s.conn[g] # Unconnected /\ h # g
        => s.conn[h].server # s.conn[g].server
  BY <1>1 DEF WinConns
<1> HIDE DEF f
<1>5. f \in WinConns
  <2>1. \A h \in WinHops : f[h] # Unconnected => f[h] \in WinConfigs /\ f[h].hop = h
    BY <1>1, <1>2, <1>3
  <2>2. \A h, g \in WinHops :
          f[h] # Unconnected /\ f[g] # Unconnected /\ h # g => f[h].server # f[g].server
    BY <1>1, <1>2, <1>4 DEF Own, WConnected
  <2> QED BY <1>2, <2>1, <2>2 DEF WinConns
<1>6. [s EXCEPT !.conn[c.hop] = c] = [s EXCEPT !.conn = f]
  BY <1>1 DEF f, WinRecord
<1> QED BY <1>1, <1>5, <1>6 DEF WinStates, WinRecord, WConnected, f

-----------------------------------------------------------------------------
(* Outcomes.                                                               *)

\* From s to t rules were only added, one transaction after the other.
Grown(s, t) ==
  /\ s.known \subseteq t.known
  /\ t.orphans = s.orphans
  /\ \A r \in t.seen : r \in s.seen \/ (InForce(s) \subseteq r /\ r \subseteq InForce(t))

\* Adding goes on.
LEMMA GrownOn == \A s, t, u : Grown(s, t) /\ Grown(t, u) => Grown(s, u)
BY DEF Grown, InForce

\* A transaction that adds rules.
LEMMA TransactGrows ==
  ASSUME NEW s \in WinStates, NEW x \in Rules
  PROVE  LET t == Transact(s, s.known \cup {x}) IN
         /\ t \in WinStates /\ t.known = s.known \cup {x}
         /\ t.adapter = s.adapter /\ t.conn = s.conn /\ t.whole = s.whole /\ t.stuck = s.stuck
         /\ Grown(s, t)
<1> DEFINE R == s.known \cup {x}
           t == Transact(s, R)
<1>1. R \in SUBSET Rules
  BY StateFields
<1>2. /\ t \in WinStates
      /\ t.known = R /\ t.orphans = s.orphans /\ t.seen = s.seen \cup {R \cup s.orphans}
      /\ t.adapter = s.adapter /\ t.conn = s.conn /\ t.whole = s.whole /\ t.stuck = s.stuck
  BY <1>1, TransactTyped
<1> HIDE DEF t
<1>3. Grown(s, t)
  BY <1>2 DEF Grown, InForce
<1> QED BY <1>2, <1>3 DEF t

\* A failure leaves a state with the same connections.
Failed(s, o) == o.ok = FALSE /\ o.s \in WinStates /\ o.s.conn = s.conn

\* disableKillSwitch() removes all it knows, or says that it could not.
LEMMA DisableOutcome ==
  ASSUME NEW s \in WinStates, NEW o \in disableKillSwitch(s)
  PROVE  /\ o.ok \in BOOLEAN /\ o.s \in WinStates
         /\ o.s.conn = s.conn /\ o.s.adapter = s.adapter
         /\ o.s.stuck \/ o.s.known = {}
<1>1. CASE o = WFail([s EXCEPT !.stuck = TRUE])
  BY <1>1, StuckSet DEF WFail
<1>2. CASE o = WOk([Transact(s, {}) EXCEPT !.whole = FALSE, !.stuck = FALSE])
  <2> DEFINE t == Transact(s, {})
             u == [t EXCEPT !.whole = FALSE]
             v == [u EXCEPT !.stuck = FALSE]
  <2>1. t \in WinStates /\ t.known = {} /\ t.conn = s.conn /\ t.adapter = s.adapter
    BY TransactTyped
  <2> HIDE DEF t
  <2>2. u \in WinStates /\ u.known = {} /\ u.conn = s.conn /\ u.adapter = s.adapter
    BY <2>1, WholeSet
  <2> HIDE DEF u
  <2>3. v \in WinStates /\ v.known = {} /\ v.conn = s.conn /\ v.adapter = s.adapter
    BY <2>2, StuckSet
  <2>4. o.ok = TRUE /\ o.s = v
    BY <1>2 DEF WOk, t, u
  <2> QED BY <2>3, <2>4
<1> QED BY <1>1, <1>2 DEF disableKillSwitch

\* disableKillSwitch() when the caller failed.
LEMMA DisableFailing ==
  ASSUME NEW s \in WinStates, NEW o \in WFailing(disableKillSwitch(s))
  PROVE  Failed(s, o)
<1>1. PICK q \in disableKillSwitch(s) : o = WFail(q.s)
  BY DEF WFailing
<1>2. q.s \in WinStates /\ q.s.conn = s.conn
  BY <1>1, DisableOutcome
<1> QED BY <1>1, <1>2 DEF Failed, WFail

\* enableInterface() adds the rules of the adapter.
LEMMA EnableInterfaceOutcome ==
  ASSUME NEW s \in WinStates, NEW o \in enableInterface(s)
  PROVE  \/ Failed(s, o)
         \/ /\ o.ok = TRUE /\ o.s \in WinStates
            /\ o.s.known = s.known \cup {InterfaceRules} /\ o.s.conn = s.conn
            /\ o.s.adapter = s.adapter /\ o.s.whole /\ Grown(s, o.s)
<1>1. CASE o = WOk([Transact(s, s.known \cup {InterfaceRules}) EXCEPT !.whole = TRUE])
  <2> DEFINE t == Transact(s, s.known \cup {InterfaceRules})
             u == [t EXCEPT !.whole = TRUE]
  <2>1. /\ t \in WinStates /\ t.known = s.known \cup {InterfaceRules}
        /\ t.adapter = s.adapter /\ t.conn = s.conn /\ Grown(s, t)
    BY RulesKnown, TransactGrows
  <2> HIDE DEF t
  <2>2. /\ u \in WinStates /\ u.known = t.known /\ u.orphans = t.orphans /\ u.seen = t.seen
        /\ u.adapter = t.adapter /\ u.conn = t.conn /\ u.whole
    BY <2>1, WholeSet
  <2> HIDE DEF u
  <2>3. Grown(s, u)
    BY <2>1, <2>2 DEF Grown, InForce
  <2>4. o.ok = TRUE /\ o.s = u
    BY <1>1 DEF WOk, t, u
  <2> QED BY <2>1, <2>2, <2>3, <2>4
<1>2. CASE o = WFail(s)
  BY <1>2 DEF Failed, WFail
<1>3. CASE o \in WFailing(disableKillSwitch(s))
  BY <1>3, DisableFailing
<1> QED BY <1>1, <1>2, <1>3 DEF enableInterface

\* enableLanBypass() and enablePeerTraffic() add theirs.
LEMMA AddedOutcome ==
  ASSUME NEW s \in WinStates, NEW x \in Rules,
         NEW o \in {WOk(Transact(s, s.known \cup {x}))} \cup WFailing(disableKillSwitch(s))
  PROVE  \/ Failed(s, o)
         \/ /\ o.ok = TRUE /\ o.s \in WinStates
            /\ o.s.known = s.known \cup {x} /\ o.s.conn = s.conn
            /\ o.s.adapter = s.adapter /\ o.s.whole = s.whole /\ Grown(s, o.s)
<1>1. CASE o = WOk(Transact(s, s.known \cup {x}))
  <2> DEFINE t == Transact(s, s.known \cup {x})
  <2>1. /\ t \in WinStates /\ t.known = s.known \cup {x}
        /\ t.adapter = s.adapter /\ t.conn = s.conn /\ t.whole = s.whole /\ Grown(s, t)
    BY TransactGrows
  <2>2. o.ok = TRUE /\ o.s = t
    BY <1>1 DEF WOk
  <2> QED BY <2>1, <2>2
<1>2. CASE o \in WFailing(disableKillSwitch(s))
  BY <1>2, DisableFailing
<1> QED BY <1>1, <1>2

\* The bypass of the local networks.
LEMMA LanBypassOutcome ==
  ASSUME NEW s \in WinStates, NEW o \in enableLanBypass(s)
  PROVE  \/ Failed(s, o)
         \/ /\ o.ok = TRUE /\ o.s \in WinStates
            /\ o.s.known = s.known \cup {LanRules} /\ o.s.conn = s.conn
            /\ o.s.adapter = s.adapter /\ Grown(s, o.s)
<1> DEFINE x == LanRules
<1>1. /\ x \in Rules
      /\ o \in {WOk(Transact(s, s.known \cup {x}))} \cup WFailing(disableKillSwitch(s))
  BY RulesKnown DEF enableLanBypass
<1> HIDE DEF x
<1>2. \/ Failed(s, o)
      \/ /\ o.ok = TRUE /\ o.s \in WinStates
         /\ o.s.known = s.known \cup {x} /\ o.s.conn = s.conn
         /\ o.s.adapter = s.adapter /\ Grown(s, o.s)
  BY <1>1, AddedOutcome
<1> QED BY <1>2 DEF x

\* addInterface() also makes the adapter.
LEMMA AddInterfaceOutcome ==
  ASSUME NEW s \in WinStates, NEW o \in winAddInterface(s)
  PROVE  \/ Failed(s, o)
         \/ /\ o.ok = TRUE /\ o.s \in WinStates
            /\ o.s.known = s.known \cup {InterfaceRules} /\ o.s.conn = s.conn
            /\ o.s.adapter /\ o.s.whole /\ Grown(s, o.s)
<1>1. CASE o = WFail(s)
  BY <1>1 DEF Failed, WFail
<1>2. CASE o \in WThen(enableInterface(s), LAMBDA t : {WOk([t EXCEPT !.adapter = TRUE])})
  <2>1. PICK q \in enableInterface(s) : o \in IF q.ok THEN {WOk([q.s EXCEPT !.adapter = TRUE])} ELSE {q}
    BY <1>2 DEF WThen
  <2>2. CASE Failed(s, q)
    BY <2>1, <2>2 DEF Failed
  <2>3. CASE ~Failed(s, q)
    <3> DEFINE u == [q.s EXCEPT !.adapter = TRUE]
    <3>1. /\ q.ok = TRUE /\ q.s \in WinStates
          /\ q.s.known = s.known \cup {InterfaceRules} /\ q.s.conn = s.conn
          /\ q.s.whole /\ Grown(s, q.s)
      BY <2>3, EnableInterfaceOutcome
    <3>2. /\ u \in WinStates /\ u.known = q.s.known /\ u.orphans = q.s.orphans
          /\ u.seen = q.s.seen /\ u.adapter /\ u.conn = q.s.conn /\ u.whole = q.s.whole
      BY <3>1, AdapterMade
    <3>3. o = WOk(u)
      BY <2>1, <3>1
    <3> HIDE DEF u
    <3>4. o.ok = TRUE /\ o.s = u
      BY <3>3 DEF WOk
    <3>5. Grown(s, u)
      BY <3>1, <3>2 DEF Grown, InForce
    <3> QED BY <3>1, <3>2, <3>4, <3>5
  <2> QED BY <2>2, <2>3
<1>3. CASE o \in UNION {WFailing(disableKillSwitch(q.s)) : q \in {p \in enableInterface(s) : ~p.ok}}
  <2>1. PICK q \in enableInterface(s) : ~q.ok /\ o \in WFailing(disableKillSwitch(q.s))
    BY <1>3
  <2>2. Failed(s, q)
    BY <2>1, EnableInterfaceOutcome
  <2>3. Failed(q.s, o)
    BY <2>1, <2>2, DisableFailing DEF Failed
  <2> QED BY <2>2, <2>3 DEF Failed
<1> QED BY <1>1, <1>2, <1>3 DEF winAddInterface

\* updatePeer() adds the rules of the server, and may fail after that.
LEMMA UpdatePeerOutcome ==
  ASSUME NEW s \in WinStates, NEW c \in WinConfigs, NEW o \in winUpdatePeer(s, c)
  PROVE  \/ Failed(s, o)
         \/ /\ o.ok = TRUE /\ o.s \in WinStates
            /\ o.s.known = s.known \cup {PeerRules(c)} /\ o.s.conn = s.conn
            /\ o.s.adapter = s.adapter /\ o.s.whole = s.whole /\ Grown(s, o.s)
<1>1. PICK q \in enablePeerTraffic(s, c) : o \in IF q.ok THEN {WFail(q.s), WOk(q.s)} ELSE {q}
  BY DEF winUpdatePeer, WThen
<1>2. PeerRules(c) \in Rules
  BY RulesKnown
<1>3. \/ Failed(s, q)
      \/ /\ q.ok = TRUE /\ q.s \in WinStates
         /\ q.s.known = s.known \cup {PeerRules(c)} /\ q.s.conn = s.conn
         /\ q.s.adapter = s.adapter /\ q.s.whole = s.whole /\ Grown(s, q.s)
  BY <1>2, AddedOutcome DEF enablePeerTraffic
<1>4. CASE Failed(s, q)
  BY <1>1, <1>4 DEF Failed
<1>5. CASE ~Failed(s, q)
  BY <1>1, <1>3, <1>5 DEF Failed, WFail, WOk
<1> QED BY <1>4, <1>5

\* The rules of a server.
OfPeer(s, server) == {r \in s.known : r.of = "peer" /\ r.server = server}

\* deletePeer() removes the rules of the server or loses them, or does nothing.
LEMMA DeletePeerOutcome ==
  ASSUME NEW s \in WinStates, NEW server, NEW o \in winDeletePeer(s, server)
  PROVE  /\ o.ok \in BOOLEAN /\ o.s \in WinStates
         /\ o.s.conn = s.conn /\ o.s.adapter = s.adapter
         /\ o.s.whole = s.whole /\ o.s.stuck = s.stuck
         /\ s.known \ OfPeer(s, server) \subseteq o.s.known /\ o.s.known \subseteq s.known
         /\ InForce(o.s) \subseteq InForce(s)
         /\ \A r \in o.s.seen : r \in s.seen \/ (s.known \ OfPeer(s, server) \subseteq r /\ r \subseteq InForce(s))
<1> DEFINE R == OfPeer(s, server)
<1>1. o = WFail(s) \/ \E q \in disablePeerTraffic(s, server) : o = WOk(q.s)
  BY DEF winDeletePeer
<1>2. o.ok \in BOOLEAN
  <2>1. CASE o = WFail(s)
    BY <2>1 DEF WFail
  <2>2. CASE \E q \in disablePeerTraffic(s, server) : o = WOk(q.s)
    BY <2>2 DEF WOk
  <2> QED BY <1>1, <2>1, <2>2
<1>3. \/ o.s = s
      \/ o.s = Transact(s, s.known \ R)
      \/ o.s = [s EXCEPT !.known = @ \ R, !.orphans = @ \cup R]
  BY <1>1 DEF disablePeerTraffic, WFail, WOk, OfPeer
<1>4. s.known \subseteq Rules /\ s.orphans \subseteq Rules /\ R \subseteq s.known
  BY StateFields DEF OfPeer
<1> HIDE DEF R
<1>5. CASE o.s = s
  BY <1>2, <1>5 DEF R
<1>6. CASE o.s = Transact(s, s.known \ R)
  <2> DEFINE t == Transact(s, s.known \ R)
  <2>1. /\ t \in WinStates
        /\ t.known = s.known \ R /\ t.orphans = s.orphans
        /\ t.seen = s.seen \cup {(s.known \ R) \cup s.orphans}
        /\ t.adapter = s.adapter /\ t.conn = s.conn /\ t.whole = s.whole /\ t.stuck = s.stuck
    BY <1>4, TransactTyped
  <2> HIDE DEF t
  <2>2. o.s = t
    BY <1>6 DEF t
  <2> QED BY <1>2, <1>4, <2>1, <2>2 DEF InForce, R
<1>7. CASE o.s = [s EXCEPT !.known = @ \ R, !.orphans = @ \cup R]
  <2> DEFINE t == [s EXCEPT !.known = @ \ R, !.orphans = @ \cup R]
  <2>1. /\ t \in WinStates
        /\ t.known = s.known \ R /\ t.orphans = s.orphans \cup R /\ t.seen = s.seen
        /\ t.adapter = s.adapter /\ t.conn = s.conn /\ t.whole = s.whole /\ t.stuck = s.stuck
    BY <1>4 DEF WinStates, WinRecord, WConnected
  <2> HIDE DEF t
  <2>2. o.s = t
    BY <1>7 DEF t
  <2> QED BY <1>2, <1>4, <2>1, <2>2 DEF InForce, R
<1> QED BY <1>3, <1>5, <1>6, <1>7

\* Without an adapter no rules are known, unless they could not be removed.
Released(s) == ~s.adapter /\ ~s.stuck => s.known = {}

\* One hop is taken down.
LEMMA HopDownOutcome ==
  ASSUME NEW s \in WinStates, NEW h, NEW t \in hopDown(s, h), Released(s)
  PROVE  t \in WinStates /\ Released(t)
<1>1. CASE WConnected(s, h)
  <2>1. PICK o \in winDeletePeer(s, s.conn[h].server) : t = o.s
    BY <1>1 DEF hopDown
  <2> QED BY <2>1, DeletePeerOutcome DEF Released
<1>2. CASE ~WConnected(s, h)
  BY <1>2 DEF hopDown
<1> QED BY <1>1, <1>2

\* deactivate() leaves no adapter and no connection.
LEMMA TakeDownOutcome ==
  ASSUME NEW s \in WinStates, NEW o \in takeDown(s), Released(s)
  PROVE  /\ o.ok \in BOOLEAN /\ o.s \in WinStates
         /\ o.s.conn = NoConn /\ ~o.s.adapter /\ Released(o.s)
<1> DEFINE gone == UNION {UNION {hopDown(u, "MultiHopExit") : u \in hopDown(t, "MultiHopEntry")}
                            : t \in hopDown(s, "SingleHop")}
<1>1. PICK v \in gone : o \in winDeleteInterface([v EXCEPT !.conn = NoConn])
  BY DEF takeDown
<1>2. PICK t \in hopDown(s, "SingleHop") :
        v \in UNION {hopDown(u, "MultiHopExit") : u \in hopDown(t, "MultiHopEntry")}
  OBVIOUS
<1>3. PICK u \in hopDown(t, "MultiHopEntry") : v \in hopDown(u, "MultiHopExit")
  BY <1>2
<1>4. v \in WinStates /\ Released(v)
  <2>1. t \in WinStates /\ Released(t)
    BY HopDownOutcome
  <2>2. u \in WinStates /\ Released(u)
    BY <2>1, HopDownOutcome
  <2> QED BY <1>3, <2>2, HopDownOutcome
<1> DEFINE w == [v EXCEPT !.conn = NoConn]
<1>5. /\ w \in WinStates /\ w.conn = NoConn /\ w.known = v.known
      /\ w.adapter = v.adapter /\ w.stuck = v.stuck
  BY <1>4, AllUnconnected
<1>6. o \in winDeleteInterface(w)
  BY <1>1
<1> HIDE DEF w
<1>7. CASE ~w.adapter
  <2>1. o = WFail(w)
    BY <1>6, <1>7 DEF winDeleteInterface
  <2>2. o.ok = FALSE /\ o.s = w
    BY <2>1 DEF WFail
  <2> QED BY <1>4, <1>5, <1>7, <2>2 DEF Released
<1>8. CASE w.adapter
  <2>1. PICK q \in disableKillSwitch(w) : o = WOk([q.s EXCEPT !.adapter = FALSE])
    BY <1>6, <1>8 DEF winDeleteInterface
  <2> DEFINE x == [q.s EXCEPT !.adapter = FALSE]
  <2>2. q.s \in WinStates /\ q.s.conn = NoConn /\ (q.s.stuck \/ q.s.known = {})
    BY <1>5, DisableOutcome
  <2>3. x \in WinStates /\ x.conn = NoConn /\ ~x.adapter /\ x.stuck = q.s.stuck /\ x.known = q.s.known
    BY <2>2, AdapterGone
  <2> HIDE DEF x
  <2>4. o = WOk(x)
    BY <2>1 DEF x
  <2>5. o.ok = TRUE /\ o.s = x
    BY <2>4 DEF WOk
  <2> QED BY <2>2, <2>3, <2>5 DEF Released
<1> QED BY <1>7, <1>8

\* The interface and the bypass of the local networks.
LEMMA AdapterOutcome ==
  ASSUME NEW s \in WinStates, NEW o,
         o \in IF s.adapter THEN {WOk(s)} ELSE WThen(winAddInterface(s), enableLanBypass)
  PROVE  \/ o.ok = FALSE /\ o.s \in WinStates
         \/ /\ o.ok = TRUE /\ o.s \in WinStates /\ o.s.conn = s.conn /\ o.s.adapter /\ Grown(s, o.s)
            /\ IF s.adapter THEN o.s.whole = s.whole
                            ELSE InterfaceRules \in o.s.known /\ LanRules \in o.s.known
<1>1. CASE s.adapter
  <2>1. o.ok = TRUE /\ o.s = s
    BY <1>1 DEF WOk
  <2>2. Grown(s, s)
    BY DEF Grown
  <2> QED BY <1>1, <2>1, <2>2
<1>2. CASE ~s.adapter
  <2>1. PICK q \in winAddInterface(s) : o \in IF q.ok THEN enableLanBypass(q.s) ELSE {q}
    BY <1>2 DEF WThen
  <2>2. CASE Failed(s, q)
    BY <2>1, <2>2 DEF Failed
  <2>3. CASE ~Failed(s, q)
    <3>1. /\ q.ok = TRUE /\ q.s \in WinStates
          /\ q.s.known = s.known \cup {InterfaceRules} /\ q.s.conn = s.conn
          /\ q.s.adapter /\ Grown(s, q.s)
      BY <2>3, AddInterfaceOutcome
    <3>2. o \in enableLanBypass(q.s)
      BY <2>1, <3>1
    <3>3. \/ Failed(q.s, o)
          \/ /\ o.ok = TRUE /\ o.s \in WinStates
             /\ o.s.known = q.s.known \cup {LanRules} /\ o.s.conn = q.s.conn
             /\ o.s.adapter = q.s.adapter /\ Grown(q.s, o.s)
      BY <3>1, <3>2, LanBypassOutcome
    <3>4. CASE Failed(q.s, o)
      BY <3>4 DEF Failed
    <3>5. CASE ~Failed(q.s, o)
      BY <1>2, <3>1, <3>3, <3>5, GrownOn
    <3> QED BY <3>4, <3>5
  <2> QED BY <2>2, <2>3
<1> QED BY <1>1, <1>2

\* A new connection.
LEMMA BringUpOutcome ==
  ASSUME NEW s \in WinStates, NEW c \in WinConfigs, Own(s, c), NEW o \in bringUp(s, c)
  PROVE  \/ o.ok = FALSE /\ o.s \in WinStates
         \/ /\ o.ok = TRUE /\ o.s \in WinStates /\ o.s.conn = [s.conn EXCEPT ![c.hop] = c]
            /\ o.s.adapter /\ Grown(s, o.s) /\ PeerRules(c) \in o.s.known
            /\ IF s.adapter THEN o.s.whole = s.whole
                            ELSE InterfaceRules \in o.s.known /\ LanRules \in o.s.known
<1> DEFINE A == IF s.adapter THEN {WOk(s)} ELSE WThen(winAddInterface(s), enableLanBypass)
<1>1. PICK q \in A : o \in IF q.ok THEN WThen(winUpdatePeer(q.s, c),
                                  LAMBDA u : {WFail(u), WOk([u EXCEPT !.conn[c.hop] = c])}) ELSE {q}
  BY DEF bringUp, WThen
<1>2. \/ q.ok = FALSE /\ q.s \in WinStates
      \/ /\ q.ok = TRUE /\ q.s \in WinStates /\ q.s.conn = s.conn /\ q.s.adapter /\ Grown(s, q.s)
         /\ IF s.adapter THEN q.s.whole = s.whole
                         ELSE InterfaceRules \in q.s.known /\ LanRules \in q.s.known
  BY AdapterOutcome
<1> HIDE DEF A
<1>3. CASE q.ok = FALSE
  BY <1>1, <1>2, <1>3
<1>4. CASE q.ok = TRUE
  <2>1. PICK r \in winUpdatePeer(q.s, c) :
          o \in IF r.ok THEN {WFail(r.s), WOk([r.s EXCEPT !.conn[c.hop] = c])} ELSE {r}
    BY <1>1, <1>4 DEF WThen
  <2>2. \/ Failed(q.s, r)
        \/ /\ r.ok = TRUE /\ r.s \in WinStates
           /\ r.s.known = q.s.known \cup {PeerRules(c)} /\ r.s.conn = q.s.conn
           /\ r.s.adapter = q.s.adapter /\ r.s.whole = q.s.whole /\ Grown(q.s, r.s)
    BY <1>2, <1>4, UpdatePeerOutcome
  <2>3. CASE Failed(q.s, r)
    BY <2>1, <2>3 DEF Failed
  <2>4. CASE ~Failed(q.s, r) /\ o = WFail(r.s)
    BY <2>2, <2>4 DEF WFail
  <2>5. CASE ~Failed(q.s, r) /\ o = WOk([r.s EXCEPT !.conn[c.hop] = c])
    <3> DEFINE u == [r.s EXCEPT !.conn[c.hop] = c]
    <3>1. /\ r.s \in WinStates /\ r.s.adapter /\ r.s.conn = s.conn /\ Grown(s, r.s)
          /\ PeerRules(c) \in r.s.known
      BY <1>2, <1>4, <2>2, <2>5, GrownOn
    <3>0. Own(r.s, c)
      BY <3>1 DEF Own, WConnected
    <3>2. /\ u \in WinStates
          /\ u.known = r.s.known /\ u.orphans = r.s.orphans /\ u.seen = r.s.seen
          /\ u.adapter = r.s.adapter /\ u.whole = r.s.whole
          /\ u.conn = [r.s.conn EXCEPT ![c.hop] = c]
      BY <3>1, <3>0, HopConnected
    <3> HIDE DEF u
    <3>3. o = WOk(u)
      BY <2>5 DEF u
    <3>4. o.ok = TRUE /\ o.s = u
      BY <3>3 DEF WOk
    <3>5. Grown(s, u)
      BY <3>1, <3>2 DEF Grown, InForce
    <3>6. IF s.adapter THEN u.whole = s.whole
                       ELSE InterfaceRules \in u.known /\ LanRules \in u.known
      BY <1>2, <1>4, <2>2, <2>5, <3>2
    <3> QED BY <3>1, <3>2, <3>4, <3>5, <3>6
  <2> QED BY <2>1, <2>2, <2>3, <2>4, <2>5
<1> QED BY <1>2, <1>3, <1>4

\* What a switch of hop c.hop to the server of c keeps: all but the rules of the
\* server it leaves.
KeptRules(s, c) ==
  {r \in s.known \cup {PeerRules(c)} :
     ~(r.of = "peer" /\ r.server = s.conn[c.hop].server /\ s.conn[c.hop].server # c.server)}

\* A switch adds the new rules before it removes the old ones.
LEMMA SwitchOutcome ==
  ASSUME NEW s \in WinStates, NEW c \in WinConfigs, Own(s, c), s.adapter,
         NEW o \in winSwitchServer(s, c)
  PROVE  \/ o.ok = FALSE /\ o.s \in WinStates
         \/ /\ o.ok = TRUE /\ o.s \in WinStates /\ o.s.conn = [s.conn EXCEPT ![c.hop] = c]
            /\ o.s.adapter /\ o.s.whole = s.whole
            /\ KeptRules(s, c) \subseteq o.s.known
            /\ \A r \in o.s.seen : \/ r \in s.seen
                                   \/ /\ KeptRules(s, c) \subseteq r \/ s.known \subseteq r
                                      /\ r \subseteq InForce(s) \cup {PeerRules(c)}
<1> DEFINE last == s.conn[c.hop].server
           D(t) == IF last = c.server THEN {WOk(t)} ELSE winDeletePeer(t, last)
<1>1. PICK q \in winUpdatePeer(s, c) :
        o \in IF q.ok THEN WThen(D(q.s), LAMBDA u : {WOk([u EXCEPT !.conn[c.hop] = c])}) ELSE {q}
  BY DEF winSwitchServer, WThen
<1>2. \/ Failed(s, q)
      \/ /\ q.ok = TRUE /\ q.s \in WinStates
         /\ q.s.known = s.known \cup {PeerRules(c)} /\ q.s.conn = s.conn
         /\ q.s.adapter = s.adapter /\ q.s.whole = s.whole /\ Grown(s, q.s)
  BY UpdatePeerOutcome
<1>3. CASE Failed(s, q)
  BY <1>1, <1>3 DEF Failed
<1>4. CASE ~Failed(s, q)
  <2>1. PICK d \in D(q.s) : o \in IF d.ok THEN {WOk([d.s EXCEPT !.conn[c.hop] = c])} ELSE {d}
    BY <1>1, <1>2, <1>4 DEF WThen
  <2>2. /\ d.ok \in BOOLEAN /\ d.s \in WinStates
        /\ d.s.conn = q.s.conn /\ d.s.adapter = q.s.adapter /\ d.s.whole = q.s.whole
        /\ KeptRules(s, c) \subseteq d.s.known
        /\ \A r \in d.s.seen : r \in q.s.seen \/ (KeptRules(s, c) \subseteq r /\ r \subseteq InForce(q.s))
    <3>1. CASE last = c.server
      <4>1. d.ok = TRUE /\ d.s = q.s
        BY <2>1, <3>1 DEF WOk
      <4> QED BY <1>2, <1>4, <4>1 DEF KeptRules
    <3>2. CASE last # c.server
      <4>1. d \in winDeletePeer(q.s, last)
        BY <2>1, <3>2
      <4>2. KeptRules(s, c) = q.s.known \ OfPeer(q.s, last)
        BY <1>2, <1>4, <3>2 DEF KeptRules, OfPeer
      <4> DEFINE x == q.s
                 K == x.known \ OfPeer(x, last)
      <4>3. x \in WinStates
        BY <1>2, <1>4
      <4> HIDE DEF x, last
      <4>4. /\ d.ok \in BOOLEAN /\ d.s \in WinStates
            /\ d.s.conn = x.conn /\ d.s.adapter = x.adapter /\ d.s.whole = x.whole
            /\ K \subseteq d.s.known
            /\ \A r \in d.s.seen : r \in x.seen \/ (K \subseteq r /\ r \subseteq InForce(x))
        BY <4>1, <4>3, DeletePeerOutcome DEF x
      <4> QED BY <4>2, <4>4 DEF x
    <3> QED BY <3>1, <3>2
  <2>3. \A r \in d.s.seen : \/ r \in s.seen
                            \/ /\ KeptRules(s, c) \subseteq r \/ s.known \subseteq r
                               /\ r \subseteq InForce(s) \cup {PeerRules(c)}
    BY <1>2, <1>4, <2>2 DEF Grown, InForce
  <2>4. CASE ~d.ok
    BY <2>1, <2>2, <2>4
  <2>5. CASE d.ok
    <3> DEFINE u == [d.s EXCEPT !.conn[c.hop] = c]
    <3>1. d.s.conn = s.conn /\ d.s.adapter /\ d.s.whole = s.whole
      BY <1>2, <1>4, <2>2
    <3>2. Own(d.s, c)
      BY <3>1 DEF Own, WConnected
    <3>3. /\ u \in WinStates
          /\ u.known = d.s.known /\ u.orphans = d.s.orphans /\ u.seen = d.s.seen
          /\ u.adapter = d.s.adapter /\ u.whole = d.s.whole
          /\ u.conn = [d.s.conn EXCEPT ![c.hop] = c]
      BY <2>2, <3>1, <3>2, HopConnected
    <3> HIDE DEF u
    <3>4. o = WOk(u)
      BY <2>1, <2>5 DEF u
    <3>5. o.ok = TRUE /\ o.s = u
      BY <3>4 DEF WOk
    <3> QED BY <2>2, <2>3, <3>1, <3>3, <3>5
  <2> QED BY <2>2, <2>4, <2>5
<1> QED BY <1>3, <1>4

\* A failed activation leaves nothing it claims of the kill switch.
Broken(s) == s \in WinStates /\ ~s.whole /\ Released(s)

\* activationFailure(): what succeeded passes, what failed breaks the kill switch.
LEMMA FailureOutcome ==
  ASSUME NEW S, NEW o \in onFailure(S), \A q \in S : q.ok \/ (q.ok = FALSE /\ q.s \in WinStates)
  PROVE  \/ o \in S /\ o.ok
         \/ o.ok = FALSE /\ Broken(o.s)
<1>1. CASE o \in S /\ o.ok
  BY <1>1
<1>2. CASE o \in {WFail([x.s EXCEPT !.whole = FALSE]) :
                    x \in UNION {disableKillSwitch(p.s) : p \in {q \in S : ~q.ok}}}
  <2>1. PICK x \in UNION {disableKillSwitch(p.s) : p \in {q \in S : ~q.ok}} :
          o = WFail([x.s EXCEPT !.whole = FALSE])
    BY <1>2
  <2>2. PICK p \in S : ~p.ok /\ x \in disableKillSwitch(p.s)
    OBVIOUS
  <2>3. p.s \in WinStates
    BY <2>2
  <2>4. x.s \in WinStates /\ (x.s.stuck \/ x.s.known = {})
    BY <2>2, <2>3, DisableOutcome
  <2> DEFINE u == [x.s EXCEPT !.whole = FALSE]
  <2>5. u \in WinStates /\ u.known = x.s.known /\ ~u.whole /\ u.stuck = x.s.stuck
    BY <2>4, WholeSet
  <2> HIDE DEF u
  <2>6. o = WFail(u)
    BY <2>1 DEF u
  <2>7. o.ok = FALSE /\ o.s = u
    BY <2>6 DEF WFail
  <2> QED BY <2>4, <2>5, <2>7 DEF Broken, Released
<1> QED BY <1>1, <1>2 DEF onFailure

-----------------------------------------------------------------------------
(* The kill switch.                                                        *)

\* Unless an activation failed, the rules of the adapter, of the local networks
\* and of every server that is connected are known.
Sound(s) ==
  s.whole =>
    /\ s.adapter => InterfaceRules \in s.known /\ LanRules \in s.known
    /\ \A h \in WinHops : WConnected(s, h) => PeerRules(s.conn[h]) \in s.known

\* A connection and its rules.
LEMMA ConnectionTyped ==
  ASSUME NEW s \in WinStates, NEW h \in WinHops, WConnected(s, h)
  PROVE  /\ s.conn[h] \in WinConfigs /\ s.conn[h].hop = h /\ s.adapter
         /\ PeerRules(s.conn[h]) \in PeerRuleSet
         /\ (h # "MultiHopEntry" => PeerRules(s.conn[h]).all)
         /\ PeerRules(s.conn[h]).server = s.conn[h].server
         /\ PeerRules(s.conn[h]).dns = s.conn[h].dns
         /\ \A g \in WinHops : WConnected(s, g) /\ g # h => s.conn[g].server # s.conn[h].server
<1>1. s.conn \in WinConns /\ s.adapter
  BY DEF WinStates, WinRecord
<1>2. s.conn[h] \in WinConfigs /\ s.conn[h].hop = h
  BY <1>1 DEF WinConns, WConnected
<1>3. \A g \in WinHops : WConnected(s, g) /\ g # h => s.conn[g].server # s.conn[h].server
  BY <1>1 DEF WinConns, WConnected
<1>4. /\ PeerRules(s.conn[h]) \in PeerRuleSet
      /\ (h # "MultiHopEntry" => PeerRules(s.conn[h]).all)
      /\ PeerRules(s.conn[h]).server = s.conn[h].server
      /\ PeerRules(s.conn[h]).dns = s.conn[h].dns
  BY <1>2 DEF PeerRules, PeerRuleSet, WinConfigs, WinConfig
<1> QED BY <1>1, <1>2, <1>3, <1>4

\* The rules of a connection that takes all traffic fence.
LEMMA CarryingFences ==
  ASSUME NEW s \in WinStates, Sound(s), s.whole, NEW h \in Carrying(s)
  PROVE  /\ h \in WinHops /\ WConnected(s, h)
         /\ \A R : s.known \subseteq R => Fencing(R)
<1>1. h \in WinHops /\ WConnected(s, h) /\ h # "MultiHopEntry"
  BY DEF Carrying, WinHops
<1>2. s.adapter /\ PeerRules(s.conn[h]) \in PeerRuleSet /\ PeerRules(s.conn[h]).all
  BY <1>1, ConnectionTyped
<1>3. InterfaceRules \in s.known /\ PeerRules(s.conn[h]) \in s.known
  BY <1>1, <1>2 DEF Sound
<1> QED BY <1>1, <1>2, <1>3 DEF Fencing

\* Throughout a step that a connection survives the fence stands.
Gapless(s, t) ==
  /\ s.whole /\ t.whole
  /\ \E h \in Carrying(s) \cap Carrying(t) : s.conn[h].device = t.conn[h].device
  => \A r \in t.seen : Fencing(r) /\ r \subseteq InForce(s) \cup InForce(t)

\* Then no packet gets past the tunnel in the middle of it.
LEMMA NoGaps ==
  ASSUME NEW s \in WinStates, NEW t \in WinStates, Gapless(s, t)
  PROVE  Gaps(s, t) = {}
<1> SUFFICES ASSUME NEW r \in t.seen, s.whole, t.whole,
                    \E h \in Carrying(s) \cap Carrying(t) : s.conn[h].device = t.conn[h].device,
                    NEW p \in Bypass(s) \cap Bypass(t)
             PROVE  Says(r, p) = {"block"}
  BY DEF Gaps
<1>1. Fencing(r) /\ r \subseteq InForce(s) \cup InForce(t)
  BY DEF Gapless
<1>2. r \in SUBSET Rules
  BY StateFields
<1>3. p \in Packet /\ Bypassing(r, p)
  BY <1>1 DEF Bypass, Bypassing
<1> QED BY <1>1, <1>2, <1>3, FenceHolds

\* A new connection keeps what the others have.
LEMMA BringUpSound ==
  ASSUME NEW s \in WinStates, Sound(s), NEW c \in WinConfigs, Own(s, c),
         NEW o \in bringUp(s, c), o.ok = TRUE
  PROVE  /\ o.s \in WinStates /\ Sound(o.s) /\ Released(o.s)
         /\ o.s.conn = [s.conn EXCEPT ![c.hop] = c]
         /\ Grown(s, o.s)
<1>1. /\ o.s \in WinStates /\ o.s.conn = [s.conn EXCEPT ![c.hop] = c]
      /\ o.s.adapter /\ Grown(s, o.s) /\ PeerRules(c) \in o.s.known
      /\ IF s.adapter THEN o.s.whole = s.whole
                      ELSE InterfaceRules \in o.s.known /\ LanRules \in o.s.known
  <2>1. \/ o.ok = FALSE /\ o.s \in WinStates
        \/ /\ o.ok = TRUE /\ o.s \in WinStates /\ o.s.conn = [s.conn EXCEPT ![c.hop] = c]
           /\ o.s.adapter /\ Grown(s, o.s) /\ PeerRules(c) \in o.s.known
           /\ IF s.adapter THEN o.s.whole = s.whole
                           ELSE InterfaceRules \in o.s.known /\ LanRules \in o.s.known
    BY BringUpOutcome
  <2> QED BY <2>1
<1>2. s.known \subseteq o.s.known
  BY <1>1 DEF Grown
<1>3. ASSUME o.s.whole PROVE InterfaceRules \in o.s.known /\ LanRules \in o.s.known
  BY <1>1, <1>2, <1>3 DEF Sound
<1>4. ASSUME o.s.whole, NEW h \in WinHops, WConnected(o.s, h)
      PROVE  PeerRules(o.s.conn[h]) \in o.s.known
  <2>1. s.conn \in [WinHops -> WinConfigs \cup {Unconnected}] /\ c.hop \in WinHops
    BY DEF WinStates, WinRecord, WinConns, WinConfigs, WinConfig
  <2>2. CASE h = c.hop
    BY <1>1, <2>1, <2>2
  <2>3. CASE h # c.hop
    <3>1. o.s.conn[h] = s.conn[h] /\ WConnected(s, h)
      BY <1>1, <1>4, <2>1, <2>3 DEF WConnected
    <3>2. s.adapter
      BY <3>1, ConnectionTyped
    <3> QED BY <1>1, <1>2, <1>4, <3>1, <3>2 DEF Sound
  <2> QED BY <2>2, <2>3
<1>5. Sound(o.s)
  BY <1>3, <1>4 DEF Sound
<1> QED BY <1>1, <1>5 DEF Released

\* A switch of servers.
LEMMA SwitchSound ==
  ASSUME NEW s \in WinStates, Sound(s), s.seen = {InForce(s)},
         NEW c \in WinConfigs, Own(s, c), WConnected(s, c.hop),
         NEW o \in winSwitchServer(s, c), o.ok = TRUE
  PROVE  o.s \in WinStates /\ Sound(o.s) /\ Released(o.s) /\ Gapless(s, o.s)
<1>1. /\ s.conn \in [WinHops -> WinConfigs \cup {Unconnected}] /\ c.hop \in WinHops
      /\ PeerRules(c) \in PeerRuleSet /\ PeerRules(c).server = c.server
      /\ (c.hop # "MultiHopEntry" => PeerRules(c).all)
  BY DEF WinStates, WinRecord, WinConns, WinConfigs, WinConfig, PeerRules, PeerRuleSet
<1>2. s.adapter
  BY <1>1, ConnectionTyped
<1>3. /\ o.s \in WinStates /\ o.s.conn = [s.conn EXCEPT ![c.hop] = c]
      /\ o.s.adapter /\ o.s.whole = s.whole
      /\ KeptRules(s, c) \subseteq o.s.known
      /\ \A r \in o.s.seen : \/ r \in s.seen
                             \/ /\ KeptRules(s, c) \subseteq r \/ s.known \subseteq r
                                /\ r \subseteq InForce(s) \cup {PeerRules(c)}
  BY <1>2, SwitchOutcome
<1>4. PeerRules(c) \in KeptRules(s, c)
  BY <1>1 DEF KeptRules
<1>5. ASSUME s.whole
      PROVE  /\ InterfaceRules \in KeptRules(s, c) /\ LanRules \in KeptRules(s, c)
             /\ \A h \in WinHops : WConnected(o.s, h) => PeerRules(o.s.conn[h]) \in KeptRules(s, c)
  <2>1. InterfaceRules \in KeptRules(s, c) /\ LanRules \in KeptRules(s, c)
    BY <1>2, <1>5 DEF Sound, KeptRules, InterfaceRules, LanRules
  <2>2. ASSUME NEW h \in WinHops, WConnected(o.s, h), h # c.hop
        PROVE  PeerRules(o.s.conn[h]) \in KeptRules(s, c)
    <3>1. o.s.conn[h] = s.conn[h] /\ WConnected(s, h)
      BY <1>1, <1>3, <2>2 DEF WConnected
    <3>2. /\ PeerRules(s.conn[h]).server = s.conn[h].server
          /\ s.conn[h].server # s.conn[c.hop].server
      BY <1>1, <2>2, <3>1, ConnectionTyped
    <3>3. PeerRules(s.conn[h]) \in s.known
      BY <1>5, <3>1 DEF Sound
    <3> QED BY <3>1, <3>2, <3>3 DEF KeptRules
  <2>3. o.s.conn[c.hop] = c
    BY <1>1, <1>3
  <2> QED BY <1>4, <2>1, <2>2, <2>3
<1>6. Sound(o.s)
  BY <1>3, <1>5 DEF Sound
<1>7. ASSUME s.whole, NEW h \in Carrying(s) \cap Carrying(o.s), NEW r \in o.s.seen
      PROVE  Fencing(r) /\ r \subseteq InForce(s) \cup InForce(o.s)
  <2>1. s.known \subseteq r => Fencing(r)
    BY <1>7, CarryingFences
  <2>2. \/ s.known \subseteq r
        \/ KeptRules(s, c) \subseteq r
    BY <1>3 DEF InForce
  <2>3. r \subseteq InForce(s) \cup {PeerRules(c)}
    BY <1>3
  <2>4. PeerRules(c) \in InForce(o.s)
    BY <1>3, <1>4 DEF InForce
  <2>5. KeptRules(s, c) \subseteq r => Fencing(r)
    <3>1. h \in WinHops /\ WConnected(o.s, h) /\ h # "MultiHopEntry"
      BY DEF Carrying, WinHops
    <3>2. PeerRules(o.s.conn[h]) \in PeerRuleSet /\ PeerRules(o.s.conn[h]).all
      BY <1>3, <3>1, ConnectionTyped
    <3>3. InterfaceRules \in KeptRules(s, c) /\ PeerRules(o.s.conn[h]) \in KeptRules(s, c)
      BY <1>5, <1>7, <3>1
    <3> QED BY <3>2, <3>3 DEF Fencing
  <2> QED BY <2>1, <2>2, <2>3, <2>4, <2>5
<1>8. Gapless(s, o.s)
  BY <1>7 DEF Gapless
<1> QED BY <1>3, <1>6, <1>8 DEF Released

\* activate(): it fails, or the kill switch stands.
LEMMA ActivateOutcome ==
  ASSUME NEW s \in WinStates, Sound(s), Released(s), s.seen = {InForce(s)},
         NEW c \in WinConfigs, Own(s, c), NEW o \in activateOutcomes(s, c)
  PROVE  o.s \in WinStates /\ Sound(o.s) /\ Released(o.s) /\ Gapless(s, o.s)
<1> DEFINE S == IF ~WConnected(s, c.hop) THEN bringUp(s, c)
                ELSE IF sameDevice(s, c) THEN WThen(winSwitchServer(s, c), LAMBDA t : {WFail(t), WOk(t)})
                ELSE WThen(takeDown(s), LAMBDA t : onFailure(bringUp(t, c)))
<1>1. c.hop \in WinHops /\ s.conn \in [WinHops -> WinConfigs \cup {Unconnected}]
  BY DEF WinStates, WinRecord, WinConns, WinConfigs, WinConfig
<1>2. ASSUME NEW q \in S
      PROVE  \/ q.ok = FALSE /\ q.s \in WinStates
             \/ /\ q.ok = TRUE
                /\ q.s \in WinStates /\ Sound(q.s) /\ Released(q.s) /\ Gapless(s, q.s)
  <2>1. CASE ~WConnected(s, c.hop)
    <3>1. q \in bringUp(s, c)
      BY <2>1
    <3>2. (q.ok = FALSE /\ q.s \in WinStates) \/ q.ok = TRUE
      BY <3>1, BringUpOutcome
    <3>3. ASSUME q.ok = TRUE
          PROVE  q.s \in WinStates /\ Sound(q.s) /\ Released(q.s) /\ Gapless(s, q.s)
      <4>1. q.s \in WinStates /\ Sound(q.s) /\ Released(q.s) /\ Grown(s, q.s)
        BY <3>1, <3>3, BringUpSound
      <4>2. ASSUME s.whole, NEW h \in Carrying(s), NEW r \in q.s.seen
            PROVE  Fencing(r) /\ r \subseteq InForce(s) \cup InForce(q.s)
        <5>1. s.known \subseteq r
          BY <4>1 DEF Grown, InForce
        <5>2. Fencing(r)
          BY <4>2, <5>1, CarryingFences
        <5>3. r \subseteq InForce(s) \cup InForce(q.s)
          BY <4>1 DEF Grown
        <5> QED BY <5>2, <5>3
      <4> QED BY <4>1, <4>2 DEF Gapless
    <3> QED BY <3>2, <3>3
  <2>2. CASE WConnected(s, c.hop) /\ sameDevice(s, c)
    <3>1. PICK x \in winSwitchServer(s, c) : q \in IF x.ok THEN {WFail(x.s), WOk(x.s)} ELSE {x}
      BY <2>2 DEF WThen
    <3>2. s.adapter
      BY <1>1, <2>2, ConnectionTyped
    <3>3. (x.ok = FALSE /\ x.s \in WinStates) \/ x.ok = TRUE
      BY <3>2, SwitchOutcome
    <3>4. CASE x.ok = FALSE
      BY <3>1, <3>3, <3>4
    <3>5. CASE x.ok = TRUE
      <4>1. x.s \in WinStates /\ Sound(x.s) /\ Released(x.s) /\ Gapless(s, x.s)
        BY <2>2, <3>5, SwitchSound
      <4>2. q = WFail(x.s) \/ q = WOk(x.s)
        BY <3>1, <3>5
      <4>3. CASE q = WFail(x.s)
        BY <4>1, <4>3 DEF WFail
      <4>4. CASE q = WOk(x.s)
        BY <4>1, <4>4 DEF WOk
      <4> QED BY <4>2, <4>3, <4>4
    <3> QED BY <3>3, <3>4, <3>5
  <2>3. CASE WConnected(s, c.hop) /\ ~sameDevice(s, c)
    <3>1. PICK x \in takeDown(s) : q \in IF x.ok THEN onFailure(bringUp(x.s, c)) ELSE {x}
      BY <2>3 DEF WThen
    <3>2. /\ x.ok \in BOOLEAN /\ x.s \in WinStates
          /\ x.s.conn = NoConn /\ ~x.s.adapter /\ Released(x.s)
      BY TakeDownOutcome
    <3>3. CASE ~x.ok
      BY <3>1, <3>2, <3>3
    <3>4. CASE x.ok
      <4>1. Sound(x.s) /\ Own(x.s, c)
        BY <3>2 DEF Sound, Own, NoConn, WConnected
      <4>2. q \in onFailure(bringUp(x.s, c))
        BY <3>1, <3>4
      <4>3. \A y \in bringUp(x.s, c) : y.ok \/ (y.ok = FALSE /\ y.s \in WinStates)
        BY <3>2, <4>1, BringUpOutcome
      <4>4. \/ q \in bringUp(x.s, c) /\ q.ok
            \/ q.ok = FALSE /\ Broken(q.s)
        BY <4>2, <4>3, FailureOutcome
      <4>5. CASE q.ok = FALSE /\ Broken(q.s)
        BY <4>5 DEF Broken
      <4>6. CASE q \in bringUp(x.s, c) /\ q.ok = TRUE
        <5>1. /\ q.s \in WinStates /\ Sound(q.s) /\ Released(q.s)
              /\ q.s.conn = [x.s.conn EXCEPT ![c.hop] = c]
          BY <3>2, <4>1, <4>6, BringUpSound
        <5>2. \A h \in WinHops : WConnected(q.s, h) => h = c.hop
          BY <3>2, <5>1 DEF WConnected, NoConn
        <5>3. q.s.conn[c.hop] = c
          BY <1>1, <3>2, <5>1 DEF NoConn
        <5>4. \A h \in Carrying(q.s) : s.conn[h].device # q.s.conn[h].device
          BY <2>3, <5>2, <5>3 DEF Carrying, WinHops, sameDevice
        <5>5. Gapless(s, q.s)
          BY <5>4 DEF Gapless
        <5> QED BY <4>6, <5>1, <5>5
      <4>7. q \in bringUp(x.s, c) /\ q.ok => q.ok = TRUE
        BY <3>2, <4>1, BringUpOutcome
      <4> QED BY <4>4, <4>5, <4>6, <4>7
    <3> QED BY <3>2, <3>3, <3>4
  <2> QED BY <2>1, <2>2, <2>3
<1>3. o \in onFailure(S)
  BY DEF activateOutcomes
<1> HIDE DEF S
<1>4. \/ o \in S /\ o.ok
      \/ o.ok = FALSE /\ Broken(o.s)
  BY <1>2, <1>3, FailureOutcome
<1>5. CASE o \in S /\ o.ok
  BY <1>2, <1>5
<1>6. CASE Broken(o.s)
  BY <1>6 DEF Broken, Sound, Gapless
<1> QED BY <1>4, <1>5, <1>6

\* The inductive invariant.
WinInv ==
  /\ win \in WinStates
  /\ Sound(win)
  /\ Released(win)
  /\ WinNoGap

\* What is sound fences, and lets the tunnel be used.
LEMMA SoundFences ==
  ASSUME win \in WinStates, Sound(win)
  PROVE  WinFenced /\ WinUsable
<1>1. InForce(win) \in SUBSET Rules /\ win.known \subseteq InForce(win)
  BY StateFields DEF InForce
<1>2. WinFenced
  <2> SUFFICES ASSUME win.whole, NEW h \in Carrying(win), NEW p \in Bypass(win)
               PROVE  Says(InForce(win), p) = {"block"}
    BY DEF WinFenced
  <2>1. Fencing(InForce(win))
    BY <1>1, CarryingFences
  <2>2. p \in Packet /\ Bypassing(InForce(win), p)
    BY DEF Bypass, Bypassing
  <2> QED BY <1>1, <2>1, <2>2, FenceHolds
<1>3. WinUsable
  <2> SUFFICES ASSUME win.whole, NEW h \in Carrying(win), NEW p \in Packet,
                      \/ p.app = "daemon"
                      \/ p.svc = "web" /\ (p.iface = "tunnel" \/ p.addr = "lan")
                      \/ p.svc = "dns" /\ p.iface = "tunnel" /\ p.addr = win.conn[h].dns
                           /\ p.layer \in ResolverLayers(win.conn[h].dns)
               PROVE  Says(InForce(win), p) = {"permit"}
    BY DEF WinUsable
  <2>1. h \in WinHops /\ WConnected(win, h)
    BY CarryingFences
  <2>2. /\ win.adapter /\ PeerRules(win.conn[h]) \in PeerRuleSet
        /\ PeerRules(win.conn[h]).dns = win.conn[h].dns
    BY <2>1, ConnectionTyped
  <2>3. /\ InterfaceRules \in InForce(win) /\ LanRules \in InForce(win)
        /\ PeerRules(win.conn[h]) \in InForce(win)
    BY <1>1, <2>1, <2>2 DEF Sound
  <2>4. CASE p.app = "daemon"
    BY <1>1, <2>3, <2>4, DaemonPasses
  <2>5. CASE p.svc = "web" /\ p.iface = "tunnel"
    BY <1>1, <2>3, <2>5, TunnelPasses
  <2>6. CASE p.svc = "web" /\ p.addr = "lan"
    BY <1>1, <2>3, <2>6, LanPasses
  <2>7. CASE p.svc = "dns" /\ p.addr = win.conn[h].dns
               /\ p.layer \in ResolverLayers(win.conn[h].dns)
    BY <1>1, <2>2, <2>3, <2>7, ResolverPasses
  <2> QED BY <2>4, <2>5, <2>6, <2>7
<1> QED BY <1>2, <1>3

\* What a step begins with and ends with.
LEMMA BegunIs ==
  ASSUME win \in WinStates
  PROVE  /\ Begun \in WinStates
         /\ Begun.known = win.known /\ Begun.orphans = win.orphans
         /\ Begun.seen = {InForce(Begun)}
         /\ Begun.adapter = win.adapter /\ Begun.conn = win.conn
         /\ Begun.whole = win.whole /\ Begun.stuck = win.stuck
<1>1. InForce(win) \in SUBSET Rules
  BY StateFields
<1> QED BY <1>1 DEF Begun, WinStates, WinRecord, WConnected, InForce

\* The moments in between are forgotten.
LEMMA EndedIs ==
  ASSUME NEW t \in WinStates
  PROVE  LET u == [t EXCEPT !.seen = {}] IN
         /\ u \in WinStates /\ u.seen = {}
         /\ Sound(t) => Sound(u)
         /\ Released(t) => Released(u)
BY DEF WinStates, WinRecord, WConnected, Sound, Released

\* A step with an outcome that is sound and without a gap.
LEMMA StepEnds ==
  ASSUME win \in WinStates, NEW o, win' = Ended(o),
         o.s \in WinStates, Sound(o.s), Released(o.s), Gapless(Begun, o.s)
  PROVE  WinInv'
<1>1. Gaps(Begun, o.s) = {}
  BY BegunIs, NoGaps
<1>2. Gaps(win, o.s) = Gaps(Begun, o.s)
  BY BegunIs DEF Gaps, Carrying, Bypass, InForce, WConnected
<1> DEFINE u == [o.s EXCEPT !.seen = {}]
<1>3. win' = u
  BY <1>1, <1>2 DEF Ended
<1>4. u \in WinStates /\ u.seen = {} /\ Sound(u) /\ Released(u)
  BY EndedIs
<1> HIDE DEF u
<1>5. win' \in WinStates /\ win'.seen = {} /\ Sound(win') /\ Released(win')
  BY <1>3, <1>4
<1> QED BY <1>5 DEF WinInv, WinNoGap, Sound, Released, WConnected

\* The daemon is started anew.
LEMMA FreshKeeps ==
  ASSUME win' = WinFresh
  PROVE  WinInv'
<1>1. NoConn \in WinConns /\ \A h \in WinHops : NoConn[h] = Unconnected
  BY DEF NoConn, WinConns
<1>2. WinFresh \in WinStates
  BY <1>1 DEF WinFresh, WinStates, WinRecord, WConnected
<1> QED BY <1>2 DEF WinInv, WinFresh, Sound, Released, WinNoGap

(***************************************************************************)
(* Whatever is activated, switched and deactivated in whichever order,     *)
(* whichever transactions fail and however many filters get lost, the kill *)
(* switch of the Windows daemon holds, also in the middle of a switch of   *)
(* servers, leaves the tunnel usable, and goes with the adapter.           *)
(***************************************************************************)
THEOREM WindowsKillSwitch == WinSpec => []KillSwitchRight
<1>1. WinInit => WinInv
  <2>1. NoConn \in WinConns /\ \A h \in WinHops : NoConn[h] = Unconnected
    BY DEF NoConn, WinConns
  <2>2. WinFresh \in WinStates
    BY <2>1 DEF WinFresh, WinStates, WinRecord, WConnected
  <2> QED BY <2>2 DEF WinInit, WinInv, WinFresh, Sound, Released, WinNoGap
<1>2. WinInv /\ [WinNext]_win => WinInv'
  <2> SUFFICES ASSUME WinInv, [WinNext]_win PROVE WinInv'
    OBVIOUS
  <2>1. /\ win \in WinStates /\ Begun \in WinStates /\ Begun.seen = {InForce(Begun)}
        /\ Sound(Begun) /\ Released(Begun)
    BY BegunIs DEF WinInv, Sound, Released, WConnected
  <2>2. CASE winActivate
    <3>1. PICK c \in WinConfigs : OwnServer(c) /\ \E o \in activateOutcomes(Begun, c) : win' = Ended(o)
      BY <2>2 DEF winActivate
    <3>2. PICK o \in activateOutcomes(Begun, c) : win' = Ended(o)
      BY <3>1
    <3>3. Own(Begun, c)
      BY <2>1, <3>1, BegunIs DEF Own, OwnServer, WConnected
    <3>4. o.s \in WinStates /\ Sound(o.s) /\ Released(o.s) /\ Gapless(Begun, o.s)
      BY <2>1, <3>3, ActivateOutcome
    <3> QED BY <2>1, <3>2, <3>4, StepEnds
  <2>3. CASE winDeactivate
    <3>1. PICK o \in takeDown(Begun) : win' = Ended(o)
      BY <2>3 DEF winDeactivate
    <3>2. o.s \in WinStates /\ o.s.conn = NoConn /\ ~o.s.adapter /\ Released(o.s)
      BY <2>1, TakeDownOutcome
    <3>3. Sound(o.s) /\ Gapless(Begun, o.s)
      BY <3>2 DEF Sound, Gapless, Carrying, WConnected, NoConn, WinHops
    <3> QED BY <2>1, <3>1, <3>2, <3>3, StepEnds
  <2>4. CASE winCrash
    BY <2>4, FreshKeeps DEF winCrash
  <2>5. CASE UNCHANGED win
    BY <2>5 DEF WinInv, Sound, Released, WinNoGap, WConnected
  <2> QED BY <2>2, <2>3, <2>4, <2>5 DEF WinNext
<1>3. WinInv => KillSwitchRight
  BY SoundFences DEF WinInv, KillSwitchRight, WinReleased, Released
<1> QED BY <1>1, <1>2, <1>3, PTL DEF WinSpec

=============================================================================
