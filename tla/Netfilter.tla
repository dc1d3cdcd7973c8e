------------------------------ MODULE Netfilter ------------------------------
(***************************************************************************)
(* The packet filter of the Linux daemon: LinuxFirewall                    *)
(* (src/src/platforms/linux/daemon/linuxfirewall.cpp) over the nftables    *)
(* rules of src/linux/netfilter/netfilter.go.                              *)
(*                                                                         *)
(* up() builds the table in several commits, each of which may fail, and   *)
(* packets pass between any two of them.  So the state is the rule set in  *)
(* the kernel, one action makes one commit, and the invariants speak of    *)
(* all packets in every state of the rule set.                             *)
(*                                                                         *)
(* A rule matches if each of its fields holds one of the listed values,    *)
(* and the address is one of the marked servers if it looks them up.  Ports *)
(* and ICMPv6 types are together the service `svc' of a packet.  The rules *)
(* that exempt a control group are alike, so their number stands for them. *)
(* A definition named <Handler>_<slip> is a mutant of <Handler>.           *)
(***************************************************************************)
EXTENDS Naturals, Sequences, FiniteSetsExt

CONSTANTS
  Groups,       \* control groups of applications
  NoGroup,      \* the group of every other process
  MaxGroupRules,  \* bound on the rules that exempt one group
  MaxRestarts   \* bound on the restarts of the daemon

ASSUME FilterAssumption == NoGroup \notin Groups /\ MaxRestarts \in Nat

VARIABLES
  table,        \* mozvpn-inet exists
  chains,       \* its chains: the rules in each
  groupRules,   \* the rules that exempt each group, in mozvpn-cgroup and its nat
  addrset,      \* mozvpn-addrset and mozvpn-addrset6
  batch,        \* rules added and not committed yet
  fwmark,       \* mozvpn_ctx.fwmark is set
  upStep,       \* the next step of up(), or what became of it
  m_isUp,
  exempt,       \* history: groups the daemon counts as excluded
  failed,       \* history: groups for which a commit failed since
  restarts

filterVars ==
  <<table, chains, groupRules, addrset, batch, fwmark, upStep, m_isUp, exempt, failed, restarts>>

-----------------------------------------------------------------------------
(* Packets.                                                                *)

Lan4 == {"lan4"}
Multicast6 == {"solicited6", "routers6"}
Lan6 == {"lan6", "linklocal6"} \cup Multicast6
Hosts == {"host4", "host6"}
ServerAddrs == {"server4", "server6"}
Addrs == Lan4 \cup Lan6 \cup Hosts \cup ServerAddrs \cup {"broadcast4", "local6"}

Ifaces == {"lo", "moz0", "eth0"}

\* The mark of traffic that stays outside the tunnel.
NoMark == 0
FwMark == 1

\* Traffic of process group g with an address over an interface: what it is,
\* and what the rules have made of it.
Traffic(proto, svc, addr, iface, g) ==
  [proto |-> proto, svc |-> svc, addr |-> addr, iface |-> iface, group |-> g,
   mark |-> NoMark, ct |-> NoMark, to |-> "host", verdict |-> "none"]

-----------------------------------------------------------------------------
(* Rules.                                                                  *)

ChainNames == {"conntrack", "preroute", "input", "output"}

Rule(fields, act) == [fields |-> fields, lookup |-> FALSE, act |-> act]
Lookup(act) == [fields |-> [proto |-> {"udp"}], lookup |-> TRUE, act |-> act]

nftApplyFwMark_addressesOnly ==
  [conntrack |-> << Rule([mark |-> {FwMark}], "ctmark") >>,
   preroute |-> << Lookup("mark") >>]

\* Marked packets mark their connection; answers of the servers and of marked
\* connections are marked.
nftApplyFwMark ==
  [conntrack |-> << Rule([mark |-> {FwMark}], "ctmark") >>,
   preroute |-> << Lookup("mark"), Rule([ct |-> {FwMark}], "mark") >>]

\* Loopback, the tunnel, the servers and marked packets, in either direction.
nftRestrictTraffic ==
  [c \in {"input", "output"} |->
     << Rule([iface |-> {"lo"}], "accept"),
        Rule([iface |-> {"moz0"}], "accept"),
        Lookup("accept"),
        Rule([mark |-> {FwMark}], "accept") >>]

NetfilterIsolateIpv6_anySource ==
  [preroute |-> << Rule([iface |-> Ifaces \ {"moz0"}, to |-> {"tunnel"}], "drop") >>]

\* Packets of others to the tunnel's address come through the tunnel.
NetfilterIsolateIpv6 ==
  [preroute |-> << Rule([iface |-> Ifaces \ {"moz0"}, addr |-> Addrs \ {"local6"},
                         to |-> {"tunnel"}], "drop") >>]

NetfilterAllowPrefix_outputOnly(prefix) == [output |-> << Rule([addr |-> prefix], "accept") >>]

NetfilterAllowPrefix(prefix) ==
  [c \in {"input", "output"} |-> << Rule([addr |-> prefix], "accept") >>]

\* The rules of a client that asks and of a server that answers.
NetfilterAllowDHCP ==
  LET dhcp(svc) == Rule([proto |-> {"udp"}, svc |-> {svc}], "accept")
      asked == Rule([proto |-> {"udp"}, svc |-> {"68to67"}, addr |-> {"broadcast4"}], "accept")
  IN  [output |-> << asked, dhcp("67to68") >>, input |-> << asked, dhcp("68to67") >>]

NetfilterAllowNDP ==
  LET icmp(svc, to) == Rule([proto |-> {"icmp6"}, svc |-> svc, addr |-> to], "accept")
  IN  [output |-> << icmp({"rs"}, {"routers6"}), icmp({"ns"}, {"solicited6"}),
                     icmp({"ns"}, {"linklocal6"}), icmp({"na"}, {"linklocal6"}) >>,
       input |-> << icmp({"ra", "ns", "na", "redirect"}, Addrs) >>]

NetfilterBlockDNS ==
  [output |-> << Rule([proto |-> {"udp", "tcp"}, svc |-> {"dns"}], "reject") >>]

-----------------------------------------------------------------------------
(* The kernel.                                                             *)

Matches(r, p) ==
  /\ \A f \in DOMAIN r.fields : p[f] \in r.fields[f]
  /\ r.lookup => p.addr \in addrset

Deciding == {"accept", "drop", "reject"}
Filters == {"input", "output"}

\* A packet that comes out of a chain.  The first rule that decides ends it.  No
\* rule looks at what one before it in its chain has set, but to set it too, so
\* all look at the packet as it came in.  A verdict of accept ends only its
\* chain; input and output drop the rest.
Through(c, p) ==
  LET rules == chains[c]
      hits == {i \in DOMAIN rules : Matches(rules[i], p)}
      ends == {i \in hits : rules[i].act \in Deciding}
      done == {rules[i].act : i \in {j \in hits : \A k \in ends : j < k}}
      end == IF ends # {} THEN rules[Min(ends)].act
             ELSE IF c \in Filters THEN "drop" ELSE "none"
  IN  IF p.verdict # "none" THEN p
      ELSE [p EXCEPT !.mark = IF "mark" \in done THEN FwMark ELSE @,
                     !.ct = IF "ctmark" \in done THEN FwMark ELSE @,
                     !.verdict = IF end = "accept" /\ c \notin Filters THEN "none" ELSE end]

\* The rules of the packet's control group: its traffic is marked unless it is or
\* stays on the host, and gets the address of the interface it is moved to.
nftMarkCgroup2xt(p) ==
  IF p.group # NoGroup /\ groupRules[p.group] > 0 /\ p.iface # "lo"
  THEN [p EXCEPT !.mark = FwMark] ELSE p

OutputHook_conntrackFirst(p) == Through("output", nftMarkCgroup2xt(Through("conntrack", p)))

\* The chains of a hook by their priorities.
OutputHook(p) == Through("output", Through("conntrack", nftMarkCgroup2xt(p)))
InputHook(p) == Through("input", Through("preroute", p))

Sent(p) == IF table THEN OutputHook(p) ELSE [p EXCEPT !.verdict = "accept"]
Received(p) == IF table THEN InputHook(p) ELSE [p EXCEPT !.verdict = "accept"]

\* The answer to a packet as it was sent comes back with its connection's mark.
Answer(p) == [p EXCEPT !.mark = NoMark, !.verdict = "none"]

Passes(p) == p.verdict = "accept"
Answered(p) == Passes(Sent(p)) /\ Passes(Received(Answer(Sent(p))))

-----------------------------------------------------------------------------
(* Netfilter: commits.                                                     *)

NoRules == [c \in ChainNames |-> <<>>]
NoGroupRules == [g \in Groups |-> 0]

\* The rules in each chain, and then those of an addition.
Joined(rules, added) ==
  [c \in ChainNames |-> IF c \in DOMAIN added THEN rules[c] \o added[c] ELSE rules[c]]

\* Flush(): all of the batch or nothing, which it is if there is no table.
Committed(added) == chains' = Joined(Joined(chains, batch), added) /\ batch' = NoRules

TableGone == table' = FALSE /\ chains' = NoRules /\ groupRules' = NoGroupRules /\ addrset' = {}

NetfilterRemoveTables == TableGone \/ UNCHANGED <<table, chains, groupRules, addrset>>

-----------------------------------------------------------------------------
(* LinuxFirewall.                                                          *)

NotBuilding == 0

FilterInit ==
  /\ table = FALSE /\ chains = NoRules /\ groupRules = NoGroupRules /\ addrset = {}
  /\ batch = NoRules
  /\ fwmark = FALSE
  /\ upStep = NotBuilding
  /\ m_isUp = FALSE
  /\ exempt = {} /\ failed = {}
  /\ restarts = 0

\* What up() adds after the tables; all but the neighbour discovery are
\* committed as they are added.
UpSteps ==
  << nftApplyFwMark, nftRestrictTraffic, NetfilterIsolateIpv6,
     NetfilterAllowPrefix(Lan4), NetfilterAllowPrefix(Lan6),
     NetfilterAllowDHCP, NetfilterAllowNDP, NetfilterBlockDNS >>

NDP == 7  \* the step of NetfilterAllowNDP()

Commits(i) == i # NDP

Standing == upStep = Len(UpSteps) + 1

\* up() has failed: the interface exists, so that later activations skip it.
Broken == Len(UpSteps) + 2

\* Tables that are there already stay as they are.
upBegins ==
  /\ upStep = NotBuilding
  /\ \/ table' = TRUE /\ m_isUp' = TRUE /\ upStep' = 1
     \/ upStep' = Broken /\ UNCHANGED <<table, m_isUp>>
  /\ UNCHANGED <<chains, groupRules, addrset, batch, fwmark, exempt, failed, restarts>>

upContinues ==
  /\ upStep \in DOMAIN UpSteps
  /\ table
  /\ upStep' = upStep + 1
  /\ fwmark' = (fwmark \/ upStep = 1)
  /\ IF Commits(upStep)
     THEN Committed(UpSteps[upStep])
     ELSE batch' = Joined(batch, UpSteps[upStep]) /\ UNCHANGED chains
  /\ UNCHANGED <<table, groupRules, addrset, m_isUp, exempt, failed, restarts>>

\* A failed commit drops the batch, and the tables if they can be removed.
upFails ==
  /\ upStep \in DOMAIN UpSteps
  /\ Commits(upStep)
  /\ NetfilterRemoveTables
  /\ batch' = NoRules
  /\ fwmark' = (fwmark \/ upStep = 1)
  /\ upStep' = Broken
  /\ UNCHANGED <<m_isUp, exempt, failed, restarts>>

\* deleteInterface() that gets past the firewall, after a deactivation has
\* cleared the groups.
fwDown ==
  /\ Standing \/ upStep = Broken
  /\ IF m_isUp THEN TableGone ELSE UNCHANGED <<table, chains, groupRules, addrset>>
  /\ upStep' = NotBuilding
  /\ exempt' = {} /\ failed' = IF table' THEN failed \cup exempt ELSE {}
  /\ UNCHANGED <<batch, fwmark, m_isUp, restarts>>

\* The tables are there, in the whole or in part.
Usable == table /\ (Standing \/ upStep = Broken)

fwMarkInbound(a) ==
  /\ Usable
  /\ addrset' = addrset \cup {a}
  /\ UNCHANGED <<table, chains, groupRules, batch, fwmark, upStep, m_isUp, exempt, failed, restarts>>

fwClearInbound(a) ==
  /\ Usable
  /\ a \in addrset
  /\ addrset' = addrset \ {a}
  /\ UNCHANGED <<table, chains, groupRules, batch, fwmark, upStep, m_isUp, exempt, failed, restarts>>

\* excludeCgroup(), which does not look at the result.
markCgroupV2(g) ==
  /\ Usable
  /\ fwmark
  /\ groupRules[g] < MaxGroupRules
  /\ exempt' = exempt \cup {g}
  /\ \/ groupRules' = [groupRules EXCEPT ![g] = @ + 1] /\ UNCHANGED failed
     \/ failed' = failed \cup {g} /\ UNCHANGED groupRules
  /\ UNCHANGED <<table, chains, addrset, batch, fwmark, upStep, m_isUp, restarts>>

nftDelCgroup2xt_first(g) == groupRules' = [groupRules EXCEPT ![g] = IF @ = 0 THEN 0 ELSE @ - 1]

\* All rules whose match is for the group, in either chain.
nftDelCgroup2xt(g) == groupRules' = [groupRules EXCEPT ![g] = 0]

\* resetCgroup().
clearCgroupV2(g) ==
  /\ Usable
  /\ g \in exempt
  /\ exempt' = exempt \ {g}
  /\ \/ nftDelCgroup2xt(g) /\ UNCHANGED failed
     \/ failed' = failed \cup {g} /\ UNCHANGED groupRules
  /\ UNCHANGED <<table, chains, addrset, batch, fwmark, upStep, m_isUp, restarts>>

\* resetAllCgroups(): flushes both chains.
clearAllCgroupsV2 ==
  /\ Usable
  /\ exempt # {}
  /\ exempt' = {}
  /\ \/ groupRules' = NoGroupRules /\ UNCHANGED failed
     \/ failed' = failed \cup exempt /\ UNCHANGED groupRules
  /\ UNCHANGED <<table, chains, addrset, batch, fwmark, upStep, m_isUp, restarts>>

\* The daemon is started again, with its own context; the constructor removes
\* the tables it finds, if it can.
restart ==
  /\ restarts < MaxRestarts
  /\ restarts' = restarts + 1
  /\ NetfilterRemoveTables
  /\ batch' = NoRules /\ fwmark' = FALSE /\ upStep' = NotBuilding /\ m_isUp' = FALSE
  /\ exempt' = {} /\ failed' = IF table' THEN failed \cup exempt ELSE {}

FilterNext ==
  \/ upBegins \/ upContinues \/ upFails \/ fwDown
  \/ \E a \in ServerAddrs : fwMarkInbound(a) \/ fwClearInbound(a)
  \/ \E g \in Groups : markCgroupV2(g) \/ clearCgroupV2(g)
  \/ clearAllCgroupsV2
  \/ restart

FilterSpec == FilterInit /\ [][FilterNext]_filterVars

-----------------------------------------------------------------------------
(* Properties.                                                             *)

\* From the first commit on, also while up() builds the rules, after it failed
\* half way and over tables of an earlier daemon, nothing but traffic of excluded
\* groups reaches a host outside the local network past the tunnel; and no rule
\* outlives its group's exclusion unless its removal failed.  Once up() is done,
\* name resolution past the tunnel is turned down with an answer.
Enclosed ==
  table =>
    \A g \in (Groups \cup {NoGroup}) \ (exempt \cup failed), svc \in {"dns", "other"} :
      /\ \A a \in Hosts, proto \in {"udp", "tcp"} :
           LET v == Sent(Traffic(proto, svc, a, "eth0", g)).verdict
           IN  v # "accept" /\ (Standing /\ svc = "dns" => v = "reject")
      /\ \A a \in ServerAddrs : ~Passes(Sent(Traffic("tcp", svc, a, "eth0", g)))

\* An excluded application reaches every host past the tunnel, its name server
\* included, and gets the answers: the mark is set before the connection's, and
\* the connection's is looked up before the input rules (netfilter.go:741).
ExemptWorks ==
  Standing =>
    \A g \in exempt \ failed, a \in Hosts, proto \in {"udp", "tcp"}, svc \in {"dns", "other"} :
      /\ Sent(Traffic(proto, svc, a, "moz0", g)).mark = FwMark
      /\ Answered(Traffic(proto, svc, a, "eth0", g))

\* WireGuard's own packets, which carry the mark, get to the servers and the
\* answers back, also of a server whose address another peer's removal cleared;
\* a server in use may also speak first, and its packets are marked for the
\* reverse path filter.
ServerTalks ==
  Standing =>
    /\ \A a \in ServerAddrs :
         Answered([Traffic("udp", "other", a, "eth0", NoGroup) EXCEPT !.mark = FwMark])
    /\ \A a \in addrset :
         LET p == Received(Traffic("udp", "other", a, "eth0", NoGroup))
         IN  Passes(p) /\ p.mark = FwMark

\* The host stays usable: loopback, the tunnel and the local network answer, an
\* address is leased from a server of the local network, and neighbours and
\* routers are found.
StillUsable ==
  Standing =>
    /\ \A g \in Groups \cup {NoGroup}, svc \in {"dns", "other"} :
         /\ Answered(Traffic("udp", svc, "local6", "lo", g))
         /\ \A a \in Lan4 \cup Lan6 : Answered(Traffic("tcp", svc, a, "eth0", g))
         /\ g \notin exempt => Answered(Traffic("tcp", svc, "host4", "moz0", g))
    /\ Passes(Sent(Traffic("udp", "68to67", "broadcast4", "eth0", NoGroup)))
    /\ Passes(Received(Traffic("udp", "67to68", "lan4", "eth0", NoGroup)))
    /\ \A x \in {<<"rs", "routers6">>, <<"ns", "solicited6">>, <<"na", "linklocal6">>} :
         Passes(Sent(Traffic("icmp6", x[1], x[2], "eth0", NoGroup)))
    /\ \A svc \in {"ra", "ns", "na"} :
         Passes(Received(Traffic("icmp6", svc, "linklocal6", "eth0", NoGroup)))

\* The tunnel's IPv6 address is reached through the tunnel and from the host
\* itself only, whatever the other rules let in.
Isolated ==
  Standing =>
    LET To(a, i) == [Traffic("udp", "other", a, i, NoGroup) EXCEPT !.to = "tunnel"]
    IN  /\ \A a \in Addrs \ {"local6"}, i \in Ifaces \ {"moz0"} : ~Passes(Received(To(a, i)))
        /\ Passes(Received(To("local6", "lo"))) /\ Passes(Received(To("host6", "moz0")))

\* The rules of netfilter.go together stop what would leave beside the tunnel and
\* let through what must: excluded applications, the servers and the machine's
\* own network, with nothing to the tunnel's address from outside.
FilterRight == Enclosed /\ ExemptWorks /\ ServerTalks /\ StillUsable /\ Isolated

=============================================================================
