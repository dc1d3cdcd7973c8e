---------------------------- MODULE DnsUtilsLinux ----------------------------
(***************************************************************************)
(* The resolver settings of the Linux daemon: DnsUtilsLinux                *)
(* (src/src/platforms/linux/daemon/dnsutilslinux.cpp) over asynchronous    *)
(* D-Bus calls to systemd-resolved, which handles them in order.           *)
(*                                                                         *)
(* The routing domain "." of a link takes all names to its servers.  The   *)
(* daemon asks for the domains of all links and, when the answer comes,    *)
(* takes "." from the others, gives it to the tunnel and remembers what to *)
(* restore.  Tunnels come and go meanwhile; each gets a new index.         *)
(*                                                                         *)
(* A definition named <Handler>_<slip> is a mutant of <Handler>.           *)
(***************************************************************************)
EXTENDS Naturals, Sequences, SequencesExt, FiniteSets

CONSTANTS
  MaxLinks,    \* bound on the tunnel's interfaces
  MaxCalls     \* the daemon waits while as many calls are under way

ASSUME DnsAssumption == MaxLinks \in Nat /\ MaxCalls \in Nat

VARIABLES
  m_ifindex,       \* DnsUtilsLinux: the tunnel's link, 0 if none
  m_linkDomains,   \* what to restore: the domains of each link
  tunnelLink,      \* the tunnel's interface, 0 if there is none
  made,            \* interfaces made so far
  linkDomains,     \* resolved: the domains of each link
  calls,           \* calls that resolved has not handled
  answers,         \* answers about the domains that the daemon has not handled
  own,             \* history: the domains the network gave its link last
  lapses           \* history: what may have gone wrong so far

dnsVars == <<m_ifindex, m_linkDomains, tunnelLink, made, linkDomains, calls,
             answers, own, lapses>>

TunnelLinks == 1 .. MaxLinks
Net == MaxLinks + 1                   \* the link to the network
Links == 1 .. Net
Root == "."
Domains == {Root, "home"}
NoDomains == [l \in Links |-> {}]
Error == <<>>                         \* the answer of a failed call

DnsInit ==
  /\ m_ifindex = 0 /\ m_linkDomains = NoDomains
  /\ tunnelLink = 0 /\ made = 0
  /\ own \in SUBSET Domains
  /\ linkDomains = [NoDomains EXCEPT ![Net] = own]
  /\ calls = <<>> /\ answers = <<>>
  /\ lapses = {}

\* Types of the daemon's and resolved's state: the answer about a link that is
\* gone is still a valid one.
DnsTypeOK ==
  /\ m_ifindex \in {0} \cup TunnelLinks
  /\ tunnelLink \in {0} \cup TunnelLinks
  /\ {m_linkDomains, linkDomains} \subseteq [Links -> SUBSET Domains]
  /\ \A i \in DOMAIN calls : calls[i].op \in {"domains", "revert", "get", "unheard"}
  /\ \A i \in DOMAIN answers : answers[i] \in [Links -> SUBSET Domains] \cup {Error}

-----------------------------------------------------------------------------
(* Calls of the daemon.                                                    *)

SetLinkDomains(l, ds) == [op |-> "domains", link |-> l, domains |-> ds]
RevertLink(l) == [op |-> "revert", link |-> l]
GetDomains == [op |-> "get"]
Unheard == [op |-> "unheard"]         \* the caller of a "get" is gone

\* One call for each link that has domains in m, which gives it those of to.
SetEach(m, to) ==
  LET each == SetToSeq({l \in Links : m[l] # {}})
  IN  [i \in 1 .. Len(each) |-> SetLinkDomains(each[i], to[each[i]])]

restoreResolvers_forgets == IF m_ifindex > 0 THEN <<RevertLink(m_ifindex)>> ELSE <<>>

\* restoreResolvers(): the calls it makes.
restoreResolvers ==
  SetEach(m_linkDomains, m_linkDomains) \o
    IF m_ifindex > 0 THEN <<RevertLink(m_ifindex)>> ELSE <<>>

\* updateResolvers() for the tunnel's link; the servers and the default route of
\* a link go with it.
updateResolvers(before) ==
  /\ m_ifindex' = tunnelLink'
  /\ calls' = calls \o before \o <<GetDomains>>

\* Another answer is to come after the next one.
MoreToCome == Len(answers) > 1 \/ \E i \in DOMAIN calls : calls[i].op = "get"

MayCall == Len(calls) + Len(answers) < MaxCalls

\* Daemon::activate() makes an interface.
dnsActivates ==
  /\ MayCall
  /\ tunnelLink = 0
  /\ made < MaxLinks
  /\ made' = made + 1
  /\ tunnelLink' = made'
  /\ updateResolvers(<<>>)
  /\ UNCHANGED <<m_linkDomains, linkDomains, answers, own, lapses>>

\* It fails after that and is tried again with the interface that is there.
dnsActivatesAgain ==
  /\ MayCall
  /\ tunnelLink # 0
  /\ UNCHANGED tunnelLink
  /\ updateResolvers(<<>>)
  /\ UNCHANGED <<m_linkDomains, made, linkDomains, answers, own, lapses>>

\* A switch to another server.
dnsSwitches ==
  /\ MayCall
  /\ tunnelLink # 0
  /\ UNCHANGED tunnelLink
  /\ updateResolvers(restoreResolvers)
  /\ m_linkDomains' = NoDomains
  /\ UNCHANGED <<made, linkDomains, answers, own, lapses>>

\* Daemon::deactivate(), which goes on to remove the interface: its settings are
\* gone before resolved is told.
dnsDeactivates ==
  /\ MayCall
  /\ tunnelLink # 0
  /\ calls' = calls \o restoreResolvers
  /\ m_ifindex' = 0
  /\ m_linkDomains' = NoDomains
  /\ tunnelLink' = 0
  /\ linkDomains' = [linkDomains EXCEPT ![tunnelLink] = {}]
  /\ UNCHANGED <<made, answers, own, lapses>>

NewDomains_keepsOthers(ds) == ds

\* What is left of the domains of a link that has "." among them.
NewDomains(ds) == ds \ {Root}

\* dnsDomainsReceived() with the answer m.
dnsDomainsReceived ==
  LET m == Head(answers)
      competing == [l \in Links |-> IF Root \in m[l] THEN m[l] ELSE {}]
  IN  /\ answers # <<>> /\ m # Error
      /\ answers' = Tail(answers)
      /\ m_linkDomains' = m
      /\ calls' = Append(calls \o SetEach(competing, [l \in Links |-> NewDomains(m[l])]),
                         SetLinkDomains(m_ifindex, {Root}))
      /\ lapses' = lapses
           \cup (IF m_ifindex = 0 \/ MoreToCome THEN {"late"} ELSE {})
           \cup (IF Root \in m_linkDomains[Net] \ m[Net] THEN {"twice"} ELSE {})
      /\ UNCHANGED <<m_ifindex, tunnelLink, made, linkDomains, own>>

\* dnsDomainsReceived() with an error, which is only logged.
dnsDomainsUnread ==
  /\ answers # <<>> /\ Head(answers) = Error
  /\ answers' = Tail(answers)
  /\ lapses' = lapses \cup {"unread"}
  /\ UNCHANGED <<m_ifindex, m_linkDomains, tunnelLink, made, linkDomains, calls,
                 own>>

\* The daemon dies and is started again, without the tunnel (once).
dnsCrashes ==
  /\ tunnelLink # 0 /\ "crash" \notin lapses
  /\ m_ifindex' = 0 /\ m_linkDomains' = NoDomains /\ tunnelLink' = 0
  /\ answers' = <<>>
  /\ calls' = [i \in DOMAIN calls |->
                 IF calls[i].op = "get" THEN Unheard ELSE calls[i]]
  /\ linkDomains' = [linkDomains EXCEPT ![tunnelLink] = {}]
  /\ lapses' = lapses \cup {"crash"}
  /\ UNCHANGED <<made, own>>

-----------------------------------------------------------------------------
(* systemd-resolved, and the network manager that sets the domains of its   *)
(* link.                                                                   *)

Exists(l) == l \in {Net, tunnelLink} \ {0}

\* Calls about links that do not exist fail, and nothing depends on that.
resolvedHandles ==
  /\ calls # <<>>
  /\ calls' = Tail(calls)
  /\ LET c == Head(calls)
     IN  \/ /\ c.op = "get"
            /\ \E a \in {linkDomains, Error} : answers' = Append(answers, a)
            /\ UNCHANGED linkDomains
         \/ /\ c.op = "unheard"
            /\ UNCHANGED <<linkDomains, answers>>
         \/ /\ c.op \in {"domains", "revert"}
            /\ linkDomains' = [l \in Links |->
                 IF l # c.link \/ ~Exists(l) THEN linkDomains[l]
                 ELSE IF c.op = "revert" THEN {} ELSE c.domains]
            /\ UNCHANGED answers
  /\ UNCHANGED <<m_ifindex, m_linkDomains, tunnelLink, made, own, lapses>>

\* Another network, or the same with other domains (once while it matters).
networkChanges ==
  /\ "changed" \notin lapses
  /\ \E ds \in SUBSET Domains \ {own} :
       /\ own' = ds
       /\ linkDomains' = [linkDomains EXCEPT ![Net] = ds]
  /\ lapses' = IF tunnelLink = 0 /\ calls = <<>> /\ answers = <<>>
               THEN lapses ELSE lapses \cup {"changed"}
  /\ UNCHANGED <<m_ifindex, m_linkDomains, tunnelLink, made, calls, answers>>

DnsNext ==
  \/ dnsActivates \/ dnsActivatesAgain \/ dnsSwitches \/ dnsDeactivates
  \/ dnsDomainsReceived \/ dnsDomainsUnread \/ dnsCrashes \/ resolvedHandles \/ networkChanges

DnsSpec == DnsInit /\ [][DnsNext]_dnsVars

-----------------------------------------------------------------------------

DnsSettled == calls = <<>> /\ answers = <<>>

\* Without a tunnel the network's link has the domains the network gave it,
\* however often tunnels were started, switched and stopped in between.  There
\* are four exceptions: an answer about the domains that came after the tunnel
\* was stopped, or while a newer one was under way, is applied all the same; a
\* second update overwrites what was to be restored; the daemon crashed; the
\* network changed its domains meanwhile.
RestoredUnless ==
  DnsSettled /\ tunnelLink = 0 /\ lapses \subseteq {"unread"}
    => linkDomains[Net] = own

\* With a tunnel all names go to the tunnel's servers and none elsewhere once
\* every call is answered, also after a switch, whose revert and whose new
\* settings follow each other, and after answers meant for an earlier tunnel;
\* unless the network changed its domains or they could not be read.
TunnelResolves ==
  DnsSettled /\ tunnelLink # 0 /\ lapses \cap {"changed", "unread"} = {}
    => linkDomains[tunnelLink] = {Root} /\ Root \notin linkDomains[Net]

\* Resolvers are the tunnel's while there is one and the network's afterwards.
ResolversRight == RestoredUnless /\ TunnelResolves

=============================================================================
