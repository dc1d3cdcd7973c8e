---------------------------- MODULE DaemonProofs -----------------------------
(***************************************************************************)
(* Proofs about the privileged daemon: it implements DaemonService, and a  *)
(* connection it reported as started has everything it stands for, for any *)
(* servers, devices and applications and whichever system calls fail.      *)
(***************************************************************************)
EXTENDS Daemon, TLAPS

\* The connection of a hop is what the kernel and the firewall work for.
InPlace(s, h) ==
  LET server == s.conn[h].config.server
  IN  /\ server \in s.k.peers \cap s.k.marks \cap s.endpoints
      /\ h # "MultiHopEntry" => s.k.carrier = server

SameApps(s, t) ==
  /\ t.excludedApps = s.excludedApps
  /\ t.excludedCgroups = s.excludedCgroups
  /\ t.k.cgroups = s.k.cgroups

SameFence(s, t) == t.k.link = s.k.link /\ t.k.tables = s.k.tables

\* What a call made for hop h leaves alone, whether it fails or not: all that
\* the connections of the other hops stand for.
Keeps(s, t, h) ==
  /\ t \in DaemonState
  /\ t.conn = s.conn
  /\ t.timer = s.timer
  /\ SameApps(s, t)
  /\ SameFence(s, t)
  /\ \A g \in HopType \ {h} : Connected(s, g) /\ InPlace(s, g) => InPlace(t, g)

\* The connection that an activation for configuration c leaves.
Conn(c) == [config |-> c, date |-> FALSE]

\* t has the connection c asks for in place of the one s had for that hop, and
\* has kept what the other hops stand for.
Replaced(s, t, c) ==
  /\ t \in DaemonState
  /\ t.conn = [s.conn EXCEPT ![c.hop] = Conn(c)]
  /\ t.k.link /\ t.k.tables # "none"
  /\ InPlace(t, c.hop)
  /\ \A g \in HopType \ {c.hop} : Connected(s, g) /\ InPlace(s, g) => InPlace(t, g)

\* The excluded applications that run are exempt from the tunnel, no others.
AppsExact(s) ==
  s.k.cgroups = running \cap s.excludedApps /\ s.excludedCgroups = s.k.cgroups

\* Single hop and multi hop do not mix, and no server serves two hops.
HopsApart(s) ==
  \A g, h \in HopType :
    g # h /\ Connected(s, g) /\ Connected(s, h) =>
      /\ g # "SingleHop"
      /\ s.conn[g].config.server # s.conn[h].config.server

\* While there is a connection there are an interface and tables: the set-up
\* that could take the tables down again is not run.
Fenced(s) ==
  \A h \in HopType : Connected(s, h) => s.k.link /\ s.k.tables # "none"

\* ClientMaySend(c), of any state.
Sendable(s, c) ==
  \A g \in HopType \ {c.hop} : Connected(s, g) =>
    g # "SingleHop" /\ c.hop # "SingleHop" /\ s.conn[g].config.server # c.server

-----------------------------------------------------------------------------
(* Types and outcomes.                                                     *)

\* A connection is not taken for none.
LEMMA ConnectionIsOne == NoConnection \notin Connection
  BY DEF NoConnection, Connection, Config

\* A hop has a typed connection or none.
LEMMA ConnectionType ==
  ASSUME NEW s \in DaemonState, NEW h \in HopType
  PROVE  /\ s.conn[h] \in Connection \cup {NoConnection}
         /\ Connected(s, h) => /\ s.conn[h] \in Connection
                               /\ s.conn[h].config \in Config
                               /\ s.conn[h].date \in BOOLEAN
                               /\ s.conn[h].config.server \in Servers
<1>1. s.conn \in [HopType -> Connection \cup {NoConnection}]
  BY DEF DaemonState
<1>2. s.conn[h] \in Connection \cup {NoConnection}
  BY <1>1
<1>3. ASSUME NEW c \in Connection
      PROVE  c.config \in Config /\ c.date \in BOOLEAN /\ c.config.server \in Servers
  BY DEF Connection, Config
<1> QED
  BY <1>2, <1>3 DEF Connected

\* What the two outcomes of a call carry.
LEMMA OkFail ==
  \A s : /\ Ok(s).ok = TRUE /\ Ok(s).s = s
         /\ Fail(s).ok = FALSE /\ Fail(s).s = s
  BY DEF Ok, Fail

\* The kernel's part of a state may be replaced.
LEMMA KernelReplaced ==
  ASSUME NEW s \in DaemonState, NEW k \in Kernel
  PROVE  /\ s.k \in Kernel
         /\ [s EXCEPT !.k = k] \in DaemonState
         /\ [s EXCEPT !.k = k].k = k
         /\ [s EXCEPT !.k = k].conn = s.conn
         /\ [s EXCEPT !.k = k].timer = s.timer
         /\ [s EXCEPT !.k = k].endpoints = s.endpoints
         /\ [s EXCEPT !.k = k].isUp = s.isUp
         /\ [s EXCEPT !.k = k].excludedApps = s.excludedApps
         /\ [s EXCEPT !.k = k].excludedCgroups = s.excludedCgroups
  BY DEF DaemonState

\* Doing nothing keeps everything.
LEMMA KeepsItself ==
  ASSUME NEW s \in DaemonState, NEW h
  PROVE  Keeps(s, s, h)
  BY DEF Keeps, SameApps, SameFence

\* Two calls in a row keep what each keeps.
LEMMA KeepsOn ==
  ASSUME NEW s \in DaemonState, NEW t, NEW u, NEW h, Keeps(s, t, h), Keeps(t, u, h)
  PROVE  Keeps(s, u, h)
  BY DEF Keeps, SameApps, SameFence, Connected

-----------------------------------------------------------------------------
(* LinuxFirewall and WireguardUtilsLinux.                                  *)

\* down() touches no connection and not the interface.
LEMMA DownOutcome ==
  ASSUME NEW s \in DaemonState, NEW o \in down(s)
  PROVE  /\ o.ok \in BOOLEAN /\ o.s \in DaemonState
         /\ o.s.conn = s.conn /\ o.s.k.link = s.k.link
<1> DEFINE t == [s EXCEPT !.k.tables = "none", !.k.marks = {}, !.k.cgroups = {}]
<1>1. t \in DaemonState /\ t.conn = s.conn /\ t.k.link = s.k.link
  BY DEF DaemonState, Kernel
<1>2. o = Fail(s) \/ o = Ok(t) \/ o = Ok(s)
  BY DEF down, MayFail
<1> HIDE DEF t
<1> QED
  BY <1>1, <1>2, OkFail

\* up() touches no connection and not the interface.
LEMMA UpOutcome ==
  ASSUME NEW s \in DaemonState, NEW o \in up(s)
  PROVE  /\ o.ok \in BOOLEAN /\ o.s \in DaemonState
         /\ o.s.conn = s.conn /\ o.s.k.link = s.k.link
<1> DEFINE t == [s EXCEPT !.k.tables = "partial", !.isUp = TRUE]
           u == [t EXCEPT !.k.tables = "full"]
<1>1. t \in DaemonState /\ t.conn = s.conn /\ t.k.link = s.k.link
  BY DEF DaemonState, Kernel
<1>2. u \in DaemonState /\ u.conn = s.conn /\ u.k.link = s.k.link
  BY DEF DaemonState, Kernel
<1>3. PICK p \in MayFail(s, t) :
        o \in IF p.ok THEN {Ok([p.s EXCEPT !.k.tables = "full"])}
                             \cup {Fail(q.s) : q \in down(p.s)}
                      ELSE {p}
  BY DEF up, Then
<1>4. p = Fail(s) \/ p = Ok(t)
  BY <1>3 DEF MayFail
<1>5. o = Fail(s) \/ o = Ok(u) \/ \E q \in down(t) : o = Fail(q.s)
  <2> HIDE DEF t
  <2> QED
    BY <1>3, <1>4, OkFail
<1> HIDE DEF t, u
<1>6. CASE \E q \in down(t) : o = Fail(q.s)
  <2>1. PICK q \in down(t) : o = Fail(q.s)
    BY <1>6
  <2>2. q.s \in DaemonState /\ q.s.conn = s.conn /\ q.s.k.link = s.k.link
    BY <1>1, DownOutcome
  <2> QED
    BY <2>1, <2>2, OkFail
<1> QED
  BY <1>2, <1>5, <1>6, OkFail

\* addInterface() that succeeds leaves a device.
LEMMA AddInterfaceOutcome ==
  ASSUME NEW s \in DaemonState, NEW o \in addInterface(s)
  PROVE  /\ o.ok \in BOOLEAN /\ o.s \in DaemonState
         /\ o.s.conn = s.conn /\ (o.ok => o.s.k.link)
<1> DEFINE t == [s EXCEPT !.k.link = TRUE]
           F3(w) == MayFail(w, w)
           F2(v) == Then(up(v), F3)
           F1(u) == Then(rtmSendRule(u), F2)
           F0(x) == Then(MayFail(x, x), F1)
<1>1. t \in DaemonState /\ t.conn = s.conn /\ t.k.link
  BY DEF DaemonState, Kernel
<1>2. PICK q \in MayFail(s, t) : o \in IF q.ok THEN F0(q.s) ELSE {q}
  BY DEF addInterface, Then
<1>3. o = Fail(s) \/ o \in F0(t)
  <2> HIDE DEF t, F0
  <2> QED
    BY <1>2, OkFail DEF MayFail
<1> HIDE DEF t
<1>4. o \in F0(t) => o = Fail(t) \/ o \in F1(t)
  <2> HIDE DEF F1
  <2> QED
    BY OkFail DEF F0, Then, MayFail
<1>5. o \in F1(t) => o = Fail(t) \/ o \in F2(t)
  <2> HIDE DEF F2
  <2> QED
    BY OkFail DEF F1, Then, rtmSendRule, MayFail
<1>6. ASSUME o \in F2(t)
      PROVE  \E p \in up(t) : o = p \/ o = Fail(p.s) \/ o = Ok(p.s)
  <2>1. PICK p \in up(t) : o \in IF p.ok THEN F3(p.s) ELSE {p}
    BY <1>6 DEF F2, Then
  <2>2. o = p \/ o = Fail(p.s) \/ o = Ok(p.s)
    BY <2>1 DEF F3, MayFail
  <2> QED
    BY <2>2
<1>7. ASSUME NEW p \in up(t)
      PROVE  p.ok \in BOOLEAN /\ p.s \in DaemonState /\ p.s.conn = s.conn /\ p.s.k.link
  BY <1>1, UpOutcome
<1> HIDE DEF F0, F1, F2
<1>8. CASE \E p \in up(t) : o = p \/ o = Fail(p.s) \/ o = Ok(p.s)
  <2>1. PICK p \in up(t) : o = p \/ o = Fail(p.s) \/ o = Ok(p.s)
    BY <1>8
  <2>2. p.ok \in BOOLEAN /\ p.s \in DaemonState /\ p.s.conn = s.conn /\ p.s.k.link
    BY <1>7
  <2> QED
    BY <2>1, <2>2, OkFail
<1> QED
  BY <1>1, <1>3, <1>4, <1>5, <1>6, <1>8, OkFail


\* updatePeer() keeps what the other hops stand for; when it succeeds the
\* firewall is there and the new peer is in place.
LEMMA UpdatePeerOutcome ==
  ASSUME NEW s \in DaemonState, NEW c \in Config, Sendable(s, c),
         NEW o \in updatePeer(s, c)
  PROVE  /\ o.ok \in BOOLEAN
         /\ Keeps(s, o.s, c.hop)
         /\ o.ok => /\ c.server \in o.s.k.peers \cap o.s.k.marks \cap o.s.endpoints
                    /\ c.hop # "MultiHopEntry" => o.s.k.carrier = c.server
                    /\ o.s.k.tables # "none"
<1> DEFINE u == [s EXCEPT !.k.marks = @ \cup {c.server}]
           v == [u EXCEPT !.endpoints = @ \cup {c.server}]
           w == AddPeer(v, c)
           G1(x) == LET y == [x EXCEPT !.endpoints = @ \cup {c.server}]
                    IN  MayFail(y, AddPeer(y, c))
           G0(x) == Then(markInbound(x, c.server), G1)
<1>1. c.server \in Servers /\ c.hop \in HopType
  BY DEF Config
<1>2. /\ v \in DaemonState /\ v.conn = s.conn /\ v.timer = s.timer
      /\ SameApps(s, v) /\ SameFence(s, v)
      /\ v.k.peers = s.k.peers /\ v.k.carrier = s.k.carrier
      /\ v.k.marks = s.k.marks \cup {c.server}
      /\ v.endpoints = s.endpoints \cup {c.server}
  BY <1>1 DEF DaemonState, Kernel, SameApps, SameFence
<1>3. o = Fail(s) \/ o \in G0(s)
  <2> HIDE DEF G0
  <2>1. updatePeer(s, c) = Then(setPeerEndpoint(s), G0)
    BY DEF updatePeer, G0
  <2> QED
    BY <2>1, OkFail DEF Then, setPeerEndpoint, MayFail
<1>4. o \in G0(s) => o = Fail(s) \/ (s.k.tables # "none" /\ o \in G1(u))
  <2>1. ASSUME NEW p \in markInbound(s, c.server)
        PROVE  p = Fail(s) \/ (s.k.tables # "none" /\ p = Ok(u))
    BY DEF markInbound, MayFail
  <2> HIDE DEF G1, u
  <2> QED
    BY <2>1, OkFail DEF G0, Then
<1>5. o \in G1(u) => o = Fail(v) \/ o = Ok(w)
  BY DEF G1, MayFail
<1> HIDE DEF G0, G1, v
<1>6. /\ w \in DaemonState /\ w.conn = s.conn /\ w.timer = s.timer
      /\ SameApps(s, w) /\ SameFence(s, w)
      /\ w.k.peers = s.k.peers \cup {c.server}
      /\ w.k.carrier = IF c.hop = "MultiHopEntry" THEN s.k.carrier ELSE c.server
      /\ w.k.marks = s.k.marks \cup {c.server}
      /\ w.endpoints = s.endpoints \cup {c.server}
  BY <1>1, <1>2 DEF AddPeer, DaemonState, Kernel, SameApps, SameFence
<1> HIDE DEF w
<1>7. Keeps(s, v, c.hop)
  BY <1>2 DEF Keeps, InPlace
<1>8. Keeps(s, w, c.hop)
  <2>1. ASSUME NEW g \in HopType \ {c.hop}, Connected(s, g), InPlace(s, g)
        PROVE  InPlace(w, g)
    <3>1. g # "MultiHopEntry" => c.hop = "MultiHopEntry"
      BY <1>1, <2>1 DEF HopType, Sendable
    <3> QED
      BY <1>6, <2>1, <3>1 DEF InPlace
  <2> QED
    BY <1>6, <2>1 DEF Keeps
<1>9. o = Fail(s) \/ o = Fail(v) \/ (o = Ok(w) /\ s.k.tables # "none")
  BY <1>3, <1>4, <1>5
<1>10. CASE o = Ok(w) /\ s.k.tables # "none"
  <2>1. o.ok = TRUE /\ o.s = w
    BY <1>10, OkFail
  <2> QED
    BY <1>1, <1>6, <1>8, <1>10, <2>1 DEF SameFence
<1>11. CASE o = Fail(s) \/ o = Fail(v)
  <2>1. o.ok = FALSE /\ (o.s = s \/ o.s = v)
    BY <1>11, OkFail
  <2> QED
    BY <1>7, <2>1, KeepsItself
<1> QED
  BY <1>9, <1>10, <1>11

\* deletePeer() of the server of hop h keeps what the other hops stand for, and
\* takes away no other server.
LEMMA DeletePeerOutcome ==
  ASSUME NEW s \in DaemonState, NEW h \in HopType, Connected(s, h), HopsApart(s),
         NEW o \in deletePeer(s, s.conn[h].config)
  PROVE  /\ o.ok \in BOOLEAN
         /\ Keeps(s, o.s, h)
         /\ \A x : /\ x # s.conn[h].config.server
                   /\ x \in s.k.peers \cap s.k.marks \cap s.endpoints
                   => x \in o.s.k.peers \cap o.s.k.marks \cap o.s.endpoints
         /\ s.k.carrier # s.conn[h].config.server => o.s.k.carrier = s.k.carrier
<1> DEFINE d == s.conn[h].config.server
           t == [s EXCEPT !.endpoints = @ \ {d}]
           u == [t EXCEPT !.k.marks = @ \ {d}]
           Del(x) == [x EXCEPT !.k.peers = @ \ {d}, !.k.shook = @ \ {d},
                               !.k.carrier = IF @ = d THEN NoServer ELSE @]
           Near(x) == /\ x \in DaemonState /\ x.conn = s.conn /\ x.timer = s.timer
                      /\ SameApps(s, x) /\ SameFence(s, x)
                      /\ s.k.peers \ {d} \subseteq x.k.peers
                      /\ s.k.marks \ {d} \subseteq x.k.marks
                      /\ s.endpoints \ {d} \subseteq x.endpoints
                      /\ s.k.carrier # d => x.k.carrier = s.k.carrier
<1>0. d \in Servers
  BY ConnectionType
<1> HIDE DEF d
<1>1. Near(s) /\ Near(t) /\ Near(u)
  BY <1>0 DEF DaemonState, Kernel, SameApps, SameFence
<1>2. ASSUME NEW x, Near(x) PROVE Near(Del(x))
  BY <1>0, <1>2 DEF DaemonState, Kernel, SameApps, SameFence
<1>3. ASSUME NEW p \in IF d \in s.endpoints THEN clearInbound(t, d) ELSE {Ok(s)}
      PROVE  p = Fail(t) \/ p = Ok(u) \/ p = Ok(s)
  BY DEF clearInbound, MayFail
<1>4. PICK p \in IF d \in s.endpoints THEN clearInbound(t, d) ELSE {Ok(s)} :
        o \in IF p.ok THEN MayFail(p.s, Del(p.s)) ELSE {p}
  BY DEF deletePeer, Then, d
<1> HIDE DEF t, u, Del, Near
<1>5. o.ok \in BOOLEAN /\ Near(o.s)
  <2>1. p.ok \in BOOLEAN /\ Near(p.s)
    BY <1>1, <1>3, OkFail
  <2>2. o = p \/ o = Fail(p.s) \/ o = Ok(Del(p.s))
    BY <1>4 DEF MayFail
  <2>3. Near(Del(p.s))
    BY <1>2, <2>1
  <2> QED
    BY <2>1, <2>2, <2>3, OkFail
<1>6. ASSUME NEW x, Near(x) PROVE Keeps(s, x, h)
  <2>1. ASSUME NEW g \in HopType \ {h}, Connected(s, g), InPlace(s, g)
        PROVE  InPlace(x, g)
    <3>1. s.conn[g].config.server # d
      BY <2>1 DEF HopsApart, d
    <3> QED
      BY <1>6, <2>1, <3>1 DEF InPlace, Near
  <2> QED
    BY <1>6, <2>1 DEF Keeps, Near
<1> QED
  BY <1>5, <1>6 DEF Near, d

-----------------------------------------------------------------------------
(* Daemon.                                                                 *)

\* The connection of c.hop is set in a state that has kept the others and has
\* the new peer.
LEMMA SetConnectionReplaces ==
  ASSUME NEW s \in DaemonState, NEW c \in Config, NEW u, Keeps(s, u, c.hop),
         u.k.link, u.k.tables # "none",
         c.server \in u.k.peers \cap u.k.marks \cap u.endpoints,
         c.hop # "MultiHopEntry" => u.k.carrier = c.server
  PROVE  /\ Replaced(s, SetConnection(u, c), c)
         /\ SetConnection(u, c).timer = s.timer
         /\ SameApps(s, SetConnection(u, c))
<1> DEFINE t == SetConnection(u, c)
<1>1. u \in DaemonState /\ u.conn = s.conn /\ u.timer = s.timer /\ SameApps(s, u)
  BY DEF Keeps
<1>2. c.hop \in HopType /\ Conn(c) \in Connection
  BY DEF Config, Connection, Conn
<1>3. u.conn \in [HopType -> Connection \cup {NoConnection}]
  BY <1>1 DEF DaemonState
<1>4. [u.conn EXCEPT ![c.hop] = Conn(c)] \in [HopType -> Connection \cup {NoConnection}]
  BY <1>2, <1>3
<1>5. /\ t = [u EXCEPT !.conn = [u.conn EXCEPT ![c.hop] = Conn(c)]]
  BY <1>1, <1>2, <1>3 DEF SetConnection, Conn, DaemonState
<1>6. /\ t \in DaemonState /\ t.conn = [u.conn EXCEPT ![c.hop] = Conn(c)]
      /\ t.k = u.k /\ t.endpoints = u.endpoints /\ t.timer = u.timer
      /\ t.excludedApps = u.excludedApps /\ t.excludedCgroups = u.excludedCgroups
  BY <1>1, <1>4, <1>5 DEF DaemonState
<1> HIDE DEF t
<1>7. t.conn[c.hop] = Conn(c) /\ t.conn[c.hop].config = c
  BY <1>2, <1>3, <1>6 DEF Conn
<1>8. \A g \in HopType \ {c.hop} : t.conn[g] = u.conn[g]
  BY <1>2, <1>3, <1>6
<1>9. InPlace(t, c.hop)
  BY <1>6, <1>7 DEF InPlace
<1>10. ASSUME NEW g \in HopType \ {c.hop}, Connected(s, g), InPlace(s, g)
       PROVE  InPlace(t, g)
  <2>1. InPlace(u, g)
    BY <1>10 DEF Keeps
  <2> QED
    BY <1>6, <1>8, <2>1 DEF InPlace
<1>11. Replaced(s, t, c)
  BY <1>1, <1>6, <1>9, <1>10 DEF Replaced
<1>12. t.timer = s.timer /\ SameApps(s, t)
  BY <1>1, <1>6 DEF SameApps
<1> QED
  BY <1>11, <1>12 DEF t

\* The timer is started in a state that has the connection.
LEMMA StartPollingReplaces ==
  ASSUME NEW s \in DaemonState, NEW c \in Config, NEW u, Keeps(s, u, c.hop),
         u.k.link, u.k.tables # "none",
         c.server \in u.k.peers \cap u.k.marks \cap u.endpoints,
         c.hop # "MultiHopEntry" => u.k.carrier = c.server
  PROVE  Replaced(s, StartPolling(u, c), c) /\ StartPolling(u, c).timer
<1> DEFINE t == SetConnection(u, c)
           v == [t EXCEPT !.timer = TRUE]
<1>1. Replaced(s, t, c)
  BY SetConnectionReplaces
<1>2. StartPolling(u, c) = v
  BY DEF StartPolling
<1> HIDE DEF t
<1>3. /\ v \in DaemonState /\ v.conn = t.conn /\ v.k = t.k
      /\ v.endpoints = t.endpoints /\ v.timer
  BY <1>1 DEF Replaced, DaemonState
<1> HIDE DEF v
<1>4. Replaced(s, v, c)
  BY <1>1, <1>3 DEF Replaced, InPlace
<1> QED
  BY <1>2, <1>3, <1>4

\* A hop can be set again: only what was set last counts.
LEMMA StartPollingAgain ==
  ASSUME NEW s \in DaemonState, NEW c \in Config, NEW t, Replaced(s, t, c)
  PROVE  Replaced(s, StartPolling(t, c), c) /\ StartPolling(t, c).timer
<1>1. t \in DaemonState /\ c.hop \in HopType /\ t.k.link /\ t.k.tables # "none"
  BY DEF Replaced, Config
<1>2. t.conn[c.hop] = Conn(c)
  BY <1>1 DEF Replaced, DaemonState
<1>3. /\ c.server \in t.k.peers \cap t.k.marks \cap t.endpoints
      /\ c.hop # "MultiHopEntry" => t.k.carrier = c.server
  BY <1>2 DEF Replaced, InPlace, Conn
<1>4. /\ Replaced(t, StartPolling(t, c), c)
      /\ StartPolling(t, c).timer
  BY <1>1, <1>3, KeepsItself, StartPollingReplaces
<1>5. StartPolling(t, c).conn = [s.conn EXCEPT ![c.hop] = Conn(c)]
  BY <1>1, <1>4 DEF Replaced, DaemonState
<1>6. ASSUME NEW g \in HopType \ {c.hop}, Connected(s, g), InPlace(s, g)
      PROVE  InPlace(StartPolling(t, c), g)
  <2>1. t.conn[g] = s.conn[g] /\ InPlace(t, g)
    BY <1>1, <1>6 DEF Replaced, DaemonState
  <2> QED
    BY <1>4, <1>6, <2>1 DEF Replaced, Connected
<1> QED
  BY <1>4, <1>5, <1>6 DEF Replaced

\* switchServer() either fails and keeps the old connection, or has the new one.
LEMMA SwitchServerOutcome ==
  ASSUME NEW s \in DaemonState, NEW c \in Config, Sendable(s, c), HopsApart(s),
         Fenced(s), Connected(s, c.hop), NEW o \in switchServer(s, c)
  PROVE  \/ ~o.ok /\ Keeps(s, o.s, c.hop)
         \/ /\ o.ok /\ Replaced(s, o.s, c)
            /\ o.s.timer = s.timer /\ SameApps(s, o.s)
<1> DEFINE last == s.conn[c.hop].config
           H1(u) == {Ok(SetConnection(u, c))}
           D(t) == IF c.server # last.server THEN deletePeer(t, last) ELSE {Ok(t)}
           H0(t) == Then(D(t), H1)
<1>0. c.hop \in HopType /\ s.k.link
  BY DEF Config, Fenced
<1>1. PICK p \in updatePeer(s, c) : o \in IF p.ok THEN H0(p.s) ELSE {p}
  BY DEF switchServer, Then
<1> DEFINE t == p.s
<1>2. /\ p.ok \in BOOLEAN /\ Keeps(s, t, c.hop)
      /\ p.ok => /\ c.server \in t.k.peers \cap t.k.marks \cap t.endpoints
                 /\ c.hop # "MultiHopEntry" => t.k.carrier = c.server
                 /\ t.k.tables # "none"
  BY UpdatePeerOutcome
<1> HIDE DEF t
<1>3. CASE ~p.ok
  BY <1>1, <1>2, <1>3 DEF t
<1>4. CASE p.ok
  <2>1. o \in H0(t)
    BY <1>1, <1>4 DEF t
  <2>2. t \in DaemonState /\ t.conn = s.conn /\ t.k.link
    BY <1>0, <1>2 DEF Keeps, SameFence
  <2>3. HopsApart(t) /\ Connected(t, c.hop) /\ last = t.conn[c.hop].config
    BY <2>2 DEF HopsApart, Connected
  <2>4. PICK q \in D(t) : o \in IF q.ok THEN H1(q.s) ELSE {q}
    BY <2>1 DEF Then
  <2>5. q.ok \in BOOLEAN /\ Keeps(t, q.s, c.hop)
    <3>1. CASE c.server # last.server
      BY <1>0, <2>2, <2>3, <2>4, <3>1, DeletePeerOutcome
    <3>2. CASE c.server = last.server
      BY <2>2, <2>4, <3>2, KeepsItself, OkFail
    <3> QED
      BY <3>1, <3>2
  <2>6. Keeps(s, q.s, c.hop)
    BY <1>2, <2>5, KeepsOn
  <2>7. /\ c.server \in q.s.k.peers \cap q.s.k.marks \cap q.s.endpoints
        /\ c.hop # "MultiHopEntry" => q.s.k.carrier = c.server
    <3>1. CASE c.server # last.server
      BY <1>0, <1>2, <1>4, <2>2, <2>3, <2>4, <3>1, DeletePeerOutcome
    <3>2. CASE c.server = last.server
      BY <1>2, <1>4, <2>4, <3>2, OkFail
    <3> QED
      BY <3>1, <3>2
  <2>8. q.s.k.link /\ q.s.k.tables # "none"
    BY <1>2, <1>4, <2>2, <2>5 DEF Keeps, SameFence
  <2>9. CASE q.ok
    <3>1. o = Ok(SetConnection(q.s, c))
      BY <2>4, <2>9
    <3> QED
      BY <2>6, <2>7, <2>8, <3>1, OkFail, SetConnectionReplaces
  <2> QED
    BY <2>4, <2>5, <2>6, <2>9
<1> QED
  BY <1>2, <1>3, <1>4

\* activateSwitch() may fail with the new connection set, but with the timer of
\* the old one.
LEMMA ActivateSwitchOutcome ==
  ASSUME NEW s \in DaemonState, NEW c \in Config, Sendable(s, c), HopsApart(s),
         Fenced(s), Connected(s, c.hop), NEW o \in activateSwitch(s, c)
  PROVE  \/ ~o.ok /\ Keeps(s, o.s, c.hop)
         \/ ~o.ok /\ Replaced(s, o.s, c) /\ o.s.timer = s.timer /\ SameApps(s, o.s)
         \/ o.ok /\ Replaced(s, o.s, c) /\ o.s.timer
<1> DEFINE H1(u) == {Ok(StartPolling(u, c))}
           H0(t) == Then(maybeUpdateResolvers(t, c), H1)
<1>1. PICK p \in switchServer(s, c) : o \in IF p.ok THEN H0(p.s) ELSE {p}
  BY DEF activateSwitch, Then
<1>2. \/ ~p.ok /\ Keeps(s, p.s, c.hop)
      \/ p.ok /\ Replaced(s, p.s, c) /\ p.s.timer = s.timer /\ SameApps(s, p.s)
  BY SwitchServerOutcome
<1>3. CASE ~p.ok
  BY <1>1, <1>2, <1>3
<1>4. CASE p.ok
  <2>1. o \in H0(p.s)
    BY <1>1, <1>4
  <2>2. PICK q \in maybeUpdateResolvers(p.s, c) : o \in IF q.ok THEN H1(q.s) ELSE {q}
    BY <2>1 DEF Then
  <2>3. q = Ok(p.s) \/ q = Fail(p.s)
    BY DEF maybeUpdateResolvers, MayFail
  <2>4. o = Fail(p.s) \/ o = Ok(StartPolling(p.s, c))
    BY <2>2, <2>3, OkFail
  <2>5. Replaced(s, StartPolling(p.s, c), c) /\ StartPolling(p.s, c).timer
    BY <1>2, <1>4, StartPollingAgain
  <2> QED
    BY <1>2, <1>4, <2>4, <2>5, OkFail
<1> QED
  BY <1>2, <1>3, <1>4

\* Without an interface there is no connection.
LEMMA UnlinkedIsIdle ==
  ASSUME NEW s \in DaemonState, Fenced(s), ~s.k.link
  PROVE  s.conn = Idle
<1>1. \A h \in HopType : s.conn[h] = NoConnection
  BY DEF Fenced, Connected
<1> QED
  BY <1>1 DEF Idle, DaemonState

\* The interface that activateNew() sets up, when there is none.
LEMMA SetUpOutcome ==
  ASSUME NEW s \in DaemonState,
         NEW o \in Then(Then(addInterface(s), addInterfaceIPs), setMTUAndUp)
  PROVE  /\ o.ok \in BOOLEAN /\ o.s \in DaemonState
         /\ o.s.conn = s.conn /\ (o.ok => o.s.k.link)
<1>1. PICK p \in Then(addInterface(s), addInterfaceIPs) :
        o \in IF p.ok THEN setMTUAndUp(p.s) ELSE {p}
  BY DEF Then
<1>2. PICK q \in addInterface(s) : p \in IF q.ok THEN addInterfaceIPs(q.s) ELSE {q}
  BY DEF Then
<1>3. q.ok \in BOOLEAN /\ q.s \in DaemonState /\ q.s.conn = s.conn /\ (q.ok => q.s.k.link)
  BY AddInterfaceOutcome
<1>4. p = q \/ (q.ok /\ (p = Fail(q.s) \/ p = Ok(q.s)))
  BY <1>2, <1>3 DEF addInterfaceIPs, MayFail
<1>5. p.ok \in BOOLEAN /\ p.s \in DaemonState /\ p.s.conn = s.conn /\ (p.ok => p.s.k.link)
  BY <1>3, <1>4, OkFail
<1> DEFINE t == [p.s EXCEPT !.k.ready = TRUE]
<1>6. o = p \/ (p.ok /\ (o = Fail(p.s) \/ o = Ok(t)))
  BY <1>1, <1>5 DEF setMTUAndUp, MayFail
<1>7. t \in DaemonState /\ t.conn = p.s.conn /\ t.k.link = p.s.k.link
  BY <1>5 DEF DaemonState, Kernel
<1> HIDE DEF t
<1> QED
  BY <1>5, <1>6, <1>7, OkFail

\* activateNew() that fails leaves the connections; one that succeeds has the
\* new one.  It sets an interface up only if there is no connection.
LEMMA ActivateNewOutcome ==
  ASSUME NEW s \in DaemonState, NEW c \in Config, Sendable(s, c), HopsApart(s),
         Fenced(s), NEW o \in activateNew(s, c)
  PROVE  \/ ~o.ok /\ o.s \in DaemonState /\ o.s.conn = Idle
         \/ ~o.ok /\ Keeps(s, o.s, c.hop)
         \/ o.ok /\ Replaced(s, o.s, c) /\ o.s.timer
<1> DEFINE H3(w) == {Ok(StartPolling(w, c))}
           H2(v) == Then(updateRoutePrefix(v), H3)
           H1(u) == Then(maybeUpdateResolvers(u, c), H2)
           H0(t) == Then(updatePeer(t, c), H1)
           D == IF s.k.link
                  THEN {Ok(s)}
                  ELSE Then(Then(addInterface(s), addInterfaceIPs), setMTUAndUp)
<1>1. PICK p \in D : o \in IF p.ok THEN H0(p.s) ELSE {p}
  BY DEF activateNew, Then
<1> DEFINE t == p.s
<1>2. /\ p.ok \in BOOLEAN /\ t \in DaemonState /\ t.conn = s.conn
      /\ p.ok => t.k.link
      /\ s.k.link => p.ok /\ t = s
  <2>1. CASE s.k.link
    BY <2>1, <1>1, OkFail
  <2>2. CASE ~s.k.link
    BY <2>2, <1>1, SetUpOutcome
  <2> QED
    BY <2>1, <2>2
<1> HIDE DEF t
<1>3. s.k.link \/ s.conn = Idle
  BY UnlinkedIsIdle
<1>4. CASE ~p.ok
  BY <1>1, <1>2, <1>3, <1>4 DEF t
<1>5. CASE p.ok
  <2>1. o \in H0(t)
    BY <1>1, <1>5 DEF t
  <2>2. Sendable(t, c)
    BY <1>2 DEF Sendable, Connected
  <2>3. PICK q \in updatePeer(t, c) : o \in IF q.ok THEN H1(q.s) ELSE {q}
    BY <2>1 DEF Then
  <2> DEFINE u == q.s
  <2>4. /\ q.ok \in BOOLEAN /\ Keeps(t, u, c.hop)
        /\ q.ok => /\ c.server \in u.k.peers \cap u.k.marks \cap u.endpoints
                   /\ c.hop # "MultiHopEntry" => u.k.carrier = c.server
                   /\ u.k.tables # "none"
    BY <1>2, <2>2, UpdatePeerOutcome
  <2>5. u \in DaemonState /\ u.conn = s.conn /\ u.k.link
    BY <1>2, <1>5, <2>4 DEF Keeps, SameFence
  <2>6. ~q.ok => o = q
    BY <2>3, <2>4
  <2>7. ASSUME q.ok
        PROVE  o = Fail(u) \/ o = Ok(StartPolling(u, c))
    <3>1. o \in H1(u)
      BY <2>3, <2>7
    <3>2. ASSUME NEW r \in maybeUpdateResolvers(u, c) PROVE r = Fail(u) \/ r = Ok(u)
      BY DEF maybeUpdateResolvers, MayFail
    <3> HIDE DEF u
    <3>3. o = Fail(u) \/ o \in H2(u)
      <4> HIDE DEF H2
      <4> QED
        BY <3>1, <3>2, OkFail DEF H1, Then
    <3>4. o \in H2(u) => o = Fail(u) \/ o \in H3(u)
      <4> HIDE DEF H3
      <4> QED
        BY OkFail DEF H2, Then, updateRoutePrefix, MayFail
    <3> QED
      BY <3>3, <3>4 DEF H3
  <2>8. s.k.link => Keeps(s, u, c.hop)
    BY <1>2, <2>4
  <2>9. ~s.k.link => \A g \in HopType : ~Connected(s, g)
    BY DEF Fenced
  <2>10. q.ok => Replaced(t, StartPolling(u, c), c) /\ StartPolling(u, c).timer
    BY <1>2, <2>4, <2>5, StartPollingReplaces
  <2> HIDE DEF u
  <2>11. q.ok => Replaced(s, StartPolling(u, c), c)
    BY <1>2, <2>9, <2>10 DEF Replaced
  <2>12. CASE ~o.ok /\ o.s = u
    BY <1>3, <2>5, <2>8, <2>12
  <2>13. CASE q.ok /\ o = Ok(StartPolling(u, c))
    BY <2>10, <2>11, <2>13, OkFail
  <2> QED
    BY <2>4, <2>6, <2>7, <2>12, <2>13, OkFail DEF u
<1> QED
  BY <1>2, <1>4, <1>5

\* The peers of a hop are deleted, or it had none.
LEMMA DeleteHopOutcome ==
  ASSUME NEW s \in DaemonState, NEW h \in HopType, HopsApart(s), NEW o \in DeleteHop(s, h)
  PROVE  o.s \in DaemonState /\ o.s.conn = s.conn /\ HopsApart(o.s)
<1>1. o.s \in DaemonState /\ o.s.conn = s.conn
  <2>1. CASE Connected(s, h)
    BY <2>1, DeletePeerOutcome DEF DeleteHop, Keeps
  <2>2. CASE ~Connected(s, h)
    BY <2>2, OkFail DEF DeleteHop
  <2> QED
    BY <2>1, <2>2
<1> QED
  BY <1>1 DEF HopsApart, Connected

\* deleteInterface() has nothing to do with the connections.
LEMMA DeleteInterfaceOutcome ==
  ASSUME NEW s \in DaemonState, NEW o \in deleteInterface(s)
  PROVE  o.ok \in BOOLEAN /\ o.s \in DaemonState /\ o.s.conn = s.conn
<1> DEFINE Del(u) == [u EXCEPT !.k.link = FALSE, !.k.ready = FALSE, !.k.peers = {},
                               !.k.shook = {}, !.k.carrier = NoServer]
           H1(u) == IF u.k.link THEN MayFail(u, Del(u)) ELSE {Fail(u)}
           H0(t) == Then(rtmSendRule(t), H1)
<1>1. PICK p \in down(s) : o \in IF p.ok THEN H0(p.s) ELSE {p}
  BY DEF deleteInterface, Then
<1>2. p.ok \in BOOLEAN /\ p.s \in DaemonState /\ p.s.conn = s.conn
  BY DownOutcome
<1>3. o = p \/ o \in H0(p.s)
  BY <1>1
<1>4. o \in H0(p.s) => o = Fail(p.s) \/ o \in H1(p.s)
  <2> HIDE DEF H1
  <2> QED
    BY OkFail DEF H0, Then, rtmSendRule, MayFail
<1>5. o \in H1(p.s) => o = Fail(p.s) \/ o = Ok(Del(p.s))
  BY DEF H1, MayFail
<1>6. Del(p.s) \in DaemonState /\ Del(p.s).conn = s.conn
  BY <1>2 DEF DaemonState, Kernel
<1> HIDE DEF H0, H1, Del
<1> QED
  BY <1>2, <1>3, <1>4, <1>5, <1>6, OkFail

\* The deactivation forgets every connection, whichever of its calls fail.
LEMMA ServiceDeactivateOutcome ==
  ASSUME NEW s \in DaemonState, HopsApart(s), NEW o \in serviceDeactivate(s)
  PROVE  o.ok \in BOOLEAN /\ o.s \in DaemonState /\ o.s.conn = Idle
<1> DEFINE a == clearAppStates(s)
           H2(v) == deleteInterface([v EXCEPT !.conn = Idle])
           H1(u) == Regardless(DeleteHop(u, "MultiHopExit"), H2)
           H0(t) == Regardless(DeleteHop(t, "MultiHopEntry"), H1)
<1>1. a \in DaemonState /\ a.conn = s.conn
  BY DEF clearAppStates, DaemonState, Kernel
<1>2. HopsApart(a)
  BY <1>1 DEF HopsApart, Connected
<1>3. "SingleHop" \in HopType /\ "MultiHopEntry" \in HopType /\ "MultiHopExit" \in HopType
  BY DEF HopType
<1>4. o \in Regardless(DeleteHop(a, "SingleHop"), H0)
  BY DEF serviceDeactivate, deactivateTunnel
<1> HIDE DEF a
<1>5. PICK p \in DeleteHop(a, "SingleHop") : o \in H0(p.s)
  <2> HIDE DEF H0
  <2> QED
    BY <1>4 DEF Regardless
<1>6. p.s \in DaemonState /\ HopsApart(p.s)
  BY <1>1, <1>2, <1>3, DeleteHopOutcome
<1>7. PICK q \in DeleteHop(p.s, "MultiHopEntry") : o \in H1(q.s)
  <2> HIDE DEF H1
  <2> QED
    BY <1>5 DEF H0, Regardless
<1>8. q.s \in DaemonState /\ HopsApart(q.s)
  BY <1>3, <1>6, DeleteHopOutcome
<1>9. PICK r \in DeleteHop(q.s, "MultiHopExit") : o \in H2(r.s)
  <2> HIDE DEF H2
  <2> QED
    BY <1>7 DEF H1, Regardless
<1>10. r.s \in DaemonState
  BY <1>3, <1>8, DeleteHopOutcome
<1>11. Idle \in [HopType -> Connection \cup {NoConnection}]
  BY DEF Idle
<1>12. [r.s EXCEPT !.conn = Idle] \in DaemonState /\ [r.s EXCEPT !.conn = Idle].conn = Idle
  BY <1>10, <1>11 DEF DaemonState
<1> QED
  BY <1>9, <1>12, DeleteInterfaceOutcome DEF H2

-----------------------------------------------------------------------------
(* DBusService.                                                            *)

\* The excluded applications are loaded into tables that exist.
LEMMA ReloadAppsOutcome ==
  ASSUME NEW s \in DaemonState, NEW c \in Config, running \subseteq Apps,
         NEW d \in DaemonState, Replaced(d, s, c), s.timer,
         NEW o \in ReloadApps(s, c)
  PROVE  /\ o.ok = TRUE /\ Replaced(d, o.s, c) /\ o.s.timer /\ AppsExact(o.s)
<1> DEFINE t == clearAppStates(s)
           u == setAppStates(t, c.apps)
<1>1. c.apps \subseteq Apps /\ s.k.tables # "none"
  BY DEF Config, Replaced
<1>2. /\ t \in DaemonState /\ t.conn = s.conn /\ t.endpoints = s.endpoints /\ t.timer
      /\ t.k.link = s.k.link /\ t.k.tables = s.k.tables /\ t.k.peers = s.k.peers
      /\ t.k.marks = s.k.marks /\ t.k.carrier = s.k.carrier
  BY DEF clearAppStates, DaemonState, Kernel
<1> HIDE DEF t
<1>3. /\ u \in DaemonState /\ u.conn = t.conn /\ u.endpoints = t.endpoints /\ u.timer
      /\ u.k.link = t.k.link /\ u.k.tables = t.k.tables /\ u.k.peers = t.k.peers
      /\ u.k.marks = t.k.marks /\ u.k.carrier = t.k.carrier
      /\ u.excludedApps = c.apps
      /\ u.excludedCgroups = c.apps \cap running
      /\ u.k.cgroups = c.apps \cap running
  BY <1>1, <1>2 DEF setAppStates, DaemonState, Kernel
<1>4. o = Ok(u)
  BY DEF ReloadApps, t
<1> HIDE DEF u
<1>5. Replaced(d, u, c)
  BY <1>2, <1>3 DEF Replaced, InPlace
<1>6. AppsExact(u)
  BY <1>3 DEF AppsExact
<1> QED
  BY <1>3, <1>4, <1>5, <1>6, OkFail

\* DBusService::activate() of a hop without a connection.
LEMMA ServiceActivateNewOutcome ==
  ASSUME NEW s \in DaemonState, NEW c \in Config, Sendable(s, c), HopsApart(s),
         Fenced(s), running \subseteq Apps, NEW o \in serviceActivateNew(s, c)
  PROVE  \/ ~o.ok /\ o.s \in DaemonState /\ o.s.conn = Idle
         \/ ~o.ok /\ Keeps(s, o.s, c.hop)
         \/ o.ok /\ Replaced(s, o.s, c) /\ o.s.timer /\ AppsExact(o.s)
<1> DEFINE H1(u) == ReloadApps(u, c)
           H0(t) == Then(activateNew(t, c), H1)
<1>1. o = Fail(s) \/ o \in H0(s)
  <2>1. o \in Then(isCallerAuthorized(s), H0)
    BY DEF serviceActivateNew
  <2> HIDE DEF H0
  <2> QED
    BY <2>1, OkFail DEF Then, isCallerAuthorized, MayFail
<1>2. CASE o = Fail(s)
  BY <1>2, OkFail, KeepsItself
<1>3. CASE o \in H0(s)
  <2>1. PICK p \in activateNew(s, c) : o \in IF p.ok THEN H1(p.s) ELSE {p}
    BY <1>3 DEF Then
  <2>2. \/ ~p.ok /\ p.s \in DaemonState /\ p.s.conn = Idle
        \/ ~p.ok /\ Keeps(s, p.s, c.hop)
        \/ p.ok /\ Replaced(s, p.s, c) /\ p.s.timer
    BY ActivateNewOutcome
  <2>3. CASE ~p.ok
    BY <2>1, <2>2, <2>3
  <2>4. CASE p.ok
    <3>1. o \in ReloadApps(p.s, c) /\ p.s \in DaemonState
      BY <2>1, <2>2, <2>4 DEF Replaced
    <3> QED
      BY <2>2, <2>4, <3>1, ReloadAppsOutcome
  <2> QED
    BY <2>3, <2>4
<1> QED
  BY <1>1, <1>2, <1>3

\* DBusService::activate().  A failure leaves no connection, the old ones, or
\* the new one with the timer of the old; a success has the new connection and
\* either kept the others or started from none.
LEMMA ServiceActivateOutcome ==
  ASSUME NEW s \in DaemonState, NEW c \in Config, Sendable(s, c), HopsApart(s),
         Fenced(s), running \subseteq Apps, NEW o \in serviceActivate(s, c)
  PROVE  \/ ~o.ok /\ o.s \in DaemonState /\ o.s.conn = Idle
         \/ ~o.ok /\ Keeps(s, o.s, c.hop)
         \/ /\ ~o.ok /\ Connected(s, c.hop) /\ Replaced(s, o.s, c)
            /\ o.s.timer = s.timer /\ SameApps(s, o.s)
         \/ /\ o.ok /\ o.s.timer /\ AppsExact(o.s)
            /\ \E d \in DaemonState : (d = s \/ d.conn = Idle) /\ Replaced(d, o.s, c)
<1> DEFINE H3(v) == serviceActivateNew(v, c)
           H2(u) == Then(serviceDeactivate(u), H3)
           D(t) == IF supportServerSwitching(t, c)
                     THEN activateSwitch(t, c)
                     ELSE Then(isCallerAuthorized(t), H2)
           H1(w) == ReloadApps(w, c)
           H0(t) == Then(D(t), H1)
<1>1. CASE ~Connected(s, c.hop)
  BY <1>1, ServiceActivateNewOutcome DEF serviceActivate
<1>2. CASE Connected(s, c.hop)
  <2>1. o = Fail(s) \/ o \in H0(s)
    <3>1. o \in Then(isCallerAuthorized(s), H0)
      BY <1>2 DEF serviceActivate
    <3> HIDE DEF H0
    <3> QED
      BY <3>1, OkFail DEF Then, isCallerAuthorized, MayFail
  <2>2. CASE o = Fail(s)
    BY <2>2, OkFail, KeepsItself
  <2>3. CASE o \in H0(s)
    <3>1. PICK p \in D(s) : o \in IF p.ok THEN H1(p.s) ELSE {p}
      BY <2>3 DEF Then
    <3>2. ASSUME NEW d \in DaemonState, d = s \/ d.conn = Idle,
                 p.ok, Replaced(d, p.s, c), p.s.timer
          PROVE  /\ o.ok /\ o.s.timer /\ AppsExact(o.s)
                 /\ Replaced(d, o.s, c)
      <4>1. o \in ReloadApps(p.s, c) /\ p.s \in DaemonState
        BY <3>1, <3>2 DEF Replaced
      <4> QED
        BY <3>2, <4>1, ReloadAppsOutcome
    <3>3. CASE supportServerSwitching(s, c)
      <4>1. p \in activateSwitch(s, c)
        BY <3>1, <3>3
      <4>2. \/ ~p.ok /\ Keeps(s, p.s, c.hop)
            \/ ~p.ok /\ Replaced(s, p.s, c) /\ p.s.timer = s.timer /\ SameApps(s, p.s)
            \/ p.ok /\ Replaced(s, p.s, c) /\ p.s.timer
        BY <1>2, <4>1, ActivateSwitchOutcome
      <4>3. ~p.ok => o = p
        BY <3>1
      <4> QED
        BY <1>2, <3>2, <4>2, <4>3
    <3>4. CASE ~supportServerSwitching(s, c)
      <4>1. p \in Then(isCallerAuthorized(s), H2)
        BY <3>1, <3>4
      <4>2. p = Fail(s) \/ p \in H2(s)
        <5> HIDE DEF H2
        <5> QED
          BY <4>1, OkFail DEF Then, isCallerAuthorized, MayFail
      <4>3. CASE p = Fail(s)
        BY <3>1, <4>3, OkFail, KeepsItself
      <4>4. CASE p \in H2(s)
        <5>1. PICK q \in serviceDeactivate(s) : p \in IF q.ok THEN H3(q.s) ELSE {q}
          BY <4>4 DEF Then
        <5>2. q.ok \in BOOLEAN /\ q.s \in DaemonState /\ q.s.conn = Idle
          BY ServiceDeactivateOutcome
        <5>3. CASE ~q.ok
          BY <3>1, <5>1, <5>2, <5>3
        <5>4. CASE q.ok
          <6>1. p \in serviceActivateNew(q.s, c)
            BY <5>1, <5>4
          <6>2. Sendable(q.s, c) /\ HopsApart(q.s) /\ Fenced(q.s)
            BY <5>2 DEF Sendable, HopsApart, Fenced, Connected, Idle
          <6>3. \/ ~p.ok /\ p.s \in DaemonState /\ p.s.conn = Idle
                \/ ~p.ok /\ Keeps(q.s, p.s, c.hop)
                \/ p.ok /\ Replaced(q.s, p.s, c) /\ p.s.timer /\ AppsExact(p.s)
            BY <5>2, <6>1, <6>2, ServiceActivateNewOutcome
          <6>4. Keeps(q.s, p.s, c.hop) => p.s \in DaemonState /\ p.s.conn = Idle
            BY <5>2 DEF Keeps
          <6>5. ~p.ok => o = p
            BY <3>1
          <6> QED
            BY <3>2, <5>2, <6>3, <6>4, <6>5
        <5> QED
          BY <5>2, <5>3, <5>4
      <4> QED
        BY <4>2, <4>3, <4>4
    <3> QED
      BY <3>3, <3>4
  <2> QED
    BY <2>1, <2>2, <2>3
<1> QED
  BY <1>1, <1>2

-----------------------------------------------------------------------------
(* The invariant.                                                          *)

DaemonInv ==
  /\ DaemonTypeOK
  /\ HopsApart(st)
  /\ Fenced(st)
  /\ \A h \in acked : Connected(st, h)
  /\ AwaitedIsPolled
  /\ PeerInPlace
  /\ SplitTunnelExact

\* A state without connections satisfies the invariant, whatever is left in the
\* kernel.
LEMMA IdleInv ==
  ASSUME st' \in DaemonState, st'.conn = Idle, acked' = {}, running' \subseteq Apps,
         alive' \in BOOLEAN
  PROVE  DaemonInv'
<1>1. \A h \in HopType : st'.conn[h] = NoConnection
  BY DEF Idle
<1>2. DaemonTypeOK' /\ HopsApart(st') /\ Fenced(st')
  BY <1>1 DEF DaemonTypeOK, HopsApart, Fenced, Connected
<1>3. AwaitedIsPolled' /\ PeerInPlace' /\ SplitTunnelExact'
  BY DEF AwaitedIsPolled, Awaited, PeerInPlace, SplitTunnelExact
<1> QED
  BY <1>2, <1>3 DEF DaemonInv

\* PeerInPlace, hop by hop.
LEMMA PlacesAreInPlace == PeerInPlace <=> \A h \in acked : InPlace(st, h)
  BY DEF PeerInPlace, InPlace

\* Connections without the one of c.hop, which is replaced, stay apart.
LEMMA ReplacedApart ==
  ASSUME NEW d \in DaemonState, NEW t, NEW c \in Config,
         Replaced(d, t, c), HopsApart(d), Sendable(d, c)
  PROVE  /\ HopsApart(t) /\ Fenced(t)
         /\ Connected(t, c.hop) /\ t.conn[c.hop] = Conn(c)
         /\ \A g \in HopType \ {c.hop} : t.conn[g] = d.conn[g]
<1>1. d.conn \in [HopType -> Connection \cup {NoConnection}] /\ c.hop \in HopType
  BY DEF DaemonState, Config
<1>2. /\ t.conn[c.hop] = Conn(c)
      /\ \A g \in HopType \ {c.hop} : t.conn[g] = d.conn[g]
  BY <1>1 DEF Replaced
<1>3. Conn(c) \in Connection /\ Conn(c).config = c
  BY DEF Conn, Connection
<1>4. Connected(t, c.hop)
  BY <1>2, <1>3, ConnectionIsOne DEF Connected
<1>5. Fenced(t)
  BY DEF Fenced, Replaced
<1>6. ASSUME NEW g \in HopType, NEW h \in HopType, g # h, Connected(t, g), Connected(t, h)
      PROVE  g # "SingleHop" /\ t.conn[g].config.server # t.conn[h].config.server
  <2>1. CASE g = c.hop
    BY <1>2, <1>3, <1>6, <2>1 DEF Sendable, Connected
  <2>2. CASE h = c.hop
    BY <1>2, <1>3, <1>6, <2>2 DEF Sendable, Connected
  <2>3. CASE g # c.hop /\ h # c.hop
    BY <1>2, <1>6, <2>3 DEF HopsApart, Connected
  <2> QED
    BY <2>1, <2>2, <2>3
<1>7. HopsApart(t)
  BY <1>6 DEF HopsApart
<1> QED
  BY <1>2, <1>4, <1>5, <1>7

\* Conn(c) is a connection without a date.
LEMMA ConnIsNew ==
  ASSUME NEW c \in Config
  PROVE  Conn(c) \in Connection /\ Conn(c).config = c /\ Conn(c).date = FALSE
  BY DEF Conn, Connection

\* The calls of activate() have every outcome accounted for.
LEMMA ActivateInv ==
  ASSUME DaemonInv, NEW c \in Configs, activate(c)
  PROVE  DaemonInv'
<1>0. /\ c \in Config /\ c.hop \in HopType
      /\ st \in DaemonState /\ running \subseteq Apps /\ alive \in BOOLEAN /\ acked \subseteq HopType
      /\ HopsApart(st) /\ Fenced(st) /\ \A h \in acked : Connected(st, h)
      /\ \A h \in acked : InPlace(st, h)
  BY ConfigsAssumption, PlacesAreInPlace DEF DaemonInv, DaemonTypeOK, Config
<1>1. Sendable(st, c)
  BY DEF activate, ClientMaySend, Sendable
<1>2. PICK o \in serviceActivate(st, c) :
        /\ st' = o.s
        /\ acked' = {h \in IF o.ok THEN acked \cup {c.hop} ELSE acked \ {c.hop} :
                       Connected(o.s, h)}
  BY DEF activate
<1>3. UNCHANGED <<running, alive>>
  BY DEF activate
<1>4. \/ ~o.ok /\ o.s \in DaemonState /\ o.s.conn = Idle
      \/ ~o.ok /\ Keeps(st, o.s, c.hop)
      \/ /\ ~o.ok /\ Connected(st, c.hop) /\ Replaced(st, o.s, c)
         /\ o.s.timer = st.timer /\ SameApps(st, o.s)
      \/ /\ o.ok /\ o.s.timer /\ AppsExact(o.s)
         /\ \E d \in DaemonState : (d = st \/ d.conn = Idle) /\ Replaced(d, o.s, c)
  BY <1>0, <1>1, ServiceActivateOutcome
<1>5. acked' \subseteq HopType /\ \A h \in acked' : Connected(st', h)
  BY <1>0, <1>2
<1>6. CASE ~o.ok /\ o.s \in DaemonState /\ o.s.conn = Idle
  <2>1. acked' = {}
    BY <1>0, <1>2, <1>6 DEF Connected, Idle
  <2> QED
    BY <1>0, <1>2, <1>3, <1>6, <2>1, IdleInv
<1>7. CASE ~o.ok /\ Keeps(st, o.s, c.hop)
  <2>1. /\ st' \in DaemonState /\ st'.conn = st.conn /\ st'.timer = st.timer
        /\ SameApps(st, st') /\ SameFence(st, st')
        /\ acked' \subseteq acked \ {c.hop}
    BY <1>2, <1>7 DEF Keeps
  <2>2. HopsApart(st') /\ Fenced(st')
    BY <1>0, <2>1 DEF HopsApart, Fenced, Connected, SameFence
  <2>3. AwaitedIsPolled'
    BY <2>1 DEF DaemonInv, AwaitedIsPolled, Awaited
  <2>4. \A h \in acked' : InPlace(st', h)
    BY <1>0, <1>2, <1>7, <2>1 DEF Keeps
  <2>5. SplitTunnelExact'
    BY <1>3, <2>1 DEF DaemonInv, SplitTunnelExact, SameApps
  <2>6. PeerInPlace'
    BY <2>4 DEF PeerInPlace, InPlace
  <2> QED
    BY <1>0, <1>3, <1>5, <2>1, <2>2, <2>3, <2>5, <2>6 DEF DaemonInv, DaemonTypeOK
<1>8. CASE /\ ~o.ok /\ Connected(st, c.hop) /\ Replaced(st, o.s, c)
           /\ o.s.timer = st.timer /\ SameApps(st, o.s)
  <2>1. /\ st' \in DaemonState /\ acked' \subseteq acked \ {c.hop}
        /\ st'.timer = st.timer /\ SameApps(st, st')
    BY <1>2, <1>8 DEF Replaced
  <2>2. /\ HopsApart(st') /\ Fenced(st')
        /\ \A g \in HopType \ {c.hop} : st'.conn[g] = st.conn[g]
    BY <1>0, <1>1, <1>2, <1>8, ReplacedApart
  <2>3. AwaitedIsPolled'
    BY <1>0, <2>1, <2>2 DEF DaemonInv, AwaitedIsPolled, Awaited
  <2>4. \A h \in acked' : InPlace(st', h)
    BY <1>0, <1>2, <1>8, <2>1 DEF Replaced
  <2>5. SplitTunnelExact'
    BY <1>3, <2>1 DEF DaemonInv, SplitTunnelExact, SameApps
  <2>6. PeerInPlace'
    BY <2>4 DEF PeerInPlace, InPlace
  <2> QED
    BY <1>0, <1>3, <1>5, <2>1, <2>2, <2>3, <2>5, <2>6 DEF DaemonInv, DaemonTypeOK
<1>9. CASE /\ o.ok /\ o.s.timer /\ AppsExact(o.s)
           /\ \E d \in DaemonState : (d = st \/ d.conn = Idle) /\ Replaced(d, o.s, c)
  <2>1. PICK d \in DaemonState : (d = st \/ d.conn = Idle) /\ Replaced(d, o.s, c)
    BY <1>9
  <2>2. HopsApart(d) /\ Sendable(d, c)
    BY <1>0, <1>1, <2>1 DEF HopsApart, Sendable, Connected, Idle
  <2>3. /\ HopsApart(st') /\ Fenced(st') /\ st' \in DaemonState
        /\ \A g \in HopType \ {c.hop} : st'.conn[g] = d.conn[g]
    BY <1>0, <1>2, <2>1, <2>2, ReplacedApart DEF Replaced
  <2>4. AwaitedIsPolled'
    BY <1>2, <1>9 DEF AwaitedIsPolled
  <2>5. ASSUME NEW h \in acked' PROVE InPlace(st', h)
    <3>1. CASE h = c.hop
      BY <1>2, <2>1, <3>1 DEF Replaced
    <3>2. CASE h # c.hop
      <4>1. h \in acked /\ h \in HopType /\ Connected(d, h)
        BY <1>0, <1>2, <1>5, <2>3, <3>2 DEF Connected
      <4>2. d = st
        BY <2>1, <4>1 DEF Connected, Idle
      <4> QED
        BY <1>0, <1>2, <2>1, <3>2, <4>1, <4>2 DEF Replaced
    <3> QED
      BY <3>1, <3>2
  <2>6. SplitTunnelExact'
    BY <1>2, <1>3, <1>9 DEF SplitTunnelExact, AppsExact
  <2>7. PeerInPlace'
    BY <2>5 DEF PeerInPlace, InPlace
  <2> QED
    BY <1>0, <1>3, <1>5, <2>3, <2>4, <2>6, <2>7 DEF DaemonInv, DaemonTypeOK
<1> QED
  BY <1>4, <1>6, <1>7, <1>8, <1>9

\* What the kernel keeps when the process ends.
LEMMA FreshIsIdle ==
  ASSUME NEW s \in DaemonState
  PROVE  s.k \in Kernel /\ Fresh(s.k) \in DaemonState /\ Fresh(s.k).conn = Idle
         /\ Fresh(s.k).k = s.k
<1>1. Idle \in [HopType -> Connection \cup {NoConnection}]
  BY DEF Idle
<1> QED
  BY <1>1 DEF Fresh, DaemonState

\* deactivate() over D-Bus: not authorized, or no connection is left.
LEMMA DeactivateInv ==
  ASSUME DaemonInv, deactivate
  PROVE  DaemonInv' /\ (st' = st \/ st'.conn = Idle)
<1>0. /\ st \in DaemonState /\ HopsApart(st) /\ running \subseteq Apps /\ alive \in BOOLEAN
      /\ acked \subseteq HopType /\ \A h \in acked : Connected(st, h)
  BY DEF DaemonInv, DaemonTypeOK
<1>1. PICK o \in Then(isCallerAuthorized(st), serviceDeactivate) :
        st' = o.s /\ acked' = {h \in acked : Connected(o.s, h)}
  BY DEF deactivate
<1>2. UNCHANGED <<running, alive>>
  BY DEF deactivate
<1>3. o = Fail(st) \/ o \in serviceDeactivate(st)
  BY OkFail DEF Then, isCallerAuthorized, MayFail
<1>4. CASE o = Fail(st)
  <2>1. st' = st /\ acked' = acked
    BY <1>0, <1>1, <1>4, OkFail
  <2> QED
    BY <1>2, <2>1 DEF DaemonInv, DaemonTypeOK, AwaitedIsPolled, Awaited, PeerInPlace,
                      SplitTunnelExact
<1>5. CASE o \in serviceDeactivate(st)
  <2>1. st' \in DaemonState /\ st'.conn = Idle
    BY <1>0, <1>1, <1>5, ServiceDeactivateOutcome
  <2>2. acked' = {}
    BY <1>0, <1>1, <2>1 DEF Connected, Idle
  <2> QED
    BY <1>0, <1>2, <2>1, <2>2, IdleInv
<1> QED
  BY <1>3, <1>4, <1>5

\* The end of the process, by a signal or a crash, and its start.
LEMMA ProcessInv ==
  ASSUME DaemonInv, quitRequested \/ crash \/ start
  PROVE  DaemonInv' /\ st'.conn = Idle
<1>0. st \in DaemonState /\ HopsApart(st) /\ running \subseteq Apps
  BY DEF DaemonInv, DaemonTypeOK
<1>1. CASE quitRequested
  <2>1. PICK o \in Regardless(serviceDeactivate(st), down) : st' = Fresh(o.s.k)
    BY <1>1 DEF quitRequested
  <2>2. PICK p \in serviceDeactivate(st) : o \in down(p.s)
    BY DEF Regardless
  <2>3. o.s \in DaemonState
    BY <1>0, <2>2, ServiceDeactivateOutcome, DownOutcome
  <2> QED
    BY <1>0, <1>1, <2>1, <2>3, FreshIsIdle, IdleInv DEF quitRequested
<1>2. CASE crash
  BY <1>0, <1>2, FreshIsIdle, IdleInv DEF crash
<1>3. CASE start
  <2> DEFINE S(t) == LET s == Fresh(t.k) IN IF s.k.link THEN deleteInterface(s) ELSE {Ok(s)}
             i == [st EXCEPT !.isUp = TRUE]
  <2>1. PICK o \in Regardless(down(i), S) : st' = o.s /\ alive' = o.ok
    BY <1>3 DEF start
  <2>2. PICK p \in down(i) : o \in S(p.s)
    BY DEF Regardless
  <2>3. i \in DaemonState
    BY <1>0 DEF DaemonState
  <2>4. p.s \in DaemonState
    BY <2>3, DownOutcome
  <2> DEFINE s == Fresh(p.s.k)
  <2>5. s \in DaemonState /\ s.conn = Idle
    BY <2>4, FreshIsIdle
  <2>6. o \in deleteInterface(s) \/ o = Ok(s)
    BY <2>2
  <2> HIDE DEF s
  <2>7. o.ok \in BOOLEAN /\ o.s \in DaemonState /\ o.s.conn = Idle
    <3>1. CASE o \in deleteInterface(s)
      BY <2>5, <3>1, DeleteInterfaceOutcome
    <3>2. CASE o = Ok(s)
      BY <2>5, <3>2, OkFail
    <3> QED
      BY <2>6, <3>1, <3>2
  <2>8. acked' = {} /\ running' = {}
    BY <1>3 DEF start
  <2> QED
    BY <2>1, <2>7, <2>8, IdleInv
<1> QED
  BY <1>1, <1>2, <1>3

\* checkHandshake() gives connections their date, and changes no configuration.
LEMMA DatedConnections ==
  ASSUME st \in DaemonState
  PROVE  /\ Dated(st.conn) \in [HopType -> Connection \cup {NoConnection}]
         /\ \A h \in HopType :
              \/ Dated(st.conn)[h] = st.conn[h]
              \/ /\ Connected(st, h) /\ ~st.conn[h].date
                 /\ Dated(st.conn)[h] \in Connection
                 /\ Dated(st.conn)[h].config = st.conn[h].config
                 /\ Dated(st.conn)[h].date = TRUE
<1> DEFINE Got(c) == [c EXCEPT !.date = TRUE]
<1>1. ASSUME NEW c \in Connection
      PROVE  /\ Got(c) \in Connection
             /\ Got(c).config = c.config
             /\ Got(c).date = TRUE
             /\ c.date => Got(c) = c
  BY DEF Connection
<1>2. ASSUME NEW h \in HopType
      PROVE  \/ Dated(st.conn)[h] = st.conn[h]
             \/ Connected(st, h) /\ Dated(st.conn)[h] = Got(st.conn[h])
  BY DEF Dated
<1> HIDE DEF Got
<1>3. ASSUME NEW h \in HopType
      PROVE  /\ Dated(st.conn)[h] \in Connection \cup {NoConnection}
             /\ \/ Dated(st.conn)[h] = st.conn[h]
                \/ /\ Connected(st, h) /\ ~st.conn[h].date
                   /\ Dated(st.conn)[h] \in Connection
                   /\ Dated(st.conn)[h].config = st.conn[h].config
                   /\ Dated(st.conn)[h].date = TRUE
  <2>1. CASE Dated(st.conn)[h] = st.conn[h]
    BY <2>1, ConnectionType
  <2>2. CASE Connected(st, h) /\ Dated(st.conn)[h] = Got(st.conn[h])
    <3>1. st.conn[h] \in Connection
      BY <2>2, ConnectionType
    <3> QED
      BY <1>1, <2>2, <3>1
  <2> QED
    BY <1>2, <2>1, <2>2
<1>4. Dated(st.conn) \in [HopType -> Connection \cup {NoConnection}]
  BY <1>3 DEF Dated
<1> QED
  BY <1>3, <1>4

\* checkHandshake() keeps the invariant; it changes the connections' dates only.
LEMMA CheckHandshakeInv ==
  ASSUME DaemonInv, checkHandshake
  PROVE  DaemonInv' /\ st'.conn = Dated(st.conn)
<1>0. /\ st \in DaemonState /\ HopsApart(st) /\ Fenced(st) /\ running \subseteq Apps
      /\ alive \in BOOLEAN /\ acked \subseteq HopType /\ \A h \in acked : Connected(st, h)
  BY DEF DaemonInv, DaemonTypeOK
<1> DEFINE conn == Dated(st.conn)
           timer == \E h \in HopType : conn[h] # NoConnection /\ ~conn[h].date
<1>1. /\ conn \in [HopType -> Connection \cup {NoConnection}]
      /\ \A h \in HopType :
              \/ conn[h] = st.conn[h]
              \/ /\ Connected(st, h) /\ ~st.conn[h].date
                 /\ conn[h] \in Connection
                 /\ conn[h].config = st.conn[h].config
                 /\ conn[h].date = TRUE
  BY <1>0, DatedConnections
<1>2. st' = [st EXCEPT !.conn = conn, !.timer = timer]
  BY DEF checkHandshake, CheckHandshake
<1>3. UNCHANGED <<running, alive, acked>>
  BY DEF checkHandshake
<1> HIDE DEF conn
<1>4. timer \in BOOLEAN
  OBVIOUS
<1>5. /\ st' \in DaemonState /\ st'.conn = conn /\ st'.timer = timer /\ st'.k = st.k
      /\ st'.endpoints = st.endpoints /\ st'.excludedApps = st.excludedApps
      /\ st'.excludedCgroups = st.excludedCgroups
  <2> HIDE DEF timer
  <2> QED
    BY <1>0, <1>1, <1>2, <1>4 DEF DaemonState
<1>6. ASSUME NEW h \in HopType
      PROVE  /\ Connected(st', h) <=> Connected(st, h)
             /\ Connected(st, h) => st'.conn[h].config = st.conn[h].config
  BY <1>1, <1>5, ConnectionIsOne DEF Connected
<1>7. HopsApart(st') /\ Fenced(st') /\ \A h \in acked' : Connected(st', h)
  BY <1>0, <1>3, <1>5, <1>6 DEF HopsApart, Fenced
<1>8. AwaitedIsPolled'
  <2>1. \A h \in HopType : h \in acked' /\ ~st'.conn[h].date => timer
    BY <1>5, <1>7 DEF Connected
  <2> QED
    BY <1>5, <2>1 DEF AwaitedIsPolled, Awaited
<1>9. PeerInPlace'
  BY <1>0, <1>3, <1>5, <1>6 DEF DaemonInv, PeerInPlace
<1>10. SplitTunnelExact'
  BY <1>3, <1>5 DEF DaemonInv, SplitTunnelExact
<1> QED
  BY <1>0, <1>3, <1>5, <1>7, <1>8, <1>9, <1>10 DEF DaemonInv, DaemonTypeOK, conn

\* Applications that start and end, and handshakes, change no connection.
LEMMA QuietInv ==
  ASSUME DaemonInv,
         \/ \E a \in Apps : appLaunched(a) \/ appTerminated(a)
         \/ \E server \in Servers : handshake(server)
         \/ UNCHANGED daemonVars
  PROVE  DaemonInv' /\ st'.conn = st.conn /\ alive' = alive
<1>0. /\ st \in DaemonState /\ HopsApart(st) /\ Fenced(st) /\ running \subseteq Apps
      /\ alive \in BOOLEAN /\ acked \subseteq HopType /\ \A h \in acked : Connected(st, h)
      /\ acked # {} => st.k.tables # "none"
  BY DEF DaemonInv, DaemonTypeOK, Fenced
<1>1. ASSUME st' \in DaemonState, st'.conn = st.conn, st'.timer = st.timer,
             SameFence(st, st'), st'.k.peers = st.k.peers, st'.k.marks = st.k.marks,
             st'.k.carrier = st.k.carrier, st'.endpoints = st.endpoints,
             running' \subseteq Apps, SplitTunnelExact', UNCHANGED <<alive, acked>>
      PROVE  DaemonInv' /\ st'.conn = st.conn /\ alive' = alive
  <2>1. HopsApart(st') /\ Fenced(st') /\ \A h \in acked' : Connected(st', h)
    BY <1>0, <1>1 DEF HopsApart, Fenced, Connected, SameFence
  <2>2. AwaitedIsPolled' /\ PeerInPlace'
    BY <1>1 DEF DaemonInv, AwaitedIsPolled, Awaited, PeerInPlace
  <2> QED
    BY <1>0, <1>1, <2>1, <2>2 DEF DaemonInv, DaemonTypeOK
<1>2. ASSUME NEW a \in Apps, appLaunched(a)
      PROVE  DaemonInv' /\ st'.conn = st.conn /\ alive' = alive
  <2>1. running' = running \cup {a} /\ UNCHANGED <<alive, acked>>
    BY <1>2 DEF appLaunched
  <2>2. CASE a \in st.excludedApps
    <3>1. st' = [st EXCEPT !.excludedCgroups = @ \cup {a},
                           !.k.cgroups = IF st.k.tables = "none" THEN @ ELSE @ \cup {a}]
      BY <1>2, <2>2 DEF appLaunched
    <3>2. /\ st' \in DaemonState /\ st'.conn = st.conn /\ st'.timer = st.timer
          /\ SameFence(st, st') /\ st'.k.peers = st.k.peers /\ st'.k.marks = st.k.marks
          /\ st'.k.carrier = st.k.carrier /\ st'.endpoints = st.endpoints
          /\ st'.excludedApps = st.excludedApps
          /\ st'.excludedCgroups = st.excludedCgroups \cup {a}
          /\ st.k.tables # "none" => st'.k.cgroups = st.k.cgroups \cup {a}
      BY <1>0, <3>1 DEF DaemonState, Kernel, SameFence
    <3>3. SplitTunnelExact'
      BY <1>0, <2>1, <2>2, <3>2 DEF DaemonInv, SplitTunnelExact
    <3> QED
      BY <1>0, <1>1, <2>1, <3>2, <3>3
  <2>3. CASE a \notin st.excludedApps
    <3>1. st' = st
      BY <1>2, <2>3 DEF appLaunched
    <3>2. SplitTunnelExact'
      BY <2>1, <2>3, <3>1 DEF DaemonInv, SplitTunnelExact
    <3> QED
      BY <1>0, <1>1, <2>1, <3>1, <3>2 DEF SameFence
  <2> QED
    BY <2>2, <2>3
<1>3. ASSUME NEW a \in Apps, appTerminated(a)
      PROVE  DaemonInv' /\ st'.conn = st.conn /\ alive' = alive
  <2>1. running' = running \ {a} /\ UNCHANGED <<alive, acked>>
    BY <1>3 DEF appTerminated
  <2>2. CASE a \in st.excludedCgroups
    <3>1. st' = [st EXCEPT !.excludedCgroups = @ \ {a}, !.k.cgroups = @ \ {a}]
      BY <1>3, <2>2 DEF appTerminated
    <3>2. /\ st' \in DaemonState /\ st'.conn = st.conn /\ st'.timer = st.timer
          /\ SameFence(st, st') /\ st'.k.peers = st.k.peers /\ st'.k.marks = st.k.marks
          /\ st'.k.carrier = st.k.carrier /\ st'.endpoints = st.endpoints
          /\ st'.excludedApps = st.excludedApps
          /\ st'.excludedCgroups = st.excludedCgroups \ {a}
          /\ st'.k.cgroups = st.k.cgroups \ {a}
      BY <1>0, <3>1 DEF DaemonState, Kernel, SameFence
    <3>3. SplitTunnelExact'
      BY <2>1, <2>2, <3>2 DEF DaemonInv, SplitTunnelExact
    <3> QED
      BY <1>0, <1>1, <2>1, <3>2, <3>3
  <2>3. CASE a \notin st.excludedCgroups
    <3>1. st' = st
      BY <1>3, <2>3 DEF appTerminated
    <3>2. SplitTunnelExact'
      BY <2>1, <2>3, <3>1 DEF DaemonInv, SplitTunnelExact
    <3> QED
      BY <1>0, <1>1, <2>1, <3>1, <3>2 DEF SameFence
  <2> QED
    BY <2>2, <2>3
<1>4. ASSUME NEW server \in Servers, handshake(server)
      PROVE  DaemonInv' /\ st'.conn = st.conn /\ alive' = alive
  <2>1. st' = [st EXCEPT !.k.shook = @ \cup {server}] /\ UNCHANGED <<running, alive, acked>>
    BY <1>4 DEF handshake
  <2>2. /\ st' \in DaemonState /\ st'.conn = st.conn /\ st'.timer = st.timer
        /\ SameFence(st, st') /\ st'.k.peers = st.k.peers /\ st'.k.marks = st.k.marks
        /\ st'.k.carrier = st.k.carrier /\ st'.endpoints = st.endpoints
        /\ SameApps(st, st')
    BY <1>0, <2>1 DEF DaemonState, Kernel, SameFence, SameApps
  <2>3. SplitTunnelExact'
    BY <2>1, <2>2 DEF DaemonInv, SplitTunnelExact, SameApps
  <2> QED
    BY <1>0, <1>1, <2>1, <2>2, <2>3
<1>5. CASE UNCHANGED daemonVars
  <2>1. UNCHANGED <<st, running, alive, acked>>
    BY <1>5 DEF daemonVars
  <2>2. SplitTunnelExact'
    BY <2>1 DEF DaemonInv, SplitTunnelExact
  <2> QED
    BY <1>0, <1>1, <2>1, <2>2 DEF SameFence
<1> QED
  BY <1>2, <1>3, <1>4, <1>5

\* DaemonInv holds initially.
LEMMA InitInv == DaemonInit => DaemonInv
<1> SUFFICES ASSUME DaemonInit PROVE DaemonInv
  OBVIOUS
<1>1. NoKernel \in Kernel
  BY DEF NoKernel, Kernel
<1>2. Idle \in [HopType -> Connection \cup {NoConnection}]
  BY DEF Idle
<1>3. st \in DaemonState /\ st.conn = Idle
  BY <1>1, <1>2 DEF DaemonInit, Fresh, DaemonState
<1>4. \A h \in HopType : st.conn[h] = NoConnection
  BY <1>3 DEF Idle
<1>5. DaemonTypeOK /\ HopsApart(st) /\ Fenced(st)
  BY <1>3, <1>4 DEF DaemonInit, DaemonTypeOK, HopsApart, Fenced, Connected
<1>6. AwaitedIsPolled /\ PeerInPlace /\ SplitTunnelExact
  BY DEF DaemonInit, AwaitedIsPolled, Awaited, PeerInPlace, SplitTunnelExact
<1> QED
  BY <1>5, <1>6 DEF DaemonInit, DaemonInv

\* Every step preserves DaemonInv.
LEMMA NextInv == DaemonInv /\ [DaemonNext]_daemonVars => DaemonInv'
  BY ActivateInv, DeactivateInv, ProcessInv, CheckHandshakeInv, QuietInv DEF DaemonNext

\* The invariant holds in every reachable state.
THEOREM DaemonInvariant == DaemonSpec => []DaemonInv
  BY InitInv, NextInv, PTL DEF DaemonSpec

\* The daemon's members and its part of the kernel have their types.
THEOREM DaemonTypes == DaemonSpec => []DaemonTypeOK
<1>1. DaemonInv => DaemonTypeOK
  BY DEF DaemonInv
<1> QED
  BY <1>1, DaemonInvariant, PTL

\* A connection that activate() reported as started has its fence, its peer and
\* its excluded applications, and is polled for its handshake, however calls
\* failed half way, for any servers, devices and applications.
THEOREM ConnectionsInPlace == DaemonSpec => []ConnectionInPlace
<1>1. DaemonInv => ConnectionInPlace
  <2> SUFFICES ASSUME DaemonInv PROVE ConnectionInPlace
    OBVIOUS
  <2>1. TunnelIsFenced
    BY DEF DaemonInv, DaemonTypeOK, Fenced, TunnelIsFenced
  <2> QED
    BY <2>1 DEF DaemonInv, ConnectionInPlace
<1> QED
  BY <1>1, DaemonInvariant, PTL

-----------------------------------------------------------------------------
(* The refinement.                                                         *)

\* A connection as the clients see it, and the connections of a state.
Seen(c) ==
  IF c # NoConnection THEN [server |-> c.config.server, told |-> c.date]
                      ELSE [server |-> NoServer, told |-> FALSE]

View(s) == [h \in HopType |-> Seen(s.conn[h])]

\* Service's definitions, in terms of View.
LEMMA ServiceInTerms ==
  /\ Service!NoConns = View([conn |-> Idle])
  /\ Service!ServiceInit <=> View(st) = Service!NoConns /\ alive \in BOOLEAN
  /\ Service!serviceVars = <<View(st), alive>>
  /\ Service!deactivate <=>
       alive /\ View(st') \in {View(st), Service!NoConns} /\ alive' = alive
  /\ Service!stop <=> alive /\ alive' = FALSE /\ View(st') = Service!NoConns
  /\ Service!start <=> ~alive /\ alive' \in BOOLEAN /\ View(st') = Service!NoConns
<1>1. Service!NoConns = View([conn |-> Idle])
  BY DEF Service!NoConns, Service!None, View, Seen, Idle
<1>2. Service!ServiceInit <=> View(st) = Service!NoConns /\ alive \in BOOLEAN
  BY DEF Service!ServiceInit, View, Seen, Connected
<1>3. Service!serviceVars = <<View(st), alive>>
  BY DEF Service!serviceVars, View, Seen, Connected
<1>4. Service!deactivate <=>
       alive /\ View(st') \in {View(st), Service!NoConns} /\ alive' = alive
  BY DEF Service!deactivate, Service!NotDeactivated, View, Seen, Connected
<1>5. Service!stop <=> alive /\ alive' = FALSE /\ View(st') = Service!NoConns
  BY DEF Service!stop, View, Seen, Connected
<1>6. Service!start <=> ~alive /\ alive' \in BOOLEAN /\ View(st') = Service!NoConns
  BY DEF Service!start, View, Seen, Connected
<1> QED
  BY <1>1, <1>2, <1>3, <1>4, <1>5, <1>6

\* The activation and the announcements, in terms of View.
LEMMA ServiceActivateInTerms ==
  ASSUME NEW h \in HopType, NEW k \in Servers, alive, alive' = alive,
         \/ \E others \in {View(st), Service!NoConns} :
              View(st') = [others EXCEPT ![h] = [server |-> k, told |-> FALSE]]
         \/ View(st') \in {View(st), Service!NoConns}
  PROVE  Service!activate(h, k)
<1>1. /\ Service!Activated(h, k) <=>
           \E others \in {View(st), Service!NoConns} :
              View(st') = [others EXCEPT ![h] = [server |-> k, told |-> FALSE]]
  BY DEF Service!Activated, Service!Fresh, View, Seen, Connected
<1>2. View(st') \in {View(st), Service!NoConns} => Service!NotActivated(h, k)
  BY DEF Service!NotActivated, View, Seen, Connected
<1> QED
  BY <1>1, <1>2 DEF Service!activate

\* An announcement of the service, in terms of what the daemon's state shows.
LEMMA ServiceAnnounceInTerms ==
  ASSUME NEW hs \in SUBSET HopType, alive, alive' = alive,
         \A h \in hs : /\ View(st)[h] # [server |-> NoServer, told |-> FALSE]
                       /\ ~View(st)[h].told,
         View(st') = [h \in HopType |->
                        IF h \in hs THEN [View(st)[h] EXCEPT !.told = TRUE]
                                    ELSE View(st)[h]]
  PROVE  Service!announce
<1>1. Service!Announced(hs)
  BY DEF Service!Announced, Service!None, View, Seen, Connected
<1> QED
  BY <1>1 DEF Service!announce

\* The view of a state whose connection was replaced.
LEMMA ViewReplaced ==
  ASSUME NEW d \in DaemonState, NEW t, NEW c \in Config, Replaced(d, t, c)
  PROVE  View(t) = [View(d) EXCEPT ![c.hop] = [server |-> c.server, told |-> FALSE]]
<1>1. c.hop \in HopType /\ d.conn \in [HopType -> Connection \cup {NoConnection}]
  BY DEF Config, DaemonState
<1>2. t.conn = [d.conn EXCEPT ![c.hop] = Conn(c)]
  BY DEF Replaced
<1>3. Seen(Conn(c)) = [server |-> c.server, told |-> FALSE]
  <2>1. Conn(c) # NoConnection /\ Conn(c).config = c /\ Conn(c).date = FALSE
    BY ConnIsNew, ConnectionIsOne
  <2> QED
    BY <2>1 DEF Seen
<1>4. \A h \in HopType : Seen(t.conn[h]) = IF h = c.hop THEN Seen(Conn(c)) ELSE Seen(d.conn[h])
  BY <1>1, <1>2
<1> QED
  BY <1>1, <1>3, <1>4 DEF View

\* The view of a state without connections.
LEMMA ViewIdle ==
  ASSUME NEW s, s.conn = Idle
  PROVE  View(s) = Service!NoConns
  BY ServiceInTerms DEF View

\* Connections are announced that were not announced before.
LEMMA ViewDated ==
  ASSUME st \in DaemonState, st'.conn = Dated(st.conn), alive, alive' = alive
  PROVE  Service!announce
<1> DEFINE hs == {h \in HopType : Dated(st.conn)[h] # st.conn[h]}
<1>1. ASSUME NEW h \in hs
      PROVE  /\ Connected(st, h) /\ ~st.conn[h].date
             /\ st.conn[h].config.server \in Servers
             /\ Dated(st.conn)[h] \in Connection
             /\ Dated(st.conn)[h].config = st.conn[h].config
             /\ Dated(st.conn)[h].date = TRUE
  BY DatedConnections, ConnectionType
<1>2. ASSUME NEW h \in hs
      PROVE  /\ View(st)[h] = [server |-> st.conn[h].config.server, told |-> FALSE]
             /\ Seen(Dated(st.conn)[h]) = [server |-> st.conn[h].config.server, told |-> TRUE]
  <2>1. Dated(st.conn)[h] # NoConnection
    BY <1>1, ConnectionIsOne
  <2>2. st.conn[h].date = FALSE
    BY <1>1, ConnectionType
  <2> QED
    BY <1>1, <2>1, <2>2 DEF View, Seen, Connected
<1>3. \A h \in hs : /\ View(st)[h] # [server |-> NoServer, told |-> FALSE]
                    /\ ~View(st)[h].told
                    /\ Seen(st'.conn[h]) = [View(st)[h] EXCEPT !.told = TRUE]
  <2> TAKE h \in hs
  <2> DEFINE x == st.conn[h].config.server
  <2>1. x \in Servers
    BY <1>1
  <2>2. View(st)[h] = [server |-> x, told |-> FALSE]
    BY <1>2
  <2>3. Seen(st'.conn[h]) = [server |-> x, told |-> TRUE]
    BY <1>2
  <2> HIDE DEF x
  <2>4. [server |-> x, told |-> FALSE] # [server |-> NoServer, told |-> FALSE]
    <3>1. x # NoServer
      BY <2>1, ServersAssumption
    <3> QED
      BY <3>1
  <2>5. ASSUME NEW r \in [server : {x}, told : BOOLEAN],
               NEW q \in [server : {x}, told : BOOLEAN], q.told
        PROVE  [r EXCEPT !.told = TRUE] = q
    BY <2>5
  <2>6. /\ [server |-> x, told |-> FALSE] \in [server : {x}, told : BOOLEAN]
        /\ [server |-> x, told |-> TRUE] \in [server : {x}, told : BOOLEAN]
        /\ ~[server |-> x, told |-> FALSE].told /\ [server |-> x, told |-> TRUE].told
    OBVIOUS
  <2> QED
    BY <2>2, <2>3, <2>4, <2>5, <2>6
<1>4. \A h \in HopType \ hs : Seen(st'.conn[h]) = View(st)[h]
  BY DEF View
<1> HIDE DEF hs
<1>5. View(st') = [h \in HopType |->
                     IF h \in hs THEN [View(st)[h] EXCEPT !.told = TRUE]
                                 ELSE View(st)[h]]
  BY <1>3, <1>4 DEF View
<1>6. hs \in SUBSET HopType
  BY DEF hs
<1> QED
  BY <1>3, <1>5, <1>6, ServiceAnnounceInTerms

\* Every step of the daemon is a step of the service, or none.
LEMMA NextServes == DaemonInv /\ [DaemonNext]_daemonVars => [Service!ServiceNext]_(Service!serviceVars)
<1> SUFFICES ASSUME DaemonInv, [DaemonNext]_daemonVars
             PROVE  Service!ServiceNext \/ UNCHANGED Service!serviceVars
  OBVIOUS
<1>0. /\ st \in DaemonState /\ HopsApart(st) /\ Fenced(st) /\ running \subseteq Apps
      /\ alive \in BOOLEAN
  BY DEF DaemonInv, DaemonTypeOK
<1>1. ASSUME NEW c \in Configs, activate(c) PROVE Service!ServiceNext
  <2>0. c \in Config /\ c.hop \in HopType /\ c.server \in Servers /\ alive /\ alive' = alive
    BY <1>1, ConfigsAssumption DEF Config, activate
  <2>1. Sendable(st, c)
    BY <1>1 DEF activate, ClientMaySend, Sendable
  <2>2. PICK o \in serviceActivate(st, c) : st' = o.s
    BY <1>1 DEF activate
  <2>3. \/ ~o.ok /\ o.s \in DaemonState /\ o.s.conn = Idle
        \/ ~o.ok /\ Keeps(st, o.s, c.hop)
        \/ /\ ~o.ok /\ Connected(st, c.hop) /\ Replaced(st, o.s, c)
           /\ o.s.timer = st.timer /\ SameApps(st, o.s)
        \/ /\ o.ok /\ o.s.timer /\ AppsExact(o.s)
           /\ \E d \in DaemonState : (d = st \/ d.conn = Idle) /\ Replaced(d, o.s, c)
    BY <1>0, <2>0, <2>1, ServiceActivateOutcome
  <2>4. Keeps(st, o.s, c.hop) => View(st') = View(st)
    BY <2>2 DEF Keeps, View
  <2>5. o.s.conn = Idle => View(st') = Service!NoConns
    BY <2>2, ViewIdle
  <2>6. ASSUME NEW d \in DaemonState, d = st \/ d.conn = Idle, Replaced(d, o.s, c)
        PROVE  \E others \in {View(st), Service!NoConns} :
                 View(st') = [others EXCEPT ![c.hop] = [server |-> c.server, told |-> FALSE]]
    BY <2>0, <2>2, <2>6, ViewReplaced, ViewIdle
  <2>7. Service!activate(c.hop, c.server)
    BY <1>0, <2>0, <2>3, <2>4, <2>5, <2>6, ServiceActivateInTerms
  <2> QED
    BY <2>0, <2>7 DEF Service!ServiceNext
<1>2. ASSUME deactivate PROVE Service!ServiceNext
  <2>1. View(st') \in {View(st), Service!NoConns}
    BY <1>2, DeactivateInv, ViewIdle
  <2> QED
    BY <1>2, <2>1, ServiceInTerms DEF deactivate, Service!ServiceNext
<1>3. ASSUME quitRequested \/ crash PROVE Service!ServiceNext
  <2>1. View(st') = Service!NoConns
    BY <1>3, ProcessInv, ViewIdle
  <2> QED
    BY <1>3, <2>1, ServiceInTerms DEF quitRequested, crash, Service!ServiceNext
<1>4. ASSUME start PROVE Service!ServiceNext
  <2>1. View(st') = Service!NoConns /\ alive' \in BOOLEAN
    BY <1>4, ProcessInv, ViewIdle DEF DaemonInv, DaemonTypeOK
  <2> QED
    BY <1>4, <2>1, ServiceInTerms DEF start, Service!ServiceNext
<1>5. ASSUME checkHandshake PROVE Service!ServiceNext
  <2>1. Service!announce
    BY <1>0, <1>5, CheckHandshakeInv, ViewDated DEF checkHandshake
  <2> QED
    BY <2>1 DEF Service!ServiceNext
<1>6. ASSUME \/ \E a \in Apps : appLaunched(a) \/ appTerminated(a)
             \/ \E server \in Servers : handshake(server)
             \/ UNCHANGED daemonVars
      PROVE  UNCHANGED Service!serviceVars
  <2>1. View(st') = View(st) /\ alive' = alive
    BY <1>6, QuietInv DEF View
  <2> QED
    BY <2>1 DEF Service!serviceVars, View, Seen, Connected
<1> QED
  BY <1>1, <1>2, <1>3, <1>4, <1>5, <1>6 DEF DaemonNext

\* The daemon implements the service that its clients are modelled against.
THEOREM DaemonServes == DaemonSpec => ImplementsService
<1>1. DaemonInit => Service!ServiceInit
  <2> SUFFICES ASSUME DaemonInit PROVE Service!ServiceInit
    OBVIOUS
  <2>1. st.conn = Idle /\ alive = TRUE
    BY DEF DaemonInit, Fresh
  <2> QED
    BY <2>1, ViewIdle, ServiceInTerms
<1> QED
  BY <1>1, NextServes, DaemonInvariant, PTL DEF DaemonSpec, ImplementsService, Service!ServiceSpec

=============================================================================
