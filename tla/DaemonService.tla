---------------------------- MODULE DaemonService ----------------------------
(***************************************************************************)
(* What a client of the privileged daemon can rely on: the connections a   *)
(* call of its D-Bus interface leaves, by its result, and the handshakes   *)
(* it announces (src/src/daemon/daemon.h, org.mozilla.vpn.dbus.xml).       *)
(*                                                                         *)
(* Module Daemon implements this, and ControllerLinux builds on it.        *)
(***************************************************************************)
CONSTANTS
  HopKinds,     \* the kinds of connections
  Peers,    \* public keys of the servers
  NoPeer    \* no connection

VARIABLES
  conns,    \* for each kind the server connected to, and whether the
            \* handshake with it was announced
  serving   \* the daemon owns its bus name

serviceVars == <<conns, serving>>

None == [server |-> NoPeer, told |-> FALSE]

\* Mutant: the connection keeps no account of its handshake.
Fresh_unmarked(k) == [server |-> k]

Fresh(k) == [server |-> k, told |-> FALSE]
NoConns == [h \in HopKinds |-> None]

ServiceInit == conns = NoConns /\ serving \in BOOLEAN

\* A call that returned true: the connection is there, and either the others
\* are as they were or the tunnel was taken down in between.
Activated(h, k) ==
  \E others \in {conns, NoConns} : conns' = [others EXCEPT ![h] = Fresh(k)]

\* A call that returned false has changed nothing, or taken the tunnel down,
\* or replaced the connection all the same.
NotActivated(h, k) ==
  \/ conns' \in {conns, NoConns}
  \/ conns[h] # None /\ conns' = [conns EXCEPT ![h] = Fresh(k)]

activate(h, k) == serving /\ (Activated(h, k) \/ NotActivated(h, k)) /\ UNCHANGED serving

\* The connections are gone if deactivate() returned true.
Deactivated == conns' = NoConns
NotDeactivated == conns' \in {conns, NoConns}

deactivate == serving /\ NotDeactivated /\ UNCHANGED serving

\* connected() is emitted for some connections it was not emitted for yet.
Announced(hs) ==
  /\ \A h \in hs : conns[h] # None /\ ~conns[h].told
  /\ conns' = [h \in HopKinds |-> IF h \in hs THEN [conns[h] EXCEPT !.told = TRUE]
                                          ELSE conns[h]]

announce == serving /\ (\E hs \in SUBSET HopKinds : Announced(hs)) /\ UNCHANGED serving

\* The process ends, and a new one knows of no connection.
stop == serving /\ serving' = FALSE /\ conns' = NoConns
start == ~serving /\ serving' \in BOOLEAN /\ conns' = NoConns

ServiceNext ==
  \/ \E h \in HopKinds, k \in Peers : activate(h, k)
  \/ deactivate
  \/ announce
  \/ stop
  \/ start

ServiceSpec == ServiceInit /\ [][ServiceNext]_serviceVars
=============================================================================
