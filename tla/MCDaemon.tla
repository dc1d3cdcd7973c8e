------------------------------ MODULE MCDaemon ------------------------------
EXTENDS Daemon
CONSTANTS s1, s2, d1, d2, a1

\* Single hop to both servers for two devices, with the application excluded
\* and not; multi hop over either server, the exit with the application
\* excluded as the controller sends it.
MCConfigs ==
  [hop : {"SingleHop"}, server : Servers, device : Devices, apps : SUBSET Apps]
    \cup [hop : {"MultiHopEntry"}, server : Servers, device : {d1},
          apps : {{}}]
    \cup [hop : {"MultiHopExit"}, server : Servers, device : {d1},
          apps : {{a1}}]
=============================================================================
