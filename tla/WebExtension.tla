---------------------------- MODULE WebExtension -----------------------------
(***************************************************************************)
(* The browser's way to the client: the process of WebExtCommand that the  *)
(* browser starts (WebExtHandler on its standard streams, WebExtBridge on  *)
(* a local socket), and in the client the Server, its Connection and the   *)
(* adapter that answers and that broadcasts every change of state.         *)
(*                                                                         *)
(* In the socket a message is its length, in two pieces, and its body, and *)
(* the pieces arrive one by one; the standard streams have one writer and  *)
(* one reader each and lose nothing, so a message on them is one step.     *)
(* The client may stop and start at any moment, and pieces under way are   *)
(* then lost.                                                              *)
(***************************************************************************)
EXTENDS Integers, Sequences

CONSTANTS
  MaxMessages, \* bound on messages in the socket when one is sent
  StateTurn    \* the client's states, numbered as they come, modulo this

ASSUME ExtAssumption ==
  /\ MaxMessages \in Nat \ {0}
  /\ StateTurn \in Nat /\ StateTurn > 1

VARIABLES
  bridge,      \* WebExtBridge: its socket is connected; the WebExtReader
  toClient,    \* pieces in the socket, to the client
  toBridge,    \* and back
  client,      \* the client: runs, its state, its end of the socket, Connection
  browser      \* what the extension heard last, and whether it waits

extVars == <<bridge, toClient, toBridge, client, browser>>

-----------------------------------------------------------------------------
(* Messages and their pieces.                                              *)

ExtRequests == {"bridge_ping", "status", "unknown"}
Statuses == [t : {"status"}, v : 0 .. StateTurn - 1]
Notices == [t : {"bridge_pong", "vpn-client-up", "vpn-client-down", "error"}]

\* writeData() and sendMessage(): the length, then the message.
Pieces(m) == [i \in 1 .. 3 |-> [of |-> m, at |-> i]]

Room(socket) == Len(socket) <= 3 * (MaxMessages - 1)

\* A reader: the pieces it holds, whether it knows the length, and whether it
\* ever took a piece for what it is not.
NoReader == [buf |-> <<>>, body |-> FALSE, garbled |-> FALSE]

ExtTypeOK ==
  /\ bridge.on \in BOOLEAN /\ bridge.reader.garbled \in BOOLEAN
  /\ Len(toClient) <= 3 * MaxMessages /\ Len(toBridge) <= 6 * MaxMessages
  /\ client.runs \in BOOLEAN /\ client.state \in 0 .. StateTurn - 1
  /\ client.end \in {"none", "pending", "open", "closed"}
  /\ browser.told \in {"vpn-client-up", "vpn-client-down"}
  /\ browser.waits \in BOOLEAN /\ browser.seen \in (0 .. StateTurn - 1) \cup {-1}

ExtInit ==
  /\ toClient = <<>> /\ toBridge = <<>>
  /\ bridge = [on |-> FALSE, reader |-> NoReader]
  /\ client = [runs |-> FALSE, state |-> 0, end |-> "none", reader |-> NoReader]
  /\ browser = [told |-> "vpn-client-down", waits |-> FALSE, seen |-> -1]

-----------------------------------------------------------------------------
(* The readers: each gives the reader after a piece and, in a sequence, the *)
(* message that is now complete.                                            *)

Holding(r) == [reader |-> r, got |-> <<>>]

Length(r) ==
  Holding([buf |-> <<>>, body |-> TRUE,
           garbled |-> \/ r.garbled \/ r.buf[1].at # 1 \/ r.buf[2].at # 2
                       \/ r.buf[1].of # r.buf[2].of])

Body(r) ==
  [reader |-> [buf |-> <<>>, body |-> FALSE, garbled |-> r.garbled \/ r.buf[1].at # 3],
   got |-> <<r.buf[1].of>>]

\* WebExtReader::readyRead(): fewer bytes than a length go back to the device,
\* and a message is given away when it is complete.  Connection::readData() does
\* the same with a buffer of its own.
readyRead(r, piece) ==
  LET s == [r EXCEPT !.buf = Append(@, piece)]
  IN  IF s.body THEN Body(s) ELSE IF Len(s.buf) < 2 THEN Holding(s) ELSE Length(s)

-----------------------------------------------------------------------------
(* The process of the browser.                                             *)

\* writeMsgStdout(): what the extension knows once it has read the messages.
Told(b, messages) ==
  IF messages = <<>> THEN b
  ELSE LET m == messages[1]
       IN  CASE m.t = "vpn-client-up" -> [b EXCEPT !.told = m.t]
             [] m.t = "vpn-client-down" -> [told |-> m.t, waits |-> FALSE, seen |-> -1]
             [] m.t = "status" -> [b EXCEPT !.waits = FALSE, !.seen = m.v]
             [] OTHER -> b

handleMessage_unanswered(q) ==
  /\ q = "status" => ~browser.waits
  /\ toClient' = IF bridge.on /\ Room(toClient) THEN toClient \o Pieces(q) ELSE toClient
  /\ browser' = [browser EXCEPT !.waits = @ \/ q = "status"]
  /\ UNCHANGED <<bridge, toBridge, client>>

\* The extension asks, for the status only when it has heard of the last one:
\* WebExtWorker::run() and handleMessage(), and what WebExtCommand connects to
\* it.  bridge_ping is answered on the spot.
handleMessage(q) ==
  /\ q = "status" => ~browser.waits
  /\ \/ q = "bridge_ping" /\ UNCHANGED <<toClient, browser>>
     \/ /\ q # "bridge_ping" /\ bridge.on /\ Room(toClient)
        /\ toClient' = toClient \o Pieces(q)
        /\ browser' = [browser EXCEPT !.waits = @ \/ q = "status"]
     \/ /\ q # "bridge_ping" /\ ~bridge.on
        /\ browser' = Told(browser, << [t |-> "vpn-client-down"] >>)
        /\ UNCHANGED toClient
  /\ UNCHANGED <<bridge, toBridge, client>>

\* retryConnection() after the timer that stateChanged(Unconnected) starts; the
\* socket connects as soon as the client listens.
retryConnection ==
  /\ ~bridge.on /\ client.runs /\ client.end = "none"
  /\ bridge' = [bridge EXCEPT !.on = TRUE]
  /\ client' = [client EXCEPT !.end = "pending"]
  /\ browser' = Told(browser, << [t |-> "vpn-client-up"] >>)
  /\ UNCHANGED <<toClient, toBridge>>

Unconnected(reader, messages) ==
  /\ bridge.on /\ client.end = "closed"
  /\ bridge' = [on |-> FALSE, reader |-> reader]
  /\ client' = [client EXCEPT !.end = "none"]
  /\ toClient' = <<>> /\ toBridge' = <<>>
  /\ browser' = Told(browser, messages)

\* stateChanged() from the connected state: the reader is deleted with what it
\* holds, and the socket drops what is in it.
bridgeDisconnected == Unconnected(NoReader, << [t |-> "vpn-client-down"] >>)

\* A piece arrives; a complete message is written out.
bridgeReads ==
  /\ bridge.on /\ toBridge # <<>>
  /\ LET r == readyRead(bridge.reader, Head(toBridge))
     IN  bridge' = [bridge EXCEPT !.reader = r.reader] /\ browser' = Told(browser, r.got)
  /\ toBridge' = Tail(toBridge)
  /\ UNCHANGED <<toClient, client>>

-----------------------------------------------------------------------------
(* The client.                                                             *)

\* newConnectionReceived(): the connection is taken, or refused by
\* isAllowedToConnect() and closed.
newConnectionReceived ==
  /\ client.runs /\ client.end = "pending"
  /\ client' \in {[client EXCEPT !.end = "open", !.reader = NoReader],
                  [client EXCEPT !.end = "closed"]}
  /\ UNCHANGED <<bridge, toClient, toBridge, browser>>

\* BaseAdapter::onMessage(): every command is answered under its own name, what
\* is no command by an error.
onMessage(q, vpn) ==
  IF q = "status" THEN [t |-> "status", v |-> vpn] ELSE [t |-> "error"]

\* A piece arrives at the Connection: readData(), processMessage().
clientReads ==
  /\ client.end = "open" /\ toClient # <<>> /\ Room(toBridge)
  /\ LET r == readyRead(client.reader, Head(toClient))
     IN  /\ client' = [client EXCEPT !.reader = r.reader]
         /\ toBridge' = IF r.got = <<>> THEN toBridge
                        ELSE toBridge \o Pieces(onMessage(r.got[1], client.state))
  /\ toClient' = Tail(toClient)
  /\ UNCHANGED <<bridge, browser>>

\* writeState(), and the answers to others, which every connection gets.
Broadcast(vpn) ==
  toBridge' = IF client.end = "open"
                THEN toBridge \o Pieces([t |-> "status", v |-> vpn]) ELSE toBridge

\* The state changes, or another connection asks for it.
writeState ==
  /\ client.runs /\ Room(toBridge)
  /\ \E s \in {client.state, (client.state + 1) % StateTurn} :
       client' = [client EXCEPT !.state = s] /\ Broadcast(s)
  /\ UNCHANGED <<bridge, toClient, browser>>

clientStarts ==
  /\ ~client.runs
  /\ client' = [client EXCEPT !.runs = TRUE]
  /\ UNCHANGED <<bridge, toClient, toBridge, browser>>

\* The client quits or crashes: some of what it wrote still arrives.
clientStops ==
  /\ client.runs
  /\ client' = [client EXCEPT !.runs = FALSE, !.reader = NoReader,
                              !.end = IF @ = "none" THEN "none" ELSE "closed"]
  /\ toClient' = <<>>
  /\ \E n \in 0 .. Len(toBridge) : toBridge' = SubSeq(toBridge, 1, n)
  /\ UNCHANGED <<bridge, browser>>

ExtNext ==
  \/ \E q \in ExtRequests : handleMessage(q)
  \/ retryConnection \/ bridgeDisconnected \/ bridgeReads
  \/ newConnectionReceived \/ clientReads \/ writeState \/ clientStarts \/ clientStops

ExtSpec == ExtInit /\ [][ExtNext]_extVars

-----------------------------------------------------------------------------

\* Neither reader ever takes a body for a length or joins pieces of two
\* messages, whatever was cut off by earlier connections.
NothingGarbled == ~bridge.reader.garbled /\ ~client.reader.garbled

\* What the extension last heard of the client, up or down, is what the bridge is.
UpIsUp == (browser.told = "vpn-client-up") <=> bridge.on

\* What the extension shows is what the client last said: once all is read, the
\* status it has seen in this connection is the client's.
NothingUnderWay == toBridge = <<>> /\ bridge.reader.buf = <<>> /\ ~bridge.reader.body
SeenIsCurrent ==
  client.end = "open" /\ NothingUnderWay /\ browser.seen # -1 => browser.seen = client.state

\* An extension that waits for the status hears it, or that the client is down.
AskedIsAnswered == browser.waits ~> ~browser.waits

\* What the way between browser and client promises (webextcommand.cpp:94).
ExtensionServed ==
  [](NothingGarbled /\ UpIsUp /\ SeenIsCurrent) /\ AskedIsAnswered

=============================================================================
