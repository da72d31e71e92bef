--------------------------- MODULE ClientSession ---------------------------
(***************************************************************************)
(* Who may talk to the camera: the arbitration of main/client_if.c between  *)
(* the raw TCP port (main/net_cmd_task.c) and the browsers on a WebSocket   *)
(* (main/web_cmd.c), and the two readers that poll it, rsp_task and the     *)
(* status page of main/web_task.c.                                          *)
(*                                                                         *)
(* Three tasks run interleaved: "net" (net_cmd_task), "httpd" (the server   *)
(* task that runs every web handler) and "rsp" (rsp_task).  pc[t] is the    *)
(* next statement of task t.  A section under client_mutex or web_mutex is  *)
(* one step: while it lasts no other task reads what it writes, and the     *)
(* only nesting is web_mutex then client_mutex (add_client).  Everything    *)
(* between two sections is a step of its own: that is where the evidence    *)
(* a section returned can go stale.                                         *)
(***************************************************************************)
EXTENDS Naturals, FiniteSets

CONSTANTS
  Fds,         \* socket descriptors of the process, recycled when closed
  NoFd,        \* the value -1 of client_sock
  MaxClients   \* WEB_CMD_MAX_CLIENTS

ASSUME FdsAssumption == IsFiniteSet(Fds) /\ NoFd \notin Fds
ASSUME MaxClientsAssumption == MaxClients \in Nat \ {0}

VARIABLES
  activeKind,   \* active_kind: the transport holding the session
  connected,    \* connected of net_cmd_task.c
  clientSock,   \* client_sock of net_cmd_task.c
  clients,      \* the descriptors in the clients[] table of web_cmd.c
  fdUse,        \* what each descriptor is: free, a TCP client, an HTTP socket
  rx,           \* the transports with unconsumed bytes in rx_circular_buffer
  pc,           \* the next statement of each task
  httpdFd,      \* the socket the server task is handling
  kind,         \* the local "kind" of client_if_active, per polling task
  rspSock,      \* the local "sock" of client_if_send
  staleRelease  \* history: a release took the session from a transport in use

sessionVars == <<activeKind, staleRelease>>
netVars     == <<connected, clientSock>>
webVars     == <<clients, httpdFd>>
rspVars     == <<kind, rspSock>>
vars == <<sessionVars, netVars, webVars, rspVars, fdUse, rx, pc>>

Transports == {"TCP", "WS"}
Pollers    == {"rsp", "httpd"}

NetLabels == {"top", "accept", "claim", "connect", "serve", "drain",
              "release", "close", "clear", "dead"}
PollLabels  == {"idle", "check", "dropHolder"}
RspLabels   == PollLabels \union {"answer", "sendTcp", "lastDropped"}
HttpdLabels == PollLabels \union {"add", "resetParser", "recv", "push",
                 "parse", "goodbye", "lastGone", "closeFn", "closeLast",
                 "closeFd"}

At(t, l)   == pc[t] = l
Goto(t, l) == pc' = [pc EXCEPT ![t] = l]

\* A poller goes on to l; its local "kind" is dead outside these two labels.
PollGoto(t, l) ==
  /\ Goto(t, l)
  /\ kind' = [kind EXCEPT ![t] = IF l \in {"dropHolder", "answer"} THEN @ ELSE "NONE"]

\* The transport has admitted somebody and means to keep the session.
InUse(k) == IF k = "TCP" THEN pc["net"] \in {"connect", "serve", "drain"}
                         ELSE clients # {}

-----------------------------------------------------------------------------
(* client_if.c, each operator one section under client_mutex.              *)

\* Plausible bug: any caller may take the session.
ClaimableByAnyone(k) == k \in Transports

\* The test of client_if_claim.
Claimable(k) == activeKind \in {"NONE", k}

\* client_if_claim by a caller that goes on either way: k holds the session
\* afterwards iff it was claimable.
Claim(k) == /\ activeKind' = IF Claimable(k) THEN k ELSE activeKind
            /\ UNCHANGED staleRelease

\* Plausible bug: a session is never given back.
ReleaseNothing(k) == k \in Transports /\ UNCHANGED sessionVars

\* client_if_release(k): ignored unless k holds the session.
Release(k) ==
  /\ activeKind' = IF activeKind = k THEN "NONE" ELSE activeKind
  /\ staleRelease' = (staleRelease \/ (activeKind = k /\ InUse(k)))

-----------------------------------------------------------------------------
(* net_cmd_task, one client at a time.                                     *)

\* Plausible bug: the receive ring survives from one client to the next.
NetTopKeepsRing ==
  /\ At("net", "top") /\ Goto("net", "accept")
  /\ UNCHANGED <<sessionVars, netVars, webVars, rspVars, fdUse, rx>>

\* Top of the loop: init_command_processor and listen.  It also runs after a
\* refused connection, whoever is using the ring.
NetTop ==
  /\ At("net", "top") /\ Goto("net", "accept")
  /\ rx' = {}
  /\ UNCHANGED <<sessionVars, netVars, webVars, rspVars, fdUse>>

\* listen or accept fails: fault, and the task is deleted.  accept has then
\* stored its error in client_sock.
NetBail ==
  /\ At("net", "accept") /\ Goto("net", "dead")
  /\ clientSock' = NoFd
  /\ UNCHANGED <<sessionVars, connected, webVars, rspVars, fdUse, rx>>

\* accept stores the descriptor in client_sock before the claim.
NetAccept(f) ==
  /\ At("net", "accept") /\ Goto("net", "claim")
  /\ fdUse[f] = "free"
  /\ fdUse' = [fdUse EXCEPT ![f] = "tcp"]
  /\ clientSock' = f
  /\ UNCHANGED <<sessionVars, connected, webVars, rspVars, rx>>

\* client_if_claim(CLIENT_IF_TCP).  A refused client is closed by the same
\* shutdown, close, client_sock = -1 as one that leaves.
NetClaim ==
  /\ At("net", "claim")
  /\ Claim("TCP")
  /\ Goto("net", IF Claimable("TCP") THEN "connect" ELSE "close")
  /\ UNCHANGED <<netVars, webVars, rspVars, fdUse, rx>>

NetConnect ==
  /\ At("net", "connect") /\ Goto("net", "serve")
  /\ connected' = TRUE
  /\ UNCHANGED <<sessionVars, clientSock, webVars, rspVars, fdUse, rx>>

\* recv returned data: push_rx_data, then the parser.
NetRecv ==
  /\ At("net", "serve") /\ Goto("net", "drain")
  /\ rx' = rx \union {"TCP"}
  /\ UNCHANGED <<sessionVars, netVars, webVars, rspVars, fdUse>>

\* while (process_rx_data()) {}: what is left is at most an unfinished command.
NetDrain ==
  /\ At("net", "drain") /\ Goto("net", "serve")
  /\ rx' \in {{}, rx}
  /\ UNCHANGED <<sessionVars, netVars, webVars, rspVars, fdUse>>

\* recv ended (peer closed, error, interface down): connected = false.
NetDisconnect ==
  /\ At("net", "serve") /\ Goto("net", "release")
  /\ connected' = FALSE
  /\ UNCHANGED <<sessionVars, clientSock, webVars, rspVars, fdUse, rx>>

NetRelease ==
  /\ At("net", "release") /\ Goto("net", "close")
  /\ Release("TCP")
  /\ UNCHANGED <<netVars, webVars, rspVars, fdUse, rx>>

\* Plausible bug: the descriptor is left in client_sock when it is closed.
NetCloseKeepsSock ==
  /\ At("net", "close") /\ Goto("net", "top")
  /\ fdUse' = [fdUse EXCEPT ![clientSock] = "free"]
  /\ UNCHANGED <<sessionVars, netVars, webVars, rspVars, rx>>

NetClose ==
  /\ At("net", "close") /\ Goto("net", "clear")
  /\ fdUse' = [fdUse EXCEPT ![clientSock] = "free"]
  /\ UNCHANGED <<sessionVars, netVars, webVars, rspVars, rx>>

NetClear ==
  /\ At("net", "clear") /\ Goto("net", "top")
  /\ clientSock' = NoFd
  /\ UNCHANGED <<sessionVars, connected, webVars, rspVars, fdUse, rx>>

-----------------------------------------------------------------------------
(* client_if_active, called by rsp_task and by the status page.            *)

\* kind = active_kind under client_mutex.  With no holder it returns at once.
PollRead(t) ==
  /\ At(t, "idle") /\ Goto(t, "check")
  /\ activeKind # "NONE"
  /\ kind' = [kind EXCEPT ![t] = activeKind]
  /\ UNCHANGED <<sessionVars, netVars, webVars, rspSock, fdUse, rx>>

\* After the unlock: net_cmd_connected() or web_cmd_connected().
HolderUp(k) == IF k = "TCP" THEN connected ELSE clients # {}

\* The answer of a holder that is up is used by rsp_task to send; the status
\* page only prints it.
PollCheck(t) ==
  /\ At(t, "check")
  /\ PollGoto(t, IF ~HolderUp(kind[t]) THEN "dropHolder"
                 ELSE IF t = "rsp" THEN "answer" ELSE "idle")
  /\ UNCHANGED <<sessionVars, netVars, webVars, rspSock, fdUse, rx>>

\* client_if_release(kind) on evidence gathered before two unlocks.
PollDropHolder(t) ==
  /\ At(t, "dropHolder") /\ PollGoto(t, "idle")
  /\ Release(kind[t])
  /\ UNCHANGED <<netVars, webVars, rspSock, fdUse, rx>>

-----------------------------------------------------------------------------
(* rsp_task sending to the transport client_if_active named.               *)

\* Nothing to send in this pass of the task's loop.
RspNothing ==
  /\ At("rsp", "answer") /\ PollGoto("rsp", "idle")
  /\ UNCHANGED <<sessionVars, netVars, webVars, rspSock, fdUse, rx>>

\* client_if_send, TCP: sock = net_cmd_get_socket().
RspGetSock ==
  /\ At("rsp", "answer") /\ kind["rsp"] = "TCP"
  /\ rspSock' = clientSock
  /\ PollGoto("rsp", IF clientSock = NoFd THEN "idle" ELSE "sendTcp")
  /\ UNCHANGED <<sessionVars, netVars, webVars, fdUse, rx>>

\* One send() of at most RSP_MAX_TX_PKT_LEN bytes on the local descriptor:
\* more to come, finished, or an error, on which it just returns -1.
RspSendChunk ==
  /\ At("rsp", "sendTcp")
  /\ \/ UNCHANGED <<pc, rspSock>>
     \/ Goto("rsp", "idle") /\ rspSock' = NoFd
  /\ UNCHANGED <<sessionVars, netVars, webVars, kind, fdUse, rx>>

\* broadcast: under web_mutex every client is sent the frame and the ones in
\* failed are removed.  Only when none is left does it go on to release.
RspBroadcast(failed) ==
  /\ At("rsp", "answer") /\ kind["rsp"] = "WS"
  /\ clients' = clients \ failed
  /\ PollGoto("rsp", IF clients' = {} THEN "lastDropped" ELSE "idle")
  /\ UNCHANGED <<sessionVars, netVars, httpdFd, rspSock, fdUse, rx>>

RspLastDropped ==
  /\ At("rsp", "lastDropped") /\ Goto("rsp", "idle")
  /\ Release("WS")
  /\ UNCHANGED <<netVars, webVars, rspVars, fdUse, rx>>

-----------------------------------------------------------------------------
(* The HTTP server task: it waits for a socket, runs one handler to its     *)
(* end, and calls web_cmd_close_fn for every socket it closes.              *)

\* A browser connects: the server accepts a socket.
HttpdAccept(f) ==
  /\ At("httpd", "idle") /\ fdUse[f] = "free"
  /\ fdUse' = [fdUse EXCEPT ![f] = "http"]
  /\ UNCHANGED <<sessionVars, netVars, webVars, rspVars, rx, pc>>

\* ws_handler: a frame on f, find_client under web_mutex.
WsFrame(f) ==
  /\ At("httpd", "idle") /\ fdUse[f] = "http"
  /\ httpdFd' = f
  /\ Goto("httpd", IF f \in clients THEN "recv" ELSE "add")
  /\ UNCHANGED <<sessionVars, netVars, clients, rspVars, fdUse, rx>>

\* add_client under web_mutex: the first browser claims for all of them, the
\* others ride on it.  A refused browser's socket is closed by the server.
AddClient ==
  LET first    == clients = {}
      admitted == (first => Claimable("WS")) /\ Cardinality(clients) < MaxClients
  IN /\ At("httpd", "add")
     /\ IF first THEN Claim("WS") ELSE UNCHANGED sessionVars
     /\ clients' = IF admitted THEN clients \union {httpdFd} ELSE clients
     /\ Goto("httpd", IF ~admitted THEN "closeFn"
                      ELSE IF first THEN "resetParser" ELSE "recv")
     /\ UNCHANGED <<netVars, httpdFd, rspVars, fdUse, rx>>

\* The first browser resets the shared parser, after the unlock.
ResetParser ==
  /\ At("httpd", "resetParser") /\ Goto("httpd", "recv")
  /\ rx' = {}
  /\ UNCHANGED <<sessionVars, netVars, webVars, rspVars, fdUse>>

\* The frame is a command, a CLOSE, something to ignore, or unreadable (the
\* server then closes the socket).
WsRecv ==
  /\ At("httpd", "recv")
  /\ \E l \in {"push", "goodbye", "idle", "closeFn"} : Goto("httpd", l)
  /\ UNCHANGED <<sessionVars, netVars, webVars, rspVars, fdUse, rx>>

\* The command goes into the ring between its two delimiters ...
WsPush ==
  /\ At("httpd", "push") /\ Goto("httpd", "parse")
  /\ rx' = rx \union {"WS"}
  /\ UNCHANGED <<sessionVars, netVars, webVars, rspVars, fdUse>>

\* ... and the parser runs until it finds no more packets.
WsParse ==
  /\ At("httpd", "parse") /\ Goto("httpd", "idle")
  /\ rx' = {}
  /\ UNCHANGED <<sessionVars, netVars, webVars, rspVars, fdUse>>

\* Plausible bug: the last browser to leave does not give the session back.
RemoveWithoutRelease(last, other) ==
  /\ clients' = clients \ {httpdFd}
  /\ Goto("httpd", other)
  /\ last \in HttpdLabels

\* Plausible bug: any browser that leaves gives the session back.
RemoveAlwaysReleases(last, other) ==
  /\ clients' = clients \ {httpdFd}
  /\ Goto("httpd", IF httpdFd \in clients THEN last ELSE other)

\* Remove httpdFd from the table under web_mutex; "last" follows when that
\* emptied the table, "other" in every other case.
RemoveClient(last, other) ==
  /\ clients' = clients \ {httpdFd}
  /\ Goto("httpd", IF httpdFd \in clients /\ clients' = {} THEN last ELSE other)

\* A CLOSE frame.
WsGoodbye ==
  /\ At("httpd", "goodbye")
  /\ RemoveClient("lastGone", "idle")
  /\ UNCHANGED <<sessionVars, netVars, httpdFd, rspVars, fdUse, rx>>

WsLastGone ==
  /\ At("httpd", "lastGone") /\ Goto("httpd", "idle")
  /\ Release("WS")
  /\ UNCHANGED <<netVars, webVars, rspVars, fdUse, rx>>

\* The server drops a socket on its own: the peer died or the LRU purge.
HttpdDrop(f) ==
  /\ At("httpd", "idle") /\ Goto("httpd", "closeFn")
  /\ fdUse[f] = "http"
  /\ httpdFd' = f
  /\ UNCHANGED <<sessionVars, netVars, clients, rspVars, fdUse, rx>>

\* web_cmd_close_fn up to its unlock, then its release, then close(sockfd).
CloseFn ==
  /\ At("httpd", "closeFn")
  /\ RemoveClient("closeLast", "closeFd")
  /\ UNCHANGED <<sessionVars, netVars, httpdFd, rspVars, fdUse, rx>>

CloseLast ==
  /\ At("httpd", "closeLast") /\ Goto("httpd", "closeFd")
  /\ Release("WS")
  /\ UNCHANGED <<netVars, webVars, rspVars, fdUse, rx>>

CloseFd ==
  /\ At("httpd", "closeFd") /\ Goto("httpd", "idle")
  /\ fdUse' = [fdUse EXCEPT ![httpdFd] = "free"]
  /\ UNCHANGED <<sessionVars, netVars, webVars, rspVars, rx>>

-----------------------------------------------------------------------------
Init ==
  /\ activeKind = "NONE"
  /\ connected = FALSE
  /\ clientSock = NoFd
  /\ clients = {}
  /\ fdUse = [f \in Fds |-> "free"]
  /\ rx = {}
  /\ pc = [t \in {"net", "rsp", "httpd"} |-> IF t = "net" THEN "top" ELSE "idle"]
  /\ httpdFd = NoFd
  /\ kind = [t \in Pollers |-> "NONE"]
  /\ rspSock = NoFd
  /\ staleRelease = FALSE

\* What net_cmd_task does by itself once it has a client or has lost one.
NetOwn == NetTop \/ NetClaim \/ NetConnect \/ NetDrain \/ NetRelease
            \/ NetClose \/ NetClear
Net == NetOwn \/ NetBail \/ NetRecv \/ NetDisconnect \/ \E f \in Fds : NetAccept(f)

Poll(t) == PollRead(t) \/ PollCheck(t) \/ PollDropHolder(t)

Rsp == \/ Poll("rsp") \/ RspNothing \/ RspGetSock \/ RspSendChunk
       \/ \E failed \in SUBSET clients : RspBroadcast(failed)
       \/ RspLastDropped

\* A handler or a close that has begun runs to its end.
HttpdOwn == AddClient \/ ResetParser \/ WsRecv \/ WsPush \/ WsParse
              \/ WsGoodbye \/ WsLastGone \/ CloseFn \/ CloseLast \/ CloseFd
              \/ PollCheck("httpd") \/ PollDropHolder("httpd")
Httpd == \/ HttpdOwn \/ PollRead("httpd")
         \/ \E f \in Fds : HttpdAccept(f) \/ WsFrame(f) \/ HttpdDrop(f)

Next == Net \/ Rsp \/ Httpd

Spec == Init /\ [][Next]_vars

\* rsp_task wakes every 50 ms at the latest; the other two finish what they
\* have begun.  Nobody has to connect, send or leave.
FairSpec == Spec /\ WF_vars(Rsp) /\ WF_vars(NetOwn) /\ WF_vars(HttpdOwn)

-----------------------------------------------------------------------------
(* Properties.                                                             *)

\* Each task is at one of its own statements.
PcOK ==
  /\ pc \in [{"net", "rsp", "httpd"} -> NetLabels \union RspLabels \union HttpdLabels]
  /\ pc["net"] \in NetLabels
  /\ pc["rsp"] \in RspLabels
  /\ pc["httpd"] \in HttpdLabels

DataOK ==
  /\ activeKind \in Transports \union {"NONE"}
  /\ connected \in BOOLEAN
  /\ clientSock \in Fds \union {NoFd}
  /\ clients \subseteq Fds
  /\ fdUse \in [Fds -> {"free", "tcp", "http"}]
  /\ rx \subseteq Transports
  /\ httpdFd \in Fds \union {NoFd}
  /\ kind \in [Pollers -> Transports \union {"NONE"}]
  /\ rspSock \in Fds \union {NoFd}
  /\ staleRelease \in BOOLEAN

\* Every variable keeps its type, the table of browsers its WEB_CMD_MAX_CLIENTS
\* slots, and pc[t] is a statement of task t.
TypeOK == PcOK /\ DataOK /\ Cardinality(clients) <= MaxClients

\* client_if.h: "The camera supports one active command/response client at a
\* time".  A TCP client being served while a browser is in the table breaks it.
OneClient == ~(InUse("TCP") /\ InUse("WS"))

\* The only thing that can break it is a release that took the session from
\* a transport in use: as long as none has happened, TCP and browsers exclude
\* each other, through every refusal, drop and reconnect.
ExclusiveUnlessStale == staleRelease \/ OneClient

\* Only the two releases made on evidence gathered before an unlock, the one
\* inside client_if_active and the one after a broadcast, can be stale; the
\* transports' own releases at the end of a session never are.
StaleOnlyByDeferredRelease ==
  [][staleRelease' # staleRelease =>
       RspLastDropped \/ \E t \in Pollers : PollDropHolder(t)]_vars

\* No claim is leaked: TCP holds the session only between its claim and its
\* own release, and browsers only while one is in the table or the task that
\* emptied it is about to release.
ClaimAccounted ==
  /\ activeKind = "TCP" =>
       pc["net"] \in {"connect", "serve", "drain", "release"}
  /\ activeKind = "WS" =>
       \/ clients # {}
       \/ pc["httpd"] \in {"lastGone", "closeLast"}
       \/ pc["rsp"] = "lastDropped"

\* A TCP client never has its predecessor's half-received command in front of
\* its own: from accept to connected the ring holds no TCP bytes.
NoInheritedBytes ==
  "TCP" \in rx => pc["net"] \notin {"accept", "claim", "connect"}

\* What rsp_task may send on is open: client_sock names a descriptor that is
\* not a TCP client's only between close() and the assignment that follows it,
\* and the table of browsers never names a descriptor that has been closed.
SocketsOpen ==
  /\ clientSock # NoFd /\ pc["net"] # "clear" => fdUse[clientSock] = "tcp"
  /\ \A f \in clients : fdUse[f] = "http"

\* When the last browser has gone for good, the session is given back, so the
\* TCP port does not refuse clients on behalf of nobody.
AbandonedSessionFreed == <>[](clients = {}) => <>[](activeKind # "WS")
=============================================================================
