---------------------------- MODULE VirtualServers ----------------------------
(***************************************************************************)
(* Which blocks of the configuration share a listening socket, and which   *)
(* block a request is given: the constructor of WebServer,                 *)
(* checkExistingSocket and getSpecificServer of WebServer.cpp,             *)
(* setListeningSocket of ServerData.cpp, storeWordsFromOtherLine and       *)
(* setSpecificServer of RequestParser.cpp. All of it is operators on the   *)
(* blocks, in the order of the file, and on their _listening_socket.       *)
(***************************************************************************)
EXTENDS Integers, Sequences

CONSTANT Address   \* getaddrinfo: the address of each host it accepts

NoSocket == -1

First(S) == CHOOSE i \in S : \A j \in S : i <= j

(* Host and port are compared as the text of the file.                     *)
SamePort(s, t) == s.listens_to = t.listens_to                      \* mutant
SameText(s, t) == s.listens_to = t.listens_to /\ s.host = t.host

(* checkExistingSocket. Its counter i is never incremented, so that the    *)
(* block finds itself too; then it has no socket yet.                      *)
ExistingSocket(servers, socket, n) ==
    IF n = 1 THEN NoSocket
    ELSE socket[First({i \in DOMAIN servers : SameText(servers[i], servers[n])})]

(* bind refuses an address this program is already bound to. Port 0 is a   *)
(* free port each time.                                                    *)
Bound(servers, socket, n) ==
    \E i \in DOMAIN servers :
       /\ socket[i] # NoSocket
       /\ servers[i].listens_to = servers[n].listens_to /\ servers[n].listens_to # 0
       /\ Address[servers[i].host] = Address[servers[n].host]

MayListen(servers, socket, n) ==
    servers[n].host \in DOMAIN Address /\ ~Bound(servers, socket, n)

(* A header is the sequence of its other lines with one of the keys the    *)
(* parser knows. A value is a number; NoText if the line ends at the key,  *)
(* NotANumber if stol throws.                                              *)
NoText == -1
NotANumber == -2
HeaderLine == {l \in [key : {"Host:", "Content-Length:", "Accept:", "Cookie:", "Content-Type:"},
                       value : Nat \cup {NoText, NotANumber}] :
                  l.value = NotANumber => l.key = "Content-Length:"}

(* Behind a key without a value, *iter is read at the end of the vector.   *)
Unread(h) == {i \in DOMAIN h : h[i].value \in {NoText, NotANumber}}
HeaderUndefined(h) == Unread(h) # {} /\ h[First(Unread(h))].value = NoText
HeaderThrows(h) == Unread(h) # {} /\ h[First(Unread(h))].value = NotANumber

(* The server name of the last Host line, none if there is no such line.   *)
NoName == -1
HostName(h) ==
    LET hosts == {i \in DOMAIN h : h[i].key = "Host:"}
    IN  IF hosts = {} THEN NoName
        ELSE h[CHOOSE i \in hosts : \A j \in hosts : j <= i].value

(* setSpecificServer: the first block of this socket with this name, else  *)
(* the first block of this socket.                                         *)
OfSocket(socket, s) == {i \in DOMAIN socket : socket[i] = s}
Named(servers, S, name) == {i \in S : servers[i].server_name = name}

NamedAnywhere(servers, socket, s, name) ==                         \* mutant
    IF Named(servers, DOMAIN servers, name) # {}
    THEN First(Named(servers, DOMAIN servers, name))
    ELSE First(OfSocket(socket, s))

SpecificServer(servers, socket, s, name) ==
    IF Named(servers, OfSocket(socket, s), name) # {}
    THEN First(Named(servers, OfSocket(socket, s), name))
    ELSE First(OfSocket(socket, s))
=============================================================================
