---------------------------- MODULE Program_proofs ----------------------------
(***************************************************************************)
(* The program from main to its end, for every configuration file and every*)
(* header: its types, that a Request is deleted once at most, and that the *)
(* listening sockets stay open and belong to one address each.             *)
(***************************************************************************)
EXTENDS ProgramProperties, WellFoundedInduction, TLAPS

(* The smallest index exists.                                              *)
LEMMA FirstIsLeast ==
    ASSUME NEW S \in SUBSET Nat, S # {}
    PROVE  First(S) \in S /\ \A j \in S : First(S) <= j
<1> DEFINE R == {p \in Nat \X Nat : p[1] < p[2]}
<1>1. IsWellFoundedOn(R, Nat)
  BY NatLessThanWellFounded DEF OpToRel
<1>2. PICK i \in S : \A j \in S : <<j, i>> \notin R
  <2> HIDE DEF R
  <2> QED
    BY <1>1, WFMin
<1>3. \A j \in S : ~(j < i)
  BY <1>2
<1>4. \A j \in S : i <= j
  <2> HIDE DEF R
  <2> QED
    BY <1>3
<1> QED
  BY <1>4 DEF First

-----------------------------------------------------------------------------
(* The parser                                                               *)

ParserTypes ==
    /\ file \in Seq(Line)
    /\ pos \in 1 .. Len(file) + 1
    /\ context \in {"file", "server", "location", "read", "refused"}
    /\ server \in Server
    /\ location \in Location
    /\ servers \in Seq(Server)
    /\ blocks \in 0 .. pos - 1

(* The defaults are what a block may have.                                 *)
LEMMA DefaultsType == ServerDefaults \in Server
BY RangesAssumption DEF ServerDefaults, Server, PathBelow, Cwd

(* A new location takes two values of its server.                          *)
LEMMA NewLocationType ==
    ASSUME NEW s \in Server, NEW uri \in Nat
    PROVE  NewLocation(s, uri) \in Location
BY DEF NewLocation, Server, Location

(* What the setters of a server do not refuse keeps its type.              *)
LEMMA SetServerType ==
    ASSUME NEW s \in Server, NEW k \in ServerKey, NEW v \in Nat, ~ServerRefuses(s, k, v)
    PROVE  SetServer(s, k, v) \in Server
<1>1. k \in {"server_name", "listens_to", "host", "root_directory", "index_file",
             "client_max_body_size", "error_page", "upload_directory"}
  BY DEF ServerKey, ServerOrder
<1>2. s.root_directory \in Nat
  BY DEF Server
<1>3. CASE k = "client_max_body_size"
  <2>1. BodySize(v) \in Nat /\ 2 * BodySize(v) < UintRange
    BY <1>3, RangesAssumption DEF ServerRefuses, BodySize
  <2> QED
    BY <1>3, <2>1 DEF SetServer, Server
<1>4. CASE k = "listens_to"
  <2>1. v \in 0 .. PortRange - 1
    BY <1>4, RangesAssumption DEF ServerRefuses, PortInRange
  <2> QED
    BY <1>4, <2>1 DEF SetServer, Server
<1>5. CASE k = "error_page" \/ k = "upload_directory"
  <2>1. <<s.root_directory, v>> \in PathBelow
    BY <1>2 DEF PathBelow
  <2> QED
    BY <1>5, <2>1 DEF SetServer, Server
<1>6. CASE k \in {"server_name", "host", "root_directory", "index_file"}
  BY <1>6 DEF SetServer, Server
<1> QED
  BY <1>1, <1>3, <1>4, <1>5, <1>6

(* The setters of a location keep its type.                                *)
LEMMA SetLocationType ==
    ASSUME NEW l \in Location, NEW k \in LocationKey, NEW v \in Nat
    PROVE  SetLocation(l, k, v) \in Location
<1>1. k \in {"root_directory", "allow_methods", "index_file", "auto_index",
             "interpreter_path", "redirection", "set_cookies"}
  BY DEF LocationKey, LocationOrder
<1> QED
  BY <1>1 DEF SetLocation, Location

(* Nothing has been read.                                                  *)
LEMMA ParserInitTypes == ParserInit => ParserTypes
<1> SUFFICES ASSUME ParserInit PROVE ParserTypes
  OBVIOUS
<1>1. file \in Seq(Line)
  BY FilesAssumption DEF ParserInit
<1>2. pos \in 1 .. Len(file) + 1 /\ blocks \in 0 .. pos - 1
  BY <1>1 DEF ParserInit
<1>3. server \in Server /\ location \in Location
  BY DefaultsType, NewLocationType DEF ParserInit
<1> QED
  BY <1>1, <1>2, <1>3 DEF ParserInit, ParserTypes

(* Every line keeps the types.                                             *)
LEMMA ParserKeepsTypes ==
    ASSUME ParserTypes, ReadConfiguration
    PROVE  ParserTypes'
<1> USE DEF ParserTypes, Read, AtLine, NextLine, Refuse
<1>1. CASE EndOfFile
  BY <1>1 DEF EndOfFile
<1>2. ASSUME pos <= Len(file), NextLine
      PROVE  /\ file' \in Seq(Line) /\ pos' \in 1 .. Len(file') + 1 /\ pos' = pos + 1
             /\ Read.value \in Nat
             /\ \A n \in 0 .. pos - 1 : n \in 0 .. pos' - 1 /\ n + 1 \in 0 .. pos' - 1
  <2>1. file' = file /\ pos' = pos + 1 /\ pos \in 1 .. Len(file) /\ Len(file) \in Nat
    BY <1>2
  <2>2. Read \in Line
    BY <2>1
  <2>3. Read.value \in Nat
    BY <2>2 DEF Line
  <2>4. \A n \in 0 .. pos - 1 : n \in 0 .. pos' - 1 /\ n + 1 \in 0 .. pos' - 1
    BY <2>1
  <2> QED
    BY <2>1, <2>3, <2>4
<1>3. CASE SkipLine \/ StrayLine
  BY <1>2, <1>3 DEF SkipLine, StrayLine
<1>4. CASE OpenServer
  <2>1. pos <= Len(file) /\ NextLine /\ blocks' = blocks + 1
    BY <1>4 DEF OpenServer
  <2>2. blocks' \in 0 .. pos' - 1
    BY <1>2, <2>1
  <2>3. server' \in Server /\ location' \in Location /\ servers' \in Seq(Server)
    BY <1>4, DefaultsType DEF OpenServer
  <2>4. context' \in {"file", "server", "location", "read", "refused"}
    BY <1>4 DEF OpenServer
  <2>5. file' \in Seq(Line) /\ pos' \in 1 .. Len(file') + 1
    BY <1>2, <2>1
  <2> QED
    BY <2>2, <2>3, <2>4, <2>5
<1>5. CASE CloseServer
  <2>1. context' = "file" /\ UNCHANGED <<server, location, blocks>>
    BY <1>5 DEF CloseServer
  <2>4. Append(servers, server) \in Seq(Server)
    OBVIOUS
  <2>5. servers' \in Seq(Server)
    BY <1>5, <2>4 DEF CloseServer
  <2>2. pos <= Len(file) /\ NextLine
    BY <1>5 DEF CloseServer
  <2>3. blocks' \in 0 .. pos' - 1 /\ file' \in Seq(Line) /\ pos' \in 1 .. Len(file') + 1
    BY <1>2, <2>1, <2>2
  <2> QED
    BY <2>1, <2>3, <2>5
<1>6. CASE ServerDirective
  <2>1. PICK i \in DOMAIN ServerOrder :
           \/ Refuse
           \/ /\ Read.mark = "nothing" \/ ~ServerRefuses(server, ServerOrder[i], Read.value)
              /\ server' = IF Read.mark = "nothing" THEN server
                           ELSE SetServer(server, ServerOrder[i], Read.value)
              /\ UNCHANGED <<context, location, servers, blocks>>
    BY <1>6 DEF ServerDirective
  <2>2. ServerOrder[i] \in ServerKey
    BY DEF ServerKey
  <2>3. server' \in Server
    BY <1>2, <1>6, <2>1, <2>2, SetServerType DEF ServerDirective
  <2> QED
    BY <1>2, <1>6, <2>1, <2>3 DEF ServerDirective
<1>7. CASE OpenLocation
  BY <1>2, <1>7, NewLocationType DEF OpenLocation
<1>8. CASE IgnoreInServer \/ IgnoreInLocation
  BY <1>2, <1>8 DEF IgnoreInServer, IgnoreInLocation
<1>9. CASE CloseLocation
  <2>1. server.locations \in Seq(Location)
    BY DEF Server
  <2>2. Append(server.locations, location) \in Seq(Location)
    BY <2>1
  <2>3. [server EXCEPT !.locations = Append(server.locations, location)] \in Server
    BY <2>2 DEF Server
  <2> QED
    BY <1>2, <1>9, <2>3 DEF CloseLocation
<1>10. CASE LocationDirective
  <2>1. PICK i \in DOMAIN LocationOrder :
           \/ Refuse
           \/ /\ location' = IF Read.mark = "nothing" THEN location
                             ELSE SetLocation(location, LocationOrder[i], Read.value)
              /\ UNCHANGED <<context, server, servers, blocks>>
    BY <1>10 DEF LocationDirective
  <2>2. LocationOrder[i] \in LocationKey
    BY DEF LocationKey
  <2>3. location' \in Location
    BY <1>2, <1>10, <2>1, <2>2, SetLocationType DEF LocationDirective
  <2> QED
    BY <1>2, <1>10, <2>1, <2>3 DEF LocationDirective
<1> QED
  BY <1>1, <1>3, <1>4, <1>5, <1>6, <1>7, <1>8, <1>9, <1>10 DEF ReadConfiguration

-----------------------------------------------------------------------------
(* The inductive invariant                                                  *)

Phase == {"reading", "opening", "waiting", "handling", "ended", "undefined"}

ProgramTypes ==
    /\ phase \in Phase
    /\ socket \in Seq(Nat \cup {NoSocket})
    /\ open \in SUBSET DOMAIN servers
    /\ flag \in [Unit -> BOOLEAN]
    /\ batch \in SUBSET ({"LISTEN", "READ", "TIMER", "PIPE"} \X Nat)
    /\ conn \in Connection

(* What the handler of the signal sets is what nobody else reads.          *)
OwnFlag == ~flag["WebServer"] /\ ~flag["ServerData"]

(* Every socket is that of the block that opened it, of a block with the   *)
(* same text, and the only one of its address.                             *)
SocketsInv ==
    /\ DOMAIN socket = DOMAIN servers
    /\ open = {socket[i] : i \in DOMAIN socket} \ {NoSocket}
    /\ \A i \in DOMAIN socket : socket[i] # NoSocket =>
          socket[i] \in DOMAIN socket /\ socket[socket[i]] = socket[i]
    /\ \A i, j \in DOMAIN socket : (socket[i] # NoSocket /\ socket[i] = socket[j]) =>
          SameText(servers[i], servers[j])
    /\ \A i, j \in DOMAIN socket :
          (/\ socket[i] # NoSocket /\ socket[j] # NoSocket
           /\ AddressOf(servers[i]) = AddressOf(servers[j]) /\ servers[i].listens_to # 0)
             => socket[i] = socket[j]

(* What is being handled came in by a socket that is open.                 *)
ServingInv ==
    /\ \A i \in DOMAIN socket : socket[i] # NoSocket
    /\ \A e \in batch : e[1] = "LISTEN" => e[2] \in open
    /\ conn.life = "live" => conn.via \in open

ProgramInv ==
    /\ ParserTypes
    /\ ProgramTypes
    /\ OwnFlag
    /\ phase = "reading" => open = {}
    /\ phase \in {"reading", "opening"} => batch = {} /\ conn.life = "none"
    /\ phase \in {"opening", "waiting", "handling"} => SocketsInv
    /\ Serving => ServingInv

(* Nothing is open at first.                                               *)
LEMMA InitProgramInv == Init => ProgramInv
<1> SUFFICES ASSUME Init PROVE ProgramInv
  OBVIOUS
<1>1. ParserTypes
  BY ParserInitTypes DEF Init
<1>2. ProgramTypes
  BY DEF Init, ProgramTypes, Phase, NoConnection, Connection
<1>3. OwnFlag
  BY DEF Init, OwnFlag, Unit, NoConnection
<1> QED
  BY <1>1, <1>2, <1>3 DEF Init, ProgramInv, Serving, NoConnection

(* Reading ends in a configuration, an exception, or the constructor.      *)
LEMMA ReadingKeepsInv ==
    ASSUME ProgramInv, ReadFile \/ NoConfiguration \/ FileRead
    PROVE  ProgramInv'
<1> USE DEF ProgramInv, OwnFlag
<1>1. CASE ReadFile
  <2>1. ParserTypes'
    BY <1>1, ParserKeepsTypes DEF ReadFile
  <2>2. ProgramTypes'
    BY <1>1 DEF ReadFile, ProgramTypes
  <2> QED
    BY <1>1, <2>1, <2>2 DEF ReadFile, Serving
<1>2. CASE NoConfiguration
  BY <1>2 DEF NoConfiguration, ParserTypes, ProgramTypes, Phase, parser, Serving
<1>3. CASE FileRead
  <2>1. ParserTypes' /\ UNCHANGED <<servers, open, flag, batch, conn>>
    BY <1>3 DEF FileRead, ParserTypes, parser
  <2>2. servers \in Seq(Server) /\ phase' \in {"opening", "ended"} /\ open = {}
        /\ socket' = [i \in DOMAIN servers |-> NoSocket]
    BY <1>3 DEF FileRead, ParserTypes
  <2>3. DOMAIN servers = 1 .. Len(servers) /\ Len(servers) \in Nat
    BY <2>2
  <2>4. socket' \in Seq(Nat \cup {NoSocket})
    BY <2>2, <2>3
  <2>5. ProgramTypes'
    BY <2>1, <2>2, <2>4 DEF ProgramTypes, Phase
  <2>6. SocketsInv'
    BY <2>1, <2>2 DEF SocketsInv
  <2> QED
    BY <1>3, <2>1, <2>2, <2>5, <2>6 DEF FileRead, Serving
<1> QED
  BY <1>1, <1>2, <1>3

(* A block of the same text is found, and it is an earlier one or n itself.*)
LEMMA ExistingHasSameText ==
    ASSUME ProgramInv, SocketsInv, NEW n \in DOMAIN servers,
           ExistingSocket(servers, socket, n) # NoSocket
    PROVE  \E m \in DOMAIN servers :
              /\ ExistingSocket(servers, socket, n) = socket[m]
              /\ SameText(servers[m], servers[n])
<1> DEFINE T == {i \in DOMAIN servers : SameText(servers[i], servers[n])}
<1>1. servers \in Seq(Server)
  BY DEF ProgramInv, ParserTypes
<1>2. n \in T /\ T \in SUBSET Nat
  BY <1>1 DEF SameText
<1>3. First(T) \in T
  <2> HIDE DEF T
  <2> QED
    BY <1>2, FirstIsLeast
<1>4. ExistingSocket(servers, socket, n) = socket[First(T)]
  BY DEF ExistingSocket
<1> QED
  BY <1>3, <1>4

(* The constructor's step keeps the sockets in order.                      *)
LEMMA OpenSocketKeepsInv ==
    ASSUME ProgramInv, OpenSocket
    PROVE  ProgramInv'
<1> DEFINE n == First(ToOpen)
           existing == ExistingSocket(servers, socket, n)
<1>1. /\ ParserTypes /\ ProgramTypes /\ OwnFlag /\ SocketsInv
      /\ batch = {} /\ conn.life = "none" /\ phase = "opening" /\ ToOpen # {}
      /\ UNCHANGED <<parser, flag, batch, conn>>
  BY DEF ProgramInv, OpenSocket
<1>2. servers \in Seq(Server) /\ socket \in Seq(Nat \cup {NoSocket}) /\ DOMAIN socket = DOMAIN servers
  BY <1>1 DEF ParserTypes, ProgramTypes, SocketsInv
<1>3. n \in DOMAIN servers /\ n \in Nat /\ socket[n] = NoSocket
  <2>1. ToOpen \in SUBSET Nat
    BY <1>2 DEF ToOpen
  <2>2. n \in ToOpen
    BY <1>1, <2>1, FirstIsLeast
  <2> QED
    BY <1>2, <2>2 DEF ToOpen
<1>4. ParserTypes' /\ OwnFlag' /\ batch' = {} /\ conn'.life = "none"
      /\ UNCHANGED servers
  BY <1>1 DEF ParserTypes, OwnFlag, parser
<1>5. flag' \in [Unit -> BOOLEAN] /\ conn' \in Connection
      /\ batch' \in SUBSET ({"LISTEN", "READ", "TIMER", "PIPE"} \X Nat)
  BY <1>1 DEF ProgramTypes
<1>6. CASE existing = NoSocket /\ phase' = "ended" /\ UNCHANGED <<socket, open>>
  <2>1. ProgramTypes'
    BY <1>1, <1>4, <1>5, <1>6 DEF ProgramTypes, Phase
  <2> QED
    BY <1>4, <1>6, <2>1 DEF ProgramInv, Serving
<1>7. ASSUME NEW s \in Nat, socket' = [socket EXCEPT ![n] = s],
             s \in DOMAIN servers, phase' = "opening",
             open' = {socket'[i] : i \in DOMAIN socket'} \ {NoSocket},
             s = n \/ socket[s] = s,
             \A i \in DOMAIN socket : (socket[i] = s) => SameText(servers[i], servers[n]),
             \A i \in DOMAIN socket :
                (/\ socket[i] # NoSocket /\ AddressOf(servers[i]) = AddressOf(servers[n])
                 /\ servers[n].listens_to # 0) => socket[i] = s
      PROVE  ProgramInv'
  <2>1. socket' \in Seq(Nat \cup {NoSocket}) /\ DOMAIN socket' = DOMAIN socket
    BY <1>2, <1>3, <1>7
  <2>2. /\ socket'[n] = s
        /\ \A i \in DOMAIN socket : i # n => socket'[i] = socket[i]
    BY <1>2, <1>3, <1>7
  <2>3. s # NoSocket
    BY <1>7 DEF NoSocket
  <2>4. \A i \in DOMAIN socket : socket[i] # NoSocket =>
           socket[i] \in DOMAIN socket /\ socket[socket[i]] = socket[i] /\ socket[i] # n
    BY <1>1, <1>3 DEF SocketsInv
  <2>5. \A i \in DOMAIN socket' : socket'[i] # NoSocket =>
           socket'[i] \in DOMAIN socket' /\ socket'[socket'[i]] = socket'[i]
    <3>1. s = n \/ (s # n /\ socket'[s] = s)
      BY <1>2, <1>7, <2>2
    <3> QED
      BY <1>2, <1>7, <2>1, <2>2, <2>4, <3>1
  <2>6. \A i, j \in DOMAIN socket' : (socket'[i] # NoSocket /\ socket'[i] = socket'[j]) =>
           SameText(servers[i], servers[j])
    <3>1. \A i \in DOMAIN socket : socket[i] = s =>
             SameText(servers[i], servers[n]) /\ SameText(servers[n], servers[i])
      BY <1>7 DEF SameText
    <3>2. \A i, j \in DOMAIN socket : (socket[i] # NoSocket /\ socket[i] = socket[j]) =>
             SameText(servers[i], servers[j])
      BY <1>1 DEF SocketsInv
    <3>3. SameText(servers[n], servers[n])
      BY DEF SameText
    <3> QED
      BY <2>1, <2>2, <3>1, <3>2, <3>3
  <2>7. \A i, j \in DOMAIN socket' :
           (/\ socket'[i] # NoSocket /\ socket'[j] # NoSocket
            /\ AddressOf(servers[i]) = AddressOf(servers[j]) /\ servers[i].listens_to # 0)
              => socket'[i] = socket'[j]
    <3>1. \A i, j \in DOMAIN socket :
           (/\ socket[i] # NoSocket /\ socket[j] # NoSocket
            /\ AddressOf(servers[i]) = AddressOf(servers[j]) /\ servers[i].listens_to # 0)
              => socket[i] = socket[j]
      BY <1>1 DEF SocketsInv
    <3>2. \A i, j \in DOMAIN servers : AddressOf(servers[i]) = AddressOf(servers[j]) =>
             servers[i].listens_to = servers[j].listens_to
      BY DEF AddressOf
    <3> QED
      BY <1>2, <1>3, <1>7, <2>1, <2>2, <3>1, <3>2
  <2>8. SocketsInv'
    BY <1>2, <1>4, <1>7, <2>1, <2>5, <2>6, <2>7 DEF SocketsInv
  <2>9. open' \in SUBSET DOMAIN servers'
    BY <1>2, <1>4, <1>7, <2>1, <2>5
  <2>10. ProgramTypes'
    BY <1>5, <1>7, <2>1, <2>9 DEF ProgramTypes, Phase
  <2> QED
    BY <1>4, <1>7, <2>8, <2>10 DEF ProgramInv, Serving
<1>8. CASE existing # NoSocket /\ socket' = [socket EXCEPT ![n] = existing]
           /\ UNCHANGED <<phase, open>>
  <2>1. PICK m \in DOMAIN servers : existing = socket[m] /\ SameText(servers[m], servers[n])
    BY <1>1, <1>3, <1>8, ExistingHasSameText
  <2>2. existing \in DOMAIN servers /\ existing \in Nat /\ socket[existing] = existing
    BY <1>1, <1>2, <1>8, <2>1 DEF SocketsInv
  <2>3. open' = {socket'[i] : i \in DOMAIN socket'} \ {NoSocket}
    <3>1. open = {socket[i] : i \in DOMAIN socket} \ {NoSocket}
      BY <1>1 DEF SocketsInv
    <3>2. DOMAIN socket' = DOMAIN socket /\ socket'[n] = existing
          /\ \A i \in DOMAIN socket : i # n => socket'[i] = socket[i]
      BY <1>2, <1>3, <1>8
    <3>3. {socket'[i] : i \in DOMAIN socket'} \ {NoSocket}
            = {socket[i] : i \in DOMAIN socket} \ {NoSocket}
      BY <1>2, <1>3, <1>8, <2>1, <3>2
    <3> QED
      BY <1>8, <3>1, <3>3
  <2>4. \A i \in DOMAIN socket : socket[i] = existing => SameText(servers[i], servers[n])
    <3>1. \A i \in DOMAIN socket : socket[i] = socket[m] => SameText(servers[i], servers[m])
      BY <1>1, <1>2, <1>8, <2>1 DEF SocketsInv
    <3> QED
      BY <2>1, <3>1 DEF SameText
  <2>5. \A i \in DOMAIN socket :
           (/\ socket[i] # NoSocket /\ AddressOf(servers[i]) = AddressOf(servers[n])
            /\ servers[n].listens_to # 0) => socket[i] = existing
    <3>1. AddressOf(servers[m]) = AddressOf(servers[n])
          /\ servers[m].listens_to = servers[n].listens_to
      BY <2>1 DEF SameText, AddressOf
    <3>2. \A i \in DOMAIN socket :
             (/\ socket[m] # NoSocket /\ socket[i] # NoSocket
              /\ AddressOf(servers[m]) = AddressOf(servers[i]) /\ servers[m].listens_to # 0)
                => socket[m] = socket[i]
      BY <1>1, <1>2, <2>1 DEF SocketsInv
    <3> QED
      BY <1>8, <2>1, <3>1, <3>2
  <2> HIDE DEF n, existing
  <2> QED
    BY <1>1, <1>7, <1>8, <2>2, <2>3, <2>4, <2>5
<1>9. CASE existing = NoSocket /\ MayListen(servers, socket, n)
           /\ socket' = [socket EXCEPT ![n] = n] /\ open' = open \cup {n} /\ UNCHANGED phase
  <2>1. \A i \in DOMAIN socket : socket[i] # n
    BY <1>1, <1>2, <1>3 DEF SocketsInv, NoSocket
  <2>2. open' = {socket'[i] : i \in DOMAIN socket'} \ {NoSocket}
    <3>1. open = {socket[i] : i \in DOMAIN socket} \ {NoSocket}
      BY <1>1 DEF SocketsInv
    <3>2. DOMAIN socket' = DOMAIN socket /\ socket'[n] = n /\ n # NoSocket
          /\ \A i \in DOMAIN socket : i # n => socket'[i] = socket[i]
      BY <1>2, <1>3, <1>9 DEF NoSocket
    <3>3. {socket'[i] : i \in DOMAIN socket'} \ {NoSocket}
            = ({socket[i] : i \in DOMAIN socket} \ {NoSocket}) \cup {n}
      BY <1>2, <1>3, <3>2
    <3> QED
      BY <1>9, <3>1, <3>3
  <2>3. \A i \in DOMAIN socket :
           (/\ socket[i] # NoSocket /\ AddressOf(servers[i]) = AddressOf(servers[n])
            /\ servers[n].listens_to # 0) => socket[i] = n
    BY <1>2, <1>9 DEF MayListen, Bound, AddressOf
  <2> HIDE DEF n, existing
  <2> QED
    BY <1>1, <1>3, <1>7, <1>9, <2>1, <2>2, <2>3
<1> QED
  BY <1>6, <1>8, <1>9 DEF OpenSocket

(* The constructor has opened everything; a signal changes nothing the loop*)
(* reads; kevent returns, or a batch is done.                              *)
LEMMA WaitingKeepsInv ==
    ASSUME ProgramInv, RunServer \/ Signal \/ Kevent \/ BatchDone
    PROVE  ProgramInv'
<1>1. CASE RunServer
  <2>1. /\ ParserTypes' /\ ProgramTypes' /\ OwnFlag' /\ SocketsInv'
        /\ batch' = {} /\ conn'.life = "none" /\ phase' = "waiting"
    BY <1>1 DEF RunServer, ProgramInv, ParserTypes, ProgramTypes, Phase, OwnFlag, SocketsInv, parser
  <2>2. \A i \in DOMAIN socket' : socket'[i] # NoSocket
    BY <1>1 DEF RunServer, ProgramInv, ToOpen, SocketsInv
  <2> QED
    BY <2>1, <2>2 DEF ProgramInv, ServingInv
<1>2. CASE Signal
  <2>1. /\ UNCHANGED <<parser, socket, open, batch, conn>>
        /\ phase' = phase \/ phase' = "ended"
        /\ flag' = [flag EXCEPT !["SigHandler"] = TRUE]
    BY <1>2 DEF Signal, EndSignal
  <2>2. OwnFlag' /\ flag' \in [Unit -> BOOLEAN]
    BY <2>1 DEF ProgramInv, ProgramTypes, OwnFlag, Unit
  <2>3. ParserTypes'
    BY <2>1 DEF ProgramInv, ParserTypes, parser
  <2>4. ProgramTypes'
    BY <2>1, <2>2 DEF ProgramInv, ProgramTypes, Phase, parser
  <2>5. SocketsInv => SocketsInv'
    BY <2>1 DEF SocketsInv, parser
  <2>6. ServingInv => ServingInv'
    BY <2>1 DEF ServingInv
  <2> QED
    BY <2>1, <2>2, <2>3, <2>4, <2>5, <2>6 DEF ProgramInv, Serving
<1>3. CASE Kevent
  <2>1. /\ UNCHANGED <<parser, socket, flag, open, conn>> /\ phase = "waiting" /\ phase' = "handling"
        /\ batch' \subseteq Possible
    BY <1>3 DEF Kevent, ProgramInv, OwnFlag
  <2>2. open \in SUBSET Nat
    <3>1. servers \in Seq(Server) /\ open \in SUBSET DOMAIN servers
      BY DEF ProgramInv, ParserTypes, ProgramTypes
    <3> QED
      BY <3>1
  <2> DEFINE armed == {f \in {"READ", "TIMER", "PIPE"} : Armed(f)}
  <2>3. \A e \in Possible : /\ e \in {"LISTEN", "READ", "TIMER", "PIPE"} \X Nat
                            /\ e[1] = "LISTEN" => e[2] \in open
    <3>1. armed \subseteq {"READ", "TIMER", "PIPE"} /\ Possible = ({"LISTEN"} \X open) \cup (armed \X {0})
      BY DEF Possible
    <3> HIDE DEF armed
    <3>2. \A e \in armed \X {0} : e \in {"READ", "TIMER", "PIPE"} \X Nat /\ e[1] # "LISTEN"
      <4>1. \A f \in armed : f # "LISTEN"
        BY <3>1
      <4>2. \A e \in armed \X {0} : e \in {"READ", "TIMER", "PIPE"} \X {0} /\ e[1] \in armed
        BY <3>1, Zenon
      <4>3. {"READ", "TIMER", "PIPE"} \X {0} \subseteq {"READ", "TIMER", "PIPE"} \X Nat
        OBVIOUS
      <4> QED
        BY <4>1, <4>2, <4>3
    <3>3. \A e \in {"LISTEN"} \X open : e \in {"LISTEN"} \X Nat /\ e[2] \in open
      BY <2>2
    <3> QED
      BY <3>1, <3>2, <3>3
  <2>4. ParserTypes'
    BY <2>1 DEF ProgramInv, ParserTypes, parser
  <2>5. ProgramTypes'
    BY <2>1, <2>3 DEF ProgramInv, ProgramTypes, Phase, parser
  <2>6. SocketsInv' /\ OwnFlag'
    BY <2>1 DEF ProgramInv, SocketsInv, OwnFlag, parser
  <2>7. ServingInv'
    BY <2>1, <2>3 DEF ProgramInv, Serving, ServingInv
  <2> QED
    BY <2>1, <2>4, <2>5, <2>6, <2>7 DEF ProgramInv
<1>4. CASE BatchDone
  <2>1. UNCHANGED <<parser, socket, open, flag, batch, conn>> /\ phase' = "waiting" /\ Serving
    BY <1>4 DEF BatchDone, Serving
  <2>2. ParserTypes' /\ OwnFlag' /\ SocketsInv' /\ ServingInv'
    BY <1>4, <2>1 DEF BatchDone, ProgramInv, ParserTypes, OwnFlag, SocketsInv, ServingInv, parser
  <2>3. ProgramTypes'
    BY <2>1 DEF ProgramInv, ProgramTypes, Phase, parser
  <2> QED
    BY <2>1, <2>2, <2>3 DEF ProgramInv
<1> QED
  BY <1>1, <1>2, <1>3, <1>4

(* A connection came in by a socket some block has, so that a block is     *)
(* chosen.                                                                 *)
LEMMA SomeServer ==
    ASSUME ProgramInv, Serving, conn.life = "live", NEW name
    PROVE  SpecificServer(servers, socket, conn.via, name) \in Nat
<1> DEFINE S == OfSocket(socket, conn.via)
           N == Named(servers, S, name)
<1>1. socket \in Seq(Nat \cup {NoSocket}) /\ conn.via \in open
      /\ open = {socket[i] : i \in DOMAIN socket} \ {NoSocket}
  BY DEF ProgramInv, ProgramTypes, ServingInv, SocketsInv, Serving
<1>2. S \in SUBSET Nat /\ S # {} /\ N \in SUBSET Nat
  BY <1>1 DEF OfSocket, Named
<1>3. First(S) \in Nat /\ (N # {} => First(N) \in Nat)
  <2> HIDE DEF S, N
  <2> QED
    BY <1>2, FirstIsLeast
<1> QED
  BY <1>3 DEF SpecificServer

(* No handler deletes a Request that is deleted, or closes a listening     *)
(* socket while the loop goes on.                                          *)
LEMMA HandlersKeepInv ==
    ASSUME ProgramInv, NEW e \in batch,
           NewClient(e) \/ ParseHeader(e) \/ StayOrClose(e) \/ StaleEvent(e)
    PROVE  ProgramInv'
<1>1. /\ phase = "handling" /\ batch' = batch \ {e} /\ UNCHANGED <<parser, socket, flag>>
      /\ open' = open \/ open' = {}
      /\ phase' \in {"handling", "ended", "undefined"}
      /\ phase' = "handling" => open' = open
  BY DEF NewClient, ParseHeader, StayOrClose, StaleEvent, NextEvent, DestroyBlocks,
         ProgramInv, OwnFlag
<1>2. conn \in Connection /\ ServingInv /\ Serving
  BY <1>1 DEF ProgramInv, ProgramTypes, Serving
<1>3. /\ conn' \in Connection
      /\ conn'.life = "live" => conn'.via \in open
  <2>1. CASE UNCHANGED conn
    BY <1>2, <2>1 DEF ServingInv
  <2>2. CASE NewClient(e) /\ ~UNCHANGED conn
    <3>1. PICK h \in Headers :
             conn' = [NoConnection EXCEPT !.life = "live", !.via = e[2], !.header = h]
      BY <2>2 DEF NewClient
    <3>2. e[1] = "LISTEN" /\ e[2] \in open /\ e[2] \in Nat
      BY <1>2, <2>2 DEF NewClient, ServingInv, ProgramInv, ProgramTypes
    <3> QED
      BY <3>1, <3>2 DEF NoConnection, Connection
  <2>3. CASE ParseHeader(e) /\ ~UNCHANGED conn
    <3>1. conn.life = "live"
          /\ conn' = [conn EXCEPT !.server =
                         SpecificServer(servers, socket, conn.via, HostName(conn.header))]
      BY <2>3 DEF ParseHeader
    <3>2. SpecificServer(servers, socket, conn.via, HostName(conn.header)) \in Nat
      BY <1>2, <3>1, SomeServer
    <3> QED
      BY <1>2, <3>1, <3>2 DEF Connection, ServingInv
  <2>4. CASE StayOrClose(e) /\ ~UNCHANGED conn
    BY <1>2, <2>4 DEF StayOrClose, Connection
  <2> QED
    BY <2>1, <2>2, <2>3, <2>4 DEF StaleEvent
<1>4. ParserTypes' /\ OwnFlag'
  BY <1>1 DEF ProgramInv, ParserTypes, OwnFlag, parser
<1>5. ProgramTypes'
  BY <1>1, <1>3 DEF ProgramInv, ProgramTypes, Phase, parser
<1>6. phase' = "handling" => SocketsInv' /\ ServingInv'
  BY <1>1, <1>2, <1>3 DEF ProgramInv, SocketsInv, ServingInv, parser
<1> QED
  BY <1>1, <1>3, <1>4, <1>5, <1>6 DEF ProgramInv, Serving

(* Every step keeps the invariant.                                         *)
LEMMA NextProgramInv ==
    ASSUME ProgramInv, [Next]_vars
    PROVE  ProgramInv'
<1>1. CASE UNCHANGED vars
  BY <1>1 DEF vars, parser, ProgramInv, ParserTypes, ProgramTypes, OwnFlag, SocketsInv,
              ServingInv, Serving
<1>2. CASE ReadFile \/ NoConfiguration \/ FileRead
  BY <1>2, ReadingKeepsInv
<1>3. CASE OpenSocket
  BY <1>3, OpenSocketKeepsInv
<1>4. CASE RunServer \/ Signal \/ Kevent \/ BatchDone
  BY <1>4, WaitingKeepsInv
<1>5. CASE \E e \in batch : NewClient(e) \/ ParseHeader(e) \/ StayOrClose(e) \/ StaleEvent(e)
  BY <1>5, HandlersKeepInv
<1> QED
  BY <1>1, <1>2, <1>3, <1>4, <1>5 DEF Next, Loop

LEMMA AlwaysProgramInv == Spec => []ProgramInv
BY InitProgramInv, NextProgramInv, PTL DEF Spec

-----------------------------------------------------------------------------
(* The types hold for every file: no port out of range and no negative body*)
(* size gets past the setters, and a block is found for every header.      *)
THEOREM TypesHold == Spec => []TypeOK
<1>1. ProgramInv => TypeOK
  <2> SUFFICES ASSUME ProgramInv PROVE TypeOK
    OBVIOUS
  <2>1. file \in Seq(Line) /\ pos \in 1 .. Len(file) + 1 /\ blocks \in 0 .. pos - 1
    BY DEF ProgramInv, ParserTypes
  <2>2. blocks \in 0 .. Len(file)
    BY <2>1
  <2> QED
    BY <2>1, <2>2 DEF ProgramInv, ParserTypes, ProgramTypes, Phase, TypeOK
<1> QED
  BY <1>1, AlwaysProgramInv, PTL

(* The destructors of the blocks' copies close no listening socket while   *)
(* the server runs.                                                        *)
THEOREM NoListenerCloses == Spec => []ListenersStayOpen
<1>1. ProgramInv => ListenersStayOpen
  BY DEF ProgramInv, ListenersStayOpen, Serving, SocketsInv, ServingInv
<1> QED
  BY <1>1, AlwaysProgramInv, PTL

(* However hosts are spelled, a socket stands for one address and an       *)
(* address for one socket.                                                 *)
THEOREM OneSocketAnAddress == Spec => []SocketsShared
<1>1. ProgramInv => SocketsShared
  <2> SUFFICES ASSUME ProgramInv, Serving PROVE SocketsShared
    BY DEF SocketsShared
  <2>1. SocketsInv /\ ServingInv
    BY DEF ProgramInv, Serving
  <2>2. \A i, j \in DOMAIN servers : SameText(servers[i], servers[j]) =>
           AddressOf(servers[i]) = AddressOf(servers[j])
    BY DEF SameText, AddressOf
  <2> QED
    BY <2>1, <2>2 DEF SocketsInv, ServingInv, SocketsShared
<1> QED
  BY <1>1, AlwaysProgramInv, PTL

-----------------------------------------------------------------------------
(* The block of a request                                                   *)

(* RightServer in terms of the blocks that were read.                      *)
BlockOfItsAddress ==
    (Serving /\ conn.server # 0 /\ servers[conn.via].listens_to # 0) =>
       LET here == {n \in DOMAIN servers : AddressOf(servers[n]) = AddressOf(servers[conn.via])}
           named == {n \in here : servers[n].server_name = HostName(conn.header)}
       IN  conn.server = First(IF named # {} THEN named ELSE here)

(* The block was chosen by the socket the connection came in by.           *)
Chosen ==
    /\ phase \in {"reading", "opening"} => conn.server = 0
    /\ (Serving /\ conn.server # 0) =>
          /\ conn.via \in open
          /\ conn.server = SpecificServer(servers, socket, conn.via, HostName(conn.header))

(* It is chosen once, and neither sockets nor blocks change after that.    *)
LEMMA ChosenNext ==
    ASSUME ProgramInv, Chosen, [Next]_vars
    PROVE  Chosen'
<1>1. CASE ReadFile \/ NoConfiguration \/ FileRead \/ OpenSocket \/ RunServer
  <2>1. UNCHANGED conn /\ phase \in {"reading", "opening"}
    BY <1>1 DEF ReadFile, NoConfiguration, FileRead, OpenSocket, RunServer
  <2> QED
    BY <2>1 DEF Chosen
<1>2. CASE Signal \/ Kevent \/ BatchDone \/ UNCHANGED vars
  <2>1. UNCHANGED <<servers, socket, open, conn>>
    BY <1>2 DEF Signal, Kevent, BatchDone, vars, parser, ProgramInv, OwnFlag
  <2>2. /\ phase' \in {"reading", "opening"} => phase \in {"reading", "opening"}
        /\ Serving' => Serving
    BY <1>2 DEF Signal, Kevent, BatchDone, vars, Serving, ProgramInv, OwnFlag
  <2> QED
    BY <2>1, <2>2 DEF Chosen
<1>3. ASSUME NEW e \in batch,
             NewClient(e) \/ ParseHeader(e) \/ StayOrClose(e) \/ StaleEvent(e)
      PROVE  Chosen'
  <2>1. /\ Serving /\ UNCHANGED <<servers, socket>> /\ conn \in Connection
        /\ phase' \in {"handling", "ended", "undefined"}
        /\ phase' = "handling" => open' = open
    BY <1>3 DEF NewClient, ParseHeader, StayOrClose, StaleEvent, NextEvent, DestroyBlocks,
                ProgramInv, ProgramTypes, OwnFlag, Serving, parser
  <2>2. CASE conn'.server = 0
    BY <2>1, <2>2 DEF Chosen, Serving
  <2>3. CASE conn'.server = conn.server /\ conn'.via = conn.via /\ conn'.header = conn.header
    BY <2>1, <2>3 DEF Chosen, Serving
  <2>4. CASE ParseHeader(e) /\ ~UNCHANGED conn
    <3>1. /\ conn.life = "live"
          /\ conn' = [conn EXCEPT !.server =
                         SpecificServer(servers, socket, conn.via, HostName(conn.header))]
      BY <2>4 DEF ParseHeader
    <3>2. conn.via \in open
      BY <2>1, <3>1 DEF ProgramInv, ServingInv
    <3>3. /\ conn'.via = conn.via /\ conn'.header = conn.header
          /\ conn'.server = SpecificServer(servers, socket, conn.via, HostName(conn.header))
      BY <2>1, <3>1 DEF Connection
    <3> QED
      BY <2>1, <3>2, <3>3 DEF Chosen, Serving
  <2>5. NewClient(e) => UNCHANGED conn \/ conn'.server = 0
    BY DEF NewClient, NoConnection
  <2>6. StayOrClose(e) => conn'.server = conn.server /\ conn'.via = conn.via /\ conn'.header = conn.header
    BY <2>1 DEF StayOrClose, Connection
  <2>7. StaleEvent(e) => UNCHANGED conn
    BY DEF StaleEvent
  <2> QED
    BY <1>3, <2>2, <2>3, <2>4, <2>5, <2>6, <2>7
<1> QED
  BY <1>1, <1>2, <1>3 DEF Next, Loop

(* Whatever the file, the spelling of hosts and the order of blocks, a     *)
(* request is given the first block for its address with its name, else the*)
(* first for its address, although the block is looked for by socket and   *)
(* sockets are shared by text.                                             *)
THEOREM BlockByAddress == Spec => []BlockOfItsAddress
<1>1. Init => Chosen
  BY DEF Init, Chosen, NoConnection, Serving
<1>2. ASSUME ProgramInv, Chosen PROVE BlockOfItsAddress
  <2> DEFINE here == {n \in DOMAIN servers : AddressOf(servers[n]) = AddressOf(servers[conn.via])}
             named == {n \in here : servers[n].server_name = HostName(conn.header)}
  <2> SUFFICES ASSUME Serving, conn.server # 0, servers[conn.via].listens_to # 0
               PROVE  conn.server = First(IF named # {} THEN named ELSE here)
    BY DEF BlockOfItsAddress
  <2>1. SocketsInv /\ ServingInv /\ conn.via \in open
    BY <1>2 DEF ProgramInv, Serving, Chosen
  <2>2. conn.via \in DOMAIN socket /\ socket[conn.via] = conn.via
    BY <2>1 DEF SocketsInv
  <2>3. \A n \in DOMAIN servers :
           socket[n] = conn.via <=> AddressOf(servers[n]) = AddressOf(servers[conn.via])
    <3>1. ASSUME NEW n \in DOMAIN servers, socket[n] = conn.via
          PROVE  AddressOf(servers[n]) = AddressOf(servers[conn.via])
      BY <2>1, <2>2, <3>1 DEF SocketsInv, ServingInv, SameText, AddressOf
    <3>2. ASSUME NEW n \in DOMAIN servers,
                 AddressOf(servers[n]) = AddressOf(servers[conn.via])
          PROVE  socket[n] = conn.via
      BY <2>1, <2>2, <3>2 DEF SocketsInv, ServingInv
    <3> QED
      BY <3>1, <3>2
  <2>4. OfSocket(socket, conn.via) = here
    BY <2>1, <2>3 DEF OfSocket, SocketsInv
  <2>5. Named(servers, OfSocket(socket, conn.via), HostName(conn.header)) = named
    BY <2>4 DEF Named
  <2>6. conn.server = SpecificServer(servers, socket, conn.via, HostName(conn.header))
    BY <1>2 DEF Chosen
  <2> HIDE DEF here, named
  <2> QED
    BY <2>4, <2>5, <2>6 DEF SpecificServer
<1> QED
  BY <1>1, <1>2, ChosenNext, AlwaysProgramInv, PTL DEF Spec
=============================================================================
