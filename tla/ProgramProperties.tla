--------------------------- MODULE ProgramProperties ---------------------------
(***************************************************************************)
(* What the configuration file means, read as a whole, and what the program*)
(* should make of it.                                                      *)
(***************************************************************************)
EXTENDS Program

(* Every variable keeps its type: ports are in range and body sizes not    *)
(* negative as an int, whatever the file says.                             *)
Location ==
    [uri : Nat, isCgi : BOOLEAN, root_directory : Nat, index_file : Nat, noIndexFile : BOOLEAN,
     allow_methods : Nat, auto_index : Nat, interpreter_path : Nat, redirection : Nat,
     set_cookies : Nat]

PathBelow == (Nat \cup {Cwd}) \X Nat

Server ==
    [server_name : Nat, listens_to : 0 .. PortRange - 1, host : Nat, root_directory : Nat,
     index_file : Nat, client_max_body_size : {n \in Nat : 2 * n < UintRange},
     error_page : PathBelow, upload_directory : PathBelow, locations : Seq(Location)]

TypeOK ==
    /\ file \in Seq(Line)
    /\ pos \in 1 .. Len(file) + 1
    /\ context \in {"file", "server", "location", "read", "refused"}
    /\ server \in Server
    /\ location \in Location
    /\ servers \in Seq(Server)
    /\ blocks \in 0 .. Len(file)
    /\ phase \in {"reading", "opening", "waiting", "handling", "ended", "undefined"}
    /\ socket \in Seq(Nat \cup {NoSocket})
    /\ open \in SUBSET DOMAIN servers
    /\ flag \in [Unit -> BOOLEAN]
    /\ batch \in SUBSET ({"LISTEN", "READ", "TIMER", "PIPE"} \X Nat)
    /\ conn \in Connection

-----------------------------------------------------------------------------
(* What a tidy file says: every line holds one thing at a depth where it is*)
(* known, every block ends, and no body size is beyond what an unsigned int*)
(* holds. A block has, for each keyword, the value of its own last line    *)
(* with it, wherever that stands, or the default. What is looked for on the*)
(* disk is looked for below the root the block has in the end, and a       *)
(* location has what its server has in the end, unless it says otherwise.  *)

Last(S) == CHOOSE i \in S : \A j \in S : j <= i
Marked(f, marks) == {i \in DOMAIN f : f[i].mark \in marks}
Before(S, e) == {i \in S : i < e}

Depth(f, i) == Cardinality(Before(Marked(f, {"server {", "{"}), i))
               - Cardinality(Before(Marked(f, {"}"}), i))

TidyLine(l, depth) ==
    \/ l.mark = "skip" /\ l.words = {}
    \/ l.mark = "server {" /\ depth = 0
    \/ l.mark = "{" /\ depth = 1 /\ l.words = {"location"}
    \/ l.mark = "}" /\ depth > 0 /\ l.words = {}
    \/ /\ l.mark \in {"value", "nothing"}
       /\ \/ depth = 1 /\ \E k \in ServerKey : l.words = {k}
          \/ depth = 2 /\ \E k \in LocationKey : l.words = {k}
       /\ l.words = {"client_max_body_size"} => l.value < UintRange

Tidy(f) == /\ Depth(f, Len(f) + 1) = 0
           /\ \A i \in DOMAIN f : TidyLine(f[i], Depth(f, i))

Starts(f) == Marked(f, {"server {"})
Begins(f, o) == {i \in Marked(f, {"{"}) : i > o}
Nth(S, n) == CHOOSE i \in S : Cardinality({j \in S : j <= i}) = n
(* The line that ends the block of line i; every block of a tidy file has one.*)
EndOf(f, i) == First({j \in i .. Len(f) : Depth(f, j + 1) = Depth(f, i)} \cup {Len(f)})

(* The lines with the keyword k between the lines o and e of the file, at  *)
(* the depth of the block that begins at o.                                *)
LinesWith(f, o, e, k) ==
    {i \in o + 1 .. e - 1 :
        f[i].mark = "value" /\ f[i].words = {k} /\ Depth(f, i) = Depth(f, o) + 1}

ValueOr(f, S, default) == IF S = {} THEN default ELSE f[Last(S)].value

Own(f, o, k) == LinesWith(f, o, EndOf(f, o), k)
Setting(f, o, k) == ValueOr(f, Own(f, o, k), ServerDefaults[k])
Found(f, o, dir, folder) ==
    {i \in Own(f, o, "index_file") : <<dir, folder, "index_file", f[i].value>> \notin Missing}

(* The location that begins at p, in a block with this root and index file.*)
LocationBlock(f, p, root, index) ==
    LET Plain(k) == ValueOr(f, Own(f, p, k), 0)
        ownRoot == ValueOr(f, Own(f, p, "root_directory"), root)
        found == Found(f, p, ownRoot, f[p].value)
    IN  [uri |-> f[p].value, isCgi |-> f[p].value \in Extensions,
         root_directory |-> ownRoot, index_file |-> ValueOr(f, found, index),
         noIndexFile |-> found = {},
         allow_methods |-> Plain("allow_methods"), auto_index |-> Plain("auto_index"),
         interpreter_path |-> Plain("interpreter_path"),
         redirection |-> Plain("redirection"), set_cookies |-> Plain("set_cookies")]

LocationsOf(f, o) == Before(Begins(f, o), EndOf(f, o))

(* The block that begins at o.                                             *)
Block(f, o) ==
    LET Plain(k) == Setting(f, o, k)
        root == Plain("root_directory")
        index == ValueOr(f, Found(f, o, root, NoFolder), ServerDefaults.index_file)
        Path(k) == IF Own(f, o, k) = {} THEN ServerDefaults[k]
                   ELSE <<root, f[Last(Own(f, o, k))].value>>
    IN  [server_name |-> Plain("server_name"), listens_to |-> Plain("listens_to"),
         host |-> Plain("host"), root_directory |-> root, index_file |-> index,
         client_max_body_size |-> Plain("client_max_body_size"),
         error_page |-> Path("error_page"), upload_directory |-> Path("upload_directory"),
         locations |-> [n \in 1 .. Cardinality(LocationsOf(f, o)) |->
                           LocationBlock(f, Nth(Begins(f, o), n), root, index)]]

Blocks(f) == [n \in 1 .. Cardinality(Starts(f)) |-> Block(f, Nth(Starts(f), n))]

(* The parser makes of a line what it can when it reads it, so that what a *)
(* line depends on has to be above it: the root of a block above what is   *)
(* looked for below it, and root and index file above the locations.       *)
AllBefore(S, T) == \A i \in S, j \in T : i < j

InOrder(f) ==
    /\ \A o \in Starts(f) :
          /\ \A k \in {"index_file", "error_page", "upload_directory"} :
                AllBefore(Own(f, o, "root_directory"), Own(f, o, k))
          /\ AllBefore(Own(f, o, "root_directory") \cup Own(f, o, "index_file"), LocationsOf(f, o))
    /\ \A p \in Marked(f, {"{"}) : AllBefore(Own(f, p, "root_directory"), Own(f, p, "index_file"))

(* The parser makes of a tidy file in this order that it does not refuse   *)
(* exactly its blocks, each with its own settings and nothing of another's.*)
BlocksRead ==
    (phase = "reading" /\ context = "read" /\ Tidy(file) /\ InOrder(file))
       => servers = Blocks(file)

(* What the repository says of a file in any order:                        *)
(* "the default index file specified in the server block applies to all    *)
(* locations within that server block unless it is explicitly overridden in*)
(* a location block" (ConfigFileParser.cpp:162).                           *)
IndexForAllLocations ==
    (context = "read" /\ Tidy(file)) =>
       \A n \in DOMAIN servers : \A m \in DOMAIN servers[n].locations :
          LET l == servers[n].locations[m]
          IN  l.noIndexFile => l.index_file = servers[n].index_file

(* "the web server will search for them inside the directory               *)
(* $server.$root_directory/error_pages" (standard_complete.conf:42).       *)
PagesBelowRoot ==
    (context = "read" /\ Tidy(file)) =>
       \A n \in DOMAIN servers :
          \/ servers[n].error_page = ServerDefaults.error_page
          \/ servers[n].error_page[1] = servers[n].root_directory

(* The two together: what is said of all locations of a block and of its   *)
(* pages holds wherever in the block the lines are.                        *)
SettingsInAnyOrder == IndexForAllLocations /\ PagesBelowRoot

-----------------------------------------------------------------------------
Serving == phase \in {"waiting", "handling"}
AddressOf(s) == <<Address[s.host], s.listens_to>>

(* Once the server runs, blocks share a listening socket exactly if they   *)
(* stand for the same address, although host and port are compared as text;*)
(* port 0, a free port each time, is no address.                           *)
SocketsShared ==
    Serving => \A i, j \in DOMAIN servers :
       /\ socket[i] = socket[j] => AddressOf(servers[i]) = AddressOf(servers[j])
       /\ (AddressOf(servers[i]) = AddressOf(servers[j]) /\ servers[i].listens_to # 0)
             => socket[i] = socket[j]

(* What the file says about a request that came to the address a with a    *)
(* Host header for this name: of its blocks for that address the first with*)
(* that name, else the first ("the default server for a specific port is   *)
(* the first server block listed", standard_complete.conf:6).              *)
RightServer ==
    (Serving /\ conn.server # 0 /\ Tidy(file) /\ servers[conn.via].listens_to # 0) =>
       LET Meant(n, k) == Setting(file, Nth(Starts(file), n), k)
           a == AddressOf(servers[conn.via])
           here == {n \in 1 .. Cardinality(Starts(file)) :
                       <<Address[Meant(n, "host")], Meant(n, "listens_to")>> = a}
           named == {n \in here : Meant(n, "server_name") = HostName(conn.header)}
       IN  conn.server = First(IF named # {} THEN named ELSE here)

(* No listening socket is closed while the server runs, although every     *)
(* Request holds copies of the blocks whose destructor can close them.     *)
ListenersStayOpen ==
    Serving => open = {socket[i] : i \in DOMAIN socket}
=============================================================================
