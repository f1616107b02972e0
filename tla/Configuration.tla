----------------------------- MODULE Configuration -----------------------------
(***************************************************************************)
(* Reading the configuration file (srcs/ConfigFileParser.cpp, Parser.cpp,  *)
(* and the setters of ServerData.cpp and ServerLocation.cpp): three nested *)
(* loops over the same stream of lines, one for the file, one for a server *)
(* block, one for a location block, and what the setters make of a value.  *)
(*                                                                         *)
(* A line is abstracted to what the parser looks for in it: the keywords   *)
(* it contains anywhere (find), its mark, and its value, a number that     *)
(* stands for the text. The marks are                                      *)
(*   "skip"      empty, or with a # anywhere                               *)
(*   "server {"  exactly this text                                         *)
(*   "{", "}"    with this brace                                           *)
(*   "value"     a value after the keyword                                 *)
(*   "nothing"   none, or / and ./ for a directory: the setters ignore it  *)
(*   "blanks"    only blanks after the keyword                             *)
(* The value 0 of a keyword is its default. Paths are relative and plain.  *)
(***************************************************************************)
EXTENDS Integers, Sequences

CONSTANTS
    Files,       \* the configuration files the program may be given
    Missing,     \* what is not on the disk: directory, folder below it, keyword, value
    Malformed,   \* pairs of keyword and value whose form the setter refuses
    Extensions,  \* the values of location that start with a dot: CGIs
    UintRange,   \* the number of values of an unsigned int
    LongMax,     \* LONG_MAX
    PortRange    \* USHRT_MAX

ServerOrder == <<"server_name", "listens_to", "host", "root_directory", "index_file",
                 "client_max_body_size", "error_page", "upload_directory">>
LocationOrder == <<"root_directory", "allow_methods", "index_file", "auto_index",
                   "interpreter_path", "redirection", "set_cookies">>

ServerKey == {ServerOrder[i] : i \in DOMAIN ServerOrder}
LocationKey == {LocationOrder[i] : i \in DOMAIN LocationOrder}
Keyword == ServerKey \cup LocationKey \cup {"location"}

Line ==
    {l \in [mark : {"skip", "server {", "{", "}", "value", "nothing", "blanks"},
            words : SUBSET Keyword, value : Nat] :
        l.mark = "server {" => l.words = {}}

ASSUME FilesAssumption == Files \subseteq Seq(Line)
(* The defaults are in range, and a long is longer than an unsigned int.   *)
ASSUME RangesAssumption ==
    /\ UintRange \in Nat /\ UintRange > 2 * 1024 /\ PortRange \in Nat /\ PortRange > 8080
    /\ LongMax \in Nat /\ LongMax >= UintRange

VARIABLES
    file,      \* the lines of the file
    pos,       \* the next line getline reads
    context,   \* whose loop is running, or how it ended
    server,    \* _server_data of parseFileServerBlock
    location,  \* _server_location
    servers,   \* the blocks read so far
    blocks     \* _server_block_counter

parser == <<file, pos, context, server, location, servers, blocks>>

Cwd == -1          \* the directory the program runs in
NoFolder == 0

ServerDefaults ==
    [server_name |-> 0, listens_to |-> 8080, host |-> 0, root_directory |-> 0,
     index_file |-> 0, client_max_body_size |-> 1024,
     error_page |-> <<Cwd, 0>>, upload_directory |-> <<Cwd, 0>>, locations |-> <<>>]

(* A location copies the root and the index file its server has by then.   *)
NewLocation(s, uri) ==
    [uri |-> uri, isCgi |-> uri \in Extensions, root_directory |-> s.root_directory,
     index_file |-> s.index_file, noIndexFile |-> TRUE, allow_methods |-> 0, auto_index |-> 0,
     interpreter_path |-> 0, redirection |-> 0, set_cookies |-> 0]

ParserInit ==
    /\ file \in Files
    /\ pos = 1
    /\ context = "file"
    /\ server = ServerDefaults
    /\ location = NewLocation(ServerDefaults, 0)
    /\ servers = <<>>
    /\ blocks = 0

-----------------------------------------------------------------------------
(* The setters. What they look for on the disk is looked for below the     *)
(* root directory the block has at this line.                              *)

IsMissing(dir, folder, k, v) == <<dir, folder, k, v>> \in Missing

PortInRangeOrAtEnd(v) == v <= PortRange                            \* mutant
PortInRange(v) == v < PortRange

(* strtol stops at LONG_MAX; its value is cut to an unsigned int.          *)
BodySize(v) == (IF v > LongMax THEN LongMax ELSE v) % UintRange

ServerRefuses(s, k, v) ==
    \/ <<k, v>> \in Malformed
    \/ k = "listens_to" /\ ~PortInRange(v)
    \/ k = "client_max_body_size" /\ BodySize(v) >= UintRange \div 2
    \/ k = "root_directory" /\ IsMissing(Cwd, NoFolder, k, v)
    \/ k \in {"error_page", "upload_directory"} /\ IsMissing(s.root_directory, NoFolder, k, v)

SetServer(s, k, v) ==
    IF k = "client_max_body_size" THEN [s EXCEPT ![k] = BodySize(v)]
    ELSE IF k \in {"error_page", "upload_directory"} THEN [s EXCEPT ![k] = <<s.root_directory, v>>]
    ELSE IF k = "index_file" /\ IsMissing(s.root_directory, NoFolder, k, v) THEN s
    ELSE [s EXCEPT ![k] = v]

(* The root of a location that is no CGI is looked for below the root it   *)
(* replaces, but kept as a path from where the program runs.               *)
RootParent(l, v) == IF l.isCgi \/ v = l.root_directory THEN Cwd ELSE l.root_directory

LocationRefuses(l, k, v) ==
    \/ <<k, v>> \in Malformed
    \/ k = "root_directory" /\ IsMissing(RootParent(l, v), NoFolder, k, v)

RefusesNothing(l, k) == k = "set_cookies" \/ (k = "interpreter_path" /\ l.isCgi)

SetLocation(l, k, v) ==
    IF k = "index_file"
    THEN IF IsMissing(l.root_directory, l.uri, k, v) THEN l
         ELSE [l EXCEPT !.index_file = v, !.noIndexFile = FALSE]
    ELSE [l EXCEPT ![k] = v]

-----------------------------------------------------------------------------
(* The loops. Each tests the line for one thing after the other, so that   *)
(* the first keyword of its list that occurs in the line decides.          *)

AtLine(c) == context = c /\ pos <= Len(file)
Read == file[pos]
NextLine == pos' = pos + 1 /\ UNCHANGED file
Refuse == context' = "refused" /\ UNCHANGED <<server, location, servers, blocks>>

IsFirst(order, i, words) ==
    /\ i \in DOMAIN order
    /\ order[i] \in words
    /\ \A j \in 1 .. i - 1 : order[j] \notin words

HasKey(keys) == Read.words \cap keys # {}
IsDirective == Read.mark \notin {"skip", "}"}

SkipLine ==
    /\ context \in {"file", "server", "location"} /\ pos <= Len(file)
    /\ Read.mark = "skip"
    /\ NextLine
    /\ UNCHANGED <<context, server, location, servers, blocks>>

OpenServerKeepsLast ==                                             \* mutant
    /\ AtLine("file") /\ Read.mark = "server {"
    /\ NextLine
    /\ context' = "server"
    /\ blocks' = blocks + 1
    /\ UNCHANGED <<server, location, servers>>

OpenServer ==
    /\ AtLine("file") /\ Read.mark = "server {"
    /\ NextLine
    /\ context' = "server"
    /\ server' = ServerDefaults
    /\ blocks' = blocks + 1
    /\ UNCHANGED <<location, servers>>

(* Any other line is refused before the first block, ignored after it.     *)
StrayLine ==
    /\ AtLine("file") /\ Read.mark \notin {"skip", "server {"}
    /\ NextLine
    /\ \/ blocks = 0 /\ Refuse
       \/ blocks > 0 /\ UNCHANGED <<context, server, location, servers, blocks>>

CloseServer ==
    /\ AtLine("server") /\ Read.mark = "}"
    /\ NextLine
    /\ context' = "file"
    /\ servers' = Append(servers, server)
    /\ UNCHANGED <<server, location, blocks>>

ServerDirective ==
    /\ AtLine("server") /\ IsDirective
    /\ NextLine
    /\ \E i \in DOMAIN ServerOrder :
       LET k == ServerOrder[i]
           refused == \/ Read.mark = "blanks"
                      \/ Read.mark # "nothing" /\ ServerRefuses(server, k, Read.value)
       IN  /\ IsFirst(ServerOrder, i, Read.words)
           /\ \/ refused /\ Refuse
              \/ /\ ~refused
                 /\ server' = IF Read.mark = "nothing" THEN server
                              ELSE SetServer(server, k, Read.value)
                 /\ UNCHANGED <<context, location, servers, blocks>>

OpenLocation ==
    /\ AtLine("server") /\ Read.mark = "{"
    /\ ~HasKey(ServerKey) /\ HasKey({"location"})
    /\ NextLine
    /\ \/ <<"location", Read.value>> \in Malformed /\ Refuse
       \/ /\ <<"location", Read.value>> \notin Malformed
          /\ context' = "location"
          /\ location' = NewLocation(server, Read.value)
          /\ UNCHANGED <<server, servers, blocks>>

IgnoreInServer ==
    /\ AtLine("server") /\ IsDirective
    /\ ~HasKey(ServerKey) /\ ~(Read.mark = "{" /\ HasKey({"location"}))
    /\ NextLine
    /\ UNCHANGED <<context, server, location, servers, blocks>>

CloseLocation ==
    /\ AtLine("location") /\ Read.mark = "}"
    /\ NextLine
    /\ context' = "server"
    /\ server' = [server EXCEPT !.locations = Append(@, location)]
    /\ UNCHANGED <<location, servers, blocks>>

LocationDirective ==
    /\ AtLine("location") /\ IsDirective
    /\ NextLine
    /\ \E i \in DOMAIN LocationOrder :
       LET k == LocationOrder[i]
           refused == IF Read.mark = "nothing" THEN RefusesNothing(location, k)
                      ELSE Read.mark = "blanks" \/ LocationRefuses(location, k, Read.value)
       IN  /\ IsFirst(LocationOrder, i, Read.words)
           /\ \/ refused /\ Refuse
              \/ /\ ~refused
                 /\ location' = IF Read.mark = "nothing" THEN location
                                ELSE SetLocation(location, k, Read.value)
                 /\ UNCHANGED <<context, server, servers, blocks>>

IgnoreInLocation ==
    /\ AtLine("location") /\ IsDirective /\ ~HasKey(LocationKey)
    /\ NextLine
    /\ UNCHANGED <<context, server, location, servers, blocks>>

(* The end of the file ends every loop; a block that is still open is lost.*)
EndOfFile ==
    /\ context \in {"file", "server", "location"} /\ pos > Len(file)
    /\ context' = "read"
    /\ UNCHANGED <<file, pos, server, location, servers, blocks>>

ReadConfiguration ==
    \/ SkipLine \/ StrayLine \/ EndOfFile
    \/ OpenServer \/ ServerDirective \/ IgnoreInServer \/ CloseServer
    \/ OpenLocation \/ LocationDirective \/ IgnoreInLocation \/ CloseLocation
=============================================================================
