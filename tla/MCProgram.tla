------------------------------ MODULE MCProgram ------------------------------
(* Configuration files for TLC: what can be put together of two blocks. *)
EXTENDS ProgramProperties, TLC

L(mark, words, value) == [mark |-> mark, words |-> words, value |-> value]
Set(k, v) == L("value", {k}, v)
Empty(k) == L("nothing", {k}, 0)
Begin == L("server {", {}, 0)
BeginLocation(v) == L("{", {"location"}, v)
End == L("}", {}, 0)
Comment == L("skip", {}, 0)

Upto(S, n) == UNION {[1 .. m -> S] : m \in 0 .. n}

(* Addresses and names: two spellings of one host, another host, a host    *)
(* that does not resolve; ports, one of them out of range; two names.      *)
MCAddress == 0 :> 100 @@ 1 :> 101 @@ 2 :> 100
HostLines == {Set("host", 1), Set("host", 2)}
NameLines == {Set("server_name", 1), Set("server_name", 2)}
PortLine == Set("listens_to", 8081)
Bodies == Upto(HostLines \cup NameLines \cup {PortLine}, 1)
          \cup {<<l, PortLine>> : l \in HostLines} \cup {<<PortLine, l>> : l \in NameLines}
          \cup {<<h, n>> : h \in HostLines, n \in NameLines}
TwoBlocks == {<<Begin>> \o a \o <<End, Comment, Begin>> \o b \o <<End>> : a, b \in Bodies}
ThreeBlocks == {<<Begin>> \o a \o <<End, Begin>> \o b \o <<End, Begin>> \o c \o <<End>> :
                   a, b, c \in Upto({Set("host", 1), Set("server_name", 1)}, 1)}
PortZero == {<<Begin, Set("listens_to", 0)>> \o a \o <<End, Begin, Set("listens_to", 0)>> \o b \o <<End>> :
                a, b \in {<<>>, <<Set("host", 2)>>}}

(* One block whose lines depend on each other or are refused.              *)
PathLines == {Set("root_directory", 1), Set("root_directory", 2), Set("index_file", 1),
              Set("error_page", 1), Set("upload_directory", 1)}
OtherLines == {Set("host", 3), Set("host", 4), Set("listens_to", 65535), Set("listens_to", 65534),
               Set("client_max_body_size", 2047), Set("client_max_body_size", 2048),
               Set("client_max_body_size", 4097), Set("client_max_body_size", 20000),
               Empty("listens_to"), Empty("index_file")}
OneBlock == {<<Begin>> \o b \o <<End>> : b \in Upto(PathLines, 3) \cup Upto(OtherLines, 2)}

(* A location in the middle of a block.                                    *)
InLocation == {Set("root_directory", 1), Set("root_directory", 2), Set("index_file", 1),
               Set("index_file", 2), Set("allow_methods", 1), Set("auto_index", 1),
               Set("redirection", 1), Empty("interpreter_path"), Empty("set_cookies")}
Above == Upto({Set("root_directory", 1), Set("index_file", 1)}, 1)
Below == {<<Set("root_directory", 2)>>, <<Set("index_file", 2)>>}
WithLocation ==
    {<<Begin>> \o a \o <<BeginLocation(1)>> \o l \o <<End, End>> :
        a \in Above, l \in Upto(InLocation, 2)}
    \cup {<<Begin>> \o a \o <<BeginLocation(1)>> \o l \o <<End>> \o b \o <<End>> :
        a \in Above, l \in Upto(InLocation, 1), b \in Below}
    \cup {<<Begin, BeginLocation(2)>> \o l \o <<End, End>> : l \in Upto(InLocation, 2)}
TwoLocations ==
    {<<Begin, BeginLocation(1)>> \o a \o <<End, BeginLocation(2)>> \o b \o <<End, End>> :
        a, b \in Upto(InLocation, 1)}

(* Files that are not tidy.                                                *)
Untidy ==
    {<<L("value", {}, 0), Begin, End>>,                                \* a line before the first block
     <<Begin, End, L("value", {}, 0), Begin, End>>,                    \* and after it
     <<Begin, Set("host", 1)>>,                                        \* no end
     <<Begin, BeginLocation(1), Set("root_directory", 1)>>,
     <<Begin, BeginLocation(1), Begin, End, End, End>>,                \* blocks in blocks
     <<Begin, Begin, Set("host", 1), End, End>>,
     <<Begin, L("skip", {"host"}, 1), End>>,                           \* a comment behind a value
     <<Begin, L("}", {"host"}, 1)>>,                                   \* a brace behind a value
     <<Begin, L("value", {"host", "server_name"}, 1), End>>,           \* a keyword in a value
     <<Begin, L("{", {"location", "host"}, 4), End>>,
     <<Begin, L("blanks", {"host"}, 0), End>>,
     <<Begin, BeginLocation(1), L("blanks", {"redirection"}, 0), End, End>>,
     <<Begin, L("value", {"allow_methods"}, 1), End>>,                 \* unknown in this block
     <<Begin, BeginLocation(1), Set("host", 1), End, End>>,
     <<Begin, BeginLocation(3), End, End>>,
     <<Comment>>}

MCFiles == TwoBlocks \cup ThreeBlocks \cup PortZero \cup OneBlock \cup WithLocation \cup TwoLocations \cup Untidy

MCMissing == {<<0, 0, "index_file", 1>>, <<0, 0, "upload_directory", 1>>,
              <<1, 0, "error_page", 1>>, <<1, 1, "index_file", 1>>,
              <<2, 0, "root_directory", 1>>, <<0, 2, "index_file", 2>>}
MCMalformed == {<<"host", 4>>, <<"location", 3>>}
MCExtensions == {2}

H(v) == [key |-> "Host:", value |-> v]
C(v) == [key |-> "Content-Length:", value |-> v]
A(v) == [key |-> "Accept:", value |-> v]
MCHeaders == {<<>>, <<H(1)>>, <<H(2)>>, <<H(2), A(1), C(1), H(1)>>,
              <<H(1), A(NoText), C(NotANumber)>>, <<C(NotANumber), H(NoText)>>}
=============================================================================
