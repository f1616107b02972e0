------------------------------- MODULE Routing -------------------------------
(***************************************************************************)
(* Which location block a request is given and what the header alone makes *)
(* of it: setSpecificServer, storeWordsFromFirstLine and                   *)
(* checkIfPathCanBeServed with the parsePath functions it calls.           *)
(*                                                                         *)
(* A path is abstracted to its kind, a location block to the URIs it stands*)
(* for and to what the disk holds where it would look for the request.     *)
(***************************************************************************)
EXTENDS Integers, Sequences

Methods == {"GET", "POST", "DELETE"}

(* "/": the root. "folder": ends with a slash, below the folder of the     *)
(* "dir" locations, as are "page", "image" and "script" (without a query). *)
(* "top": a page directly below the root. "query": a script with a query.  *)
(* "internal": below a folder whose name starts with _. "other": nothing of*)
(* the first line is kept, because it has more than three words.           *)
Target == {"/", "folder", "page", "image", "script", "top", "query", "internal", "other"}

HttpRequest ==
    {r \in [method : Methods \cup {"NONE"}, versionOk : BOOLEAN, target : Target] :
        r.target = "other" => r.method = "NONE" /\ r.versionOk}

(* uri: the root, the folder, or the extension of CGI scripts. disk: what  *)
(* the requested file is, or for a folder its index file; "NOTHING" if not *)
(* even the folder is there.                                               *)
Location == [uri : {"/", "dir", "ext"}, methods : SUBSET Methods,
             autoIndex : BOOLEAN, redirect : BOOLEAN,
             disk : {"REG", "NOPERM", "MISSING", "NOTHING"}]

IsFile(loc) == loc.disk \in {"REG", "NOPERM"}
IsFolder(target) == target \in {"/", "folder"}

(* parsePath_file for a page, an image or a script without a query. Only a *)
(* GET looks for the folder, only a CGI location for the extension.        *)
MatchesFile(loc, r) ==
    /\ IsFile(loc)
    /\ \/ /\ loc.uri # "ext" /\ r.method = "GET"
          /\ \/ loc.uri = "dir" /\ r.target \in {"page", "image", "script"}
             \/ loc.uri = "/" /\ r.target = "top"
       \/ loc.uri = "ext" /\ r.target = "script"

MatchesQuery(loc, r) == r.target = "query" /\ loc.uri = "ext" /\ IsFile(loc)

MatchesFolder(loc, r) == \/ r.target = "/" /\ loc.uri = "/"
                         \/ r.target = "folder" /\ loc.uri = "dir"

Matches(loc, r) == MatchesFile(loc, r) \/ MatchesQuery(loc, r) \/ MatchesFolder(loc, r)

(* parsePath_locationMatch stops at the first block that matches; a request*)
(* the first line has already rejected looks for an error page instead, on *)
(* a path no block matches.                                                *)
FirstMatch(server, r) ==
    {i \in DOMAIN server : /\ Matches(server[i], r)
                           /\ \A j \in 1 .. i - 1 : ~Matches(server[j], r)}

FirstLineStatus(r) == IF ~r.versionOk THEN 505
                      ELSE IF r.method = "NONE" /\ r.target # "other" THEN 405 ELSE 0

(* A script the location's CGI block stands for.                           *)
IsScript(loc, r) == loc.uri = "ext" /\ r.target \in {"script", "query"}

(* parsePath_root and parsePath_dir: no index file and no listing is 403.  *)
(* The root is a folder whatever the disk says, any other path only if it  *)
(* is one and the block does not redirect.                                 *)
IsServedFolder(loc, r) ==
    r.target = "/" \/ (r.target = "folder" /\ ~loc.redirect /\ loc.disk # "NOTHING")
Listed(loc, r) == IsServedFolder(loc, r) /\ loc.disk # "REG" /\ loc.autoIndex
FolderStatus(loc, r) ==
    IF IsServedFolder(loc, r) /\ loc.disk # "REG" /\ ~loc.autoIndex THEN 403 ELSE 0

(* checkIfPathExists. A script below a folder was matched by its name at   *)
(* the block's root and may still be missing in the folder.                *)
PathStatus(loc, r) ==
    CASE r.target = "script" /\ loc.uri = "dir" -> {200, 403, 404}
      [] loc.disk = "REG" -> {200}
      [] loc.disk = "NOPERM" -> {403}
      [] OTHER -> {404}

MethodUnchecked(loc, r, status) == status                          \* mutant
CheckMethods(loc, r, status) == IF r.method \in loc.methods THEN status ELSE 405
CheckRedirection(loc, status) == IF loc.redirect THEN 301 ELSE status

(* What the header makes of a request. block is the number of the location *)
(* block it is given, 0 for none.                                          *)
Verdict == [status : Nat, block : Nat, isCgi : BOOLEAN, isFolder : BOOLEAN,
            autoIndex : BOOLEAN, redirect : BOOLEAN, deleteAllowed : BOOLEAN]

Unmatched(s) ==
    [status |-> s, block |-> 0, isCgi |-> FALSE, isFolder |-> FALSE,
     autoIndex |-> FALSE, redirect |-> FALSE, deleteAllowed |-> FALSE]

(* The order in which a block that matches sets the status: 403, 405, 301, *)
(* and only if there is none of them the file is looked for.               *)
Matched(i, loc, r) ==
    LET checked == CheckRedirection(loc, CheckMethods(loc, r, FolderStatus(loc, r)))
    IN  {[status |-> s, block |-> i, isCgi |-> IsScript(loc, r),
          isFolder |-> IsServedFolder(loc, r), autoIndex |-> Listed(loc, r),
          redirect |-> loc.redirect, deleteAllowed |-> "DELETE" \in loc.methods] :
             s \in IF checked = 0 THEN PathStatus(loc, r) ELSE {checked}}

(* parseHeaderAndPath. The status of a first line that was rejected stays; *)
(* an internal path is looked for below the server's root, where it may be *)
(* or not.                                                                 *)
Verdicts(server, r) ==
    IF FirstLineStatus(r) # 0 THEN {Unmatched(FirstLineStatus(r))}
    ELSE IF FirstMatch(server, r) # {}
         THEN UNION {Matched(i, server[i], r) : i \in FirstMatch(server, r)}
    ELSE {Unmatched(s) : s \in IF r.target = "internal" THEN {200, 403, 404} ELSE {404}}
=============================================================================
