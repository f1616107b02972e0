------------------------------- MODULE Exchange -------------------------------
(***************************************************************************)
(* One request from its header to its response: how the status it is       *)
(* answered with comes about, when routing, the body, the script and the   *)
(* timer may each set it, and what ResponseData::createResponse makes of   *)
(* it. The descriptors and filters behind these steps are in WebServer, the*)
(* bytes of the body in RequestReader.                                     *)
(***************************************************************************)
EXTENDS Routing

CONSTANTS Servers,      \* the sequences of location blocks a server may have
          Requests,     \* the requests clients send
          ErrorPages,   \* the error pages of the server, in their order
          RootDigits,   \* the statuses whose digits are in the path to them
          MissingPages  \* the statuses whose default page cannot be read

ASSUME ServersAssumption == Servers \subseteq Seq(Location)
ASSUME RequestsAssumption == Requests \subseteq HttpRequest

(* The statuses with an error page. A page is the set of those whose digits*)
(* its file name contains, and what the disk holds: no regular file (any   *)
(* more), or one that opens or not.                                        *)
HasPage == {400, 403, 404, 405, 408, 413, 500, 504, 505}
Page == [name : SUBSET HasPage, disk : {"missing", "readable", "unreadable"}]

ASSUME PagesAssumption == ErrorPages \in Seq(Page) /\ RootDigits \subseteq HasPage

VARIABLES
    server,     \* _specificServer
    request,    \* what the header says
    req,        \* the Request: the verdict on the header, and _httpStatus
    done,       \* _doneParsing
    hasDelete,  \* _formDataHasDelete
    cgiBody,    \* _cgiBody is not empty
    pipes,      \* the pipes of the script that may still have an event
    phase,      \* the event the request waits for next
    response    \* _fullResponse: the responses appended to it

vars == <<server, request, req, done, hasDelete, cgiBody, pipes, phase, response>>

(* No constructor sets _formDataHasDelete: it has any value.               *)
Init ==
    /\ server \in Servers /\ request \in Requests
    /\ req = Unmatched(0)
    /\ done = FALSE
    /\ hasDelete \in BOOLEAN
    /\ cgiBody = FALSE
    /\ pipes = {}
    /\ phase = "header"
    /\ response = <<>>

-----------------------------------------------------------------------------
(* readRequest after a piece of the request that leaves it as q, complete  *)
(* or not: answer, go on reading, or start the script. createPipes may fail*)
(* with or without a filter for the script's input, and a DELETE only      *)
(* removes the file; then the timer is left to answer.                     *)
StartCgi(q) ==
    \/ /\ request.method \in {"GET", "POST"} /\ phase' = "script" /\ req' = q
       /\ pipes' = {"in", "out"}
    \/ /\ request.method \in {"GET", "POST"} /\ phase' = "timer"
       /\ req' = [q EXCEPT !.status = 500, !.isCgi = FALSE]
       /\ pipes' \in {{}, {"in"}}
    \/ request.method = "DELETE" /\ phase' = "timer" /\ req' = q /\ UNCHANGED pipes

Goes(q, next) == phase' = next /\ req' = q /\ UNCHANGED pipes

AfterReadScriptFirst(q, complete) ==                               \* mutant
    \/ q.status # 200 /\ Goes(q, "answering")
    \/ q.status = 200 /\ complete /\ ~q.isCgi /\ Goes(q, "answering")
    \/ q.status = 200 /\ q.isCgi /\ StartCgi(q)
    \/ q.status = 200 /\ ~complete /\ Goes(q, "body")

AfterRead(q, complete) ==
    \/ q.status # 200 /\ Goes(q, "answering")
    \/ q.status = 200 /\ complete /\ ~q.isCgi /\ Goes(q, "answering")
    \/ q.status = 200 /\ complete /\ q.isCgi /\ StartCgi(q)
    \/ q.status = 200 /\ ~complete /\ Goes(q, "body")

(* The piece with the header's end and the first bytes of the body, whose  *)
(* length is tested whatever the status is by then.                        *)
Header ==
    /\ phase = "header"
    /\ \E q \in Verdicts(server, request), del \in BOOLEAN :
       \E s \in {400, 413, q.status} :
          /\ done' \in IF s = 413 THEN {FALSE} ELSE BOOLEAN
          /\ hasDelete' = (hasDelete \/ del)
          /\ AfterRead([q EXCEPT !.status = s], done')
    /\ UNCHANGED <<server, request, cgiBody, response>>

BodyPiece ==
    /\ phase = "body"
    /\ \/ done' \in BOOLEAN /\ AfterRead(req, done')
       \/ /\ UNCHANGED done
          /\ \E s \in {400, 413} : AfterRead([req EXCEPT !.status = s], done)
    /\ UNCHANGED <<server, request, hasDelete, cgiBody, response>>

(* Output of the script, also after the write to its input failed.         *)
ScriptOutput ==
    /\ phase \in {"script", "failed"}
    /\ cgiBody' = TRUE
    /\ UNCHANGED <<server, request, req, done, hasDelete, pipes, phase, response>>

(* The end of its output, or a read that failed, be it because the timer of*)
(* the same batch has just closed the pipe.                                *)
ScriptEnd ==
    /\ "out" \in pipes /\ phase # "sent"
    /\ pipes' = pipes \ {"out"}
    /\ phase' = "answering"
    /\ req' \in {req, [req EXCEPT !.status = 500]}
    /\ UNCHANGED <<server, request, done, hasDelete, cgiBody, response>>

(* handleTimeout, at any time until the response is created. It closes the *)
(* pipes, whose events may be in the same batch.                           *)
Timeout ==
    /\ phase # "sent"
    /\ req' = [req EXCEPT !.status = IF done THEN 504 ELSE 408]
    /\ phase' = "answering"
    /\ UNCHANGED <<server, request, done, hasDelete, cgiBody, pipes, response>>

-----------------------------------------------------------------------------
(* createResponse for a Request q. A response with the body "none" is a    *)
(* header only, one with the body "nothing" not even that.                 *)
Wire(q, s, kind, of) == [status |-> s, body |-> kind, page |-> of, location |-> q.redirect]

(* getSpecificErrorPage: the first page of the server that is there and has*)
(* the digits of the status anywhere in its path, else the default page.   *)
Suits(i, s) == s \in ErrorPages[i].name \cup RootDigits /\ ErrorPages[i].disk # "missing"
FirstPage(s) ==
    {i \in DOMAIN ErrorPages : Suits(i, s) /\ \A j \in 1 .. i - 1 : ~Suits(j, s)}
DefaultPage(s) ==
    [name |-> {s}, disk |-> IF s \in MissingPages THEN "unreadable" ELSE "readable"]
PageFor(s) == IF FirstPage(s) = {} THEN DefaultPage(s)
              ELSE ErrorPages[CHOOSE i \in FirstPage(s) : TRUE]

Readable(s) == PageFor(s).disk = "readable"
ErrorPage(q, s) == IF Readable(s) THEN Wire(q, s, "page", PageFor(s).name)
                                  ELSE Wire(q, s, "none", {})

StatusAtFirst(q) == IF hasDelete /\ ~q.deleteAllowed THEN 405 ELSE q.status

(* _responseBody is still empty: the status becomes 404 for a folder whose *)
(* path, which ends with its index file or was replaced by an error page's,*)
(* is no directory itself, else 500, and its page is the body.             *)
FallbackStatus(q, s) ==
    IF ~q.isFolder THEN {500} ELSE IF s \in HasPage THEN {404} ELSE {404, 500}
Fallback(q, s) == {ErrorPage(q, f) : f \in FallbackStatus(q, s)}

EmptyKept(q, w) == {w}                                             \* mutant
OldStatusKept(q, w) ==                                             \* mutant
    IF w.body = "none" THEN {[f EXCEPT !.status = w.status] : f \in Fallback(q, w.status)}
    ELSE {w}
OrError(q, w) == IF w.body = "none" THEN Fallback(q, w.status) ELSE {w}

(* What streamFile finds when it looks; the file may have gone since the   *)
(* header was parsed.                                                      *)
Content(q, kind, s) == {Wire(q, s, "none", {}), Wire(q, s, kind, {})}
PageIgnored(q, s) == Content(q, "file", s)                         \* mutant
PageOrFile(q, s) == IF s \in HasPage THEN {ErrorPage(q, s)} ELSE Content(q, "file", s)

IsImage(q, s) == request.target = "image" /\ s = 200 /\ ~q.isFolder /\ ~q.isCgi

(* A folder that opens gives a listing, be it empty, and the status 200.   *)
Listing(q, s) == {Wire(q, 200, "listing", {}), Wire(q, s, "none", {})}

Bodies(q, s) ==
    IF q.isFolder /\ ~q.isCgi /\ q.autoIndex THEN Listing(q, s)
    ELSE IF q.isCgi /\ s = 200 THEN {Wire(q, s, IF cgiBody THEN "script" ELSE "none", {})}
    ELSE PageOrFile(q, s)

(* setImage opens the file for reading and writing; if that fails it makes *)
(* an empty response of it, without a header.                              *)
Images(q, s) == {Wire(q, s, kind, {}) : kind \in {"image", "nothing"}}

Responses(q) ==
    LET s == StatusAtFirst(q)
    IN  CASE q.redirect -> {Wire(q, s, "none", {})}
          [] ~q.redirect /\ IsImage(q, s) -> Images(q, s)
          [] OTHER -> UNION {OrError(q, w) : w \in Bodies(q, s)}

(* An image replaces what was in _fullResponse.                            *)
FullResponse(w) == CASE w.body = "image" -> <<w>>
                     [] w.body = "nothing" -> <<>>
                     [] OTHER -> Append(response, w)

(* Mutant of PipeWriteFailed: the pipe's filter stays.                     *)
PipeWriteRepeated ==
    /\ "in" \in pipes
    /\ \E w \in Responses([req EXCEPT !.status = 500]) : response' = FullResponse(w)
    /\ UNCHANGED <<server, request, req, done, hasDelete, cgiBody, pipes, phase>>

(* A write to the script's pipe fails, while the script runs or in the     *)
(* batch in which the timer has closed the pipe: the response is created at*)
(* once, and once more by the first WRITE event of the client's socket,    *)
(* unless that has come before.                                            *)
PipeWriteFailed ==
    /\ "in" \in pipes
    /\ pipes' = pipes \ {"in"}
    /\ \E w \in Responses([req EXCEPT !.status = 500]) :
          /\ response' = FullResponse(w)
          /\ req' = [req EXCEPT !.status = w.status]
    /\ phase' = CASE phase = "script" -> "failed"
                  [] phase = "timer" -> "answering"
                  [] OTHER -> phase
    /\ UNCHANGED <<server, request, done, hasDelete, cgiBody>>

(* Mutant of Answer: what was in _fullResponse is replaced.                *)
AnswerReplaces ==
    /\ phase \in {"answering", "failed"}
    /\ \E w \in Responses(req) : response' = <<w>> /\ req' = [req EXCEPT !.status = w.status]
    /\ phase' = "sent"
    /\ UNCHANGED <<server, request, done, hasDelete, cgiBody, pipes>>

(* The first WRITE event of the client's socket.                           *)
Answer ==
    /\ phase \in {"answering", "failed"}
    /\ \E w \in Responses(req) :
          /\ response' = FullResponse(w)
          /\ req' = [req EXCEPT !.status = w.status]
    /\ phase' = "sent"
    /\ UNCHANGED <<server, request, done, hasDelete, cgiBody, pipes>>

Next ==
    \/ Header \/ BodyPiece \/ ScriptOutput \/ ScriptEnd \/ PipeWriteFailed
    \/ Timeout \/ Answer

Spec == Init /\ [][Next]_vars

-----------------------------------------------------------------------------
WireType ==
    [status : HasPage \cup {200, 301}, page : SUBSET HasPage, location : BOOLEAN,
     body : {"none", "nothing", "page", "file", "image", "listing", "script"}]

(* Every variable keeps its type, and nobody is sent more than the two     *)
(* responses a failed write to a script's pipe leads to.                   *)
TypeOK ==
    /\ server \in Servers /\ request \in Requests
    /\ req \in Verdict
    /\ done \in BOOLEAN /\ hasDelete \in BOOLEAN /\ cgiBody \in BOOLEAN
    /\ pipes \subseteq {"in", "out"}
    /\ phase \in {"header", "body", "script", "failed", "timer", "answering", "sent"}
    /\ response \in Seq(WireType) /\ Len(response) <= 2

Sent == {response[i] : i \in DOMAIN response}
Allowed == req.block = 0 \/ request.method \in server[req.block].methods

(* Whatever the body, the script, the pages and the timer do in between, a *)
(* method the location block does not list never starts a script and never *)
(* gets a file, an image or a script's output (checkMethods against the    *)
(* many places that set the status after it).                              *)
ContentOnlyIfAllowed ==
    (phase = "script" \/ \E w \in Sent : w.body \in {"file", "image", "script"}) => Allowed

(* A status of 400 and above is final, whichever of the header, the body,  *)
(* the script and the timer set it: it may become another error but never  *)
(* a success, and no content goes out with it. createResponse makes one    *)
(* exception, for folders that are listed.                                 *)
ErrorKept ==
    (req.status >= 400 /\ ~(req.isFolder /\ req.autoIndex)) =>
       /\ req'.status >= 400
       /\ phase' = "sent" => response'[Len(response')].body \in {"none", "page"}

ErrorsWin == [][ErrorKept]_vars

(* A client gets a header without a body only if it is redirected or the   *)
(* page of the status cannot be read: files that have gone and scripts that*)
(* write nothing become an error with a page. It gets nothing at all, not  *)
(* even a header, only if it was accepted and asked for an image.          *)
NoEmptyAnswer ==
    /\ \A w \in Sent : w.body = "none" => w.location \/ ~Readable(w.status)
    /\ (phase = "sent" /\ response = <<>>) => IsImage(req, req.status) /\ ~req.redirect

(* The page a client reads has the status line's digits in its name or in  *)
(* the path to it, however often createResponse changed the status and     *)
(* looked for a page.                                                      *)
RightPage == \A w \in Sent : w.body = "page" => w.status \in w.page \cup RootDigits

Loop == INSTANCE RequestState WITH HasCgi <- TRUE

(* What the event loop knows of this request.                              *)
Known ==
    [headerDone |-> phase # "header", isCgi |-> req.isCgi, done |-> done,
     status |-> IF req.status \in {0, 200} THEN "OK" ELSE "ERROR", responses |-> Len(response)]

(* r is what the loop may expect, and does with r what is done here.       *)
LoopContinues(r) ==
    \/ Loop!Answerable(r) /\ Known' = r /\ phase' = "answering"
    \/ Loop!StartsCgi(r) /\ Known' = r /\ phase' \in {"script", "timer"}
    \/ /\ Loop!StartsCgi(r) /\ phase' = "timer"
       /\ Known' = [r EXCEPT !.status = "ERROR", !.isCgi = FALSE]
    \/ ~Loop!Answerable(r) /\ ~r.done /\ Known' = r /\ phase' = "body"

Routed == phase \in {"header", "body"} => \E r \in Loop!Parsed(Known) : LoopContinues(r)

(* Whatever the header says and the disk holds, routing and the body make  *)
(* of the request one the event loop allows for (Parsed), and what happens *)
(* next is decided by what the loop tests in readRequest.                  *)
RoutedAsTheLoopExpects == [][Routed]_vars

Responded ==
    (response' # response \/ (phase' = "sent" /\ phase # "sent")) =>
       \E r \in Loop!CreateResponse(Known) : r.responses = Len(response')

(* The loop counts the responses in _fullResponse as createResponse leaves *)
(* them, whichever of its exits it takes and whatever was there before:    *)
(* none at all only for an image.                                          *)
RespondsAsTheLoopExpects == [][Responded]_vars

(* RequestParserURLpath.cpp:473 when the block does not list the method:   *)
(* "Location does not accept the Method - 405 Method not allowed will be   *)
(* returned".                                                              *)
NotAllowedIsRejected ==
    (phase = "sent" /\ ~Allowed) => \A w \in Sent : w.location \/ w.status >= 400
=============================================================================
