--------------------------- MODULE Exchange_proofs ---------------------------
(***************************************************************************)
(* For every server, every request and every configuration of error pages: *)
(* a method the location block does not list gets no content, an error     *)
(* stays an error, and what a Request becomes is what the event loop allows*)
(* for.                                                                    *)
(***************************************************************************)
EXTENDS Exchange, TLAPS

(* The methods of the block a verdict names. *)
MayServe(q) == q.block = 0 \/ request.method \in server[q.block].methods

(* The statuses createResponse can be run with. *)
Settled(q) == q.status \in HasPage \cup {200} \/ (q.redirect /\ q.status = 301)

ContentKinds == {"file", "image", "script"}

(* What makes the two properties inductive: a status of 200 stands for a   *)
(* method that is allowed until the response is created, and every status  *)
(* but 200 and that of a redirection has a page.                           *)
ExchangeInv ==
    /\ TypeOK
    /\ phase \in {"header", "body", "script", "timer"} => response = <<>>
    /\ phase # "sent" => Len(response) <= 1
    /\ phase = "header" => req.status = 0
    /\ phase # "header" => Settled(req)
    /\ phase = "body" => req.status = 200
    /\ (phase # "sent" /\ req.status = 200) => MayServe(req)
    /\ phase = "script" => MayServe(req)
    /\ phase \in {"header", "body"} => pipes = {}
    /\ "in" \in pipes => /\ MayServe(req)
                         /\ phase # "sent" => response = <<>>
                         /\ Len(response) <= 1
    /\ \A w \in Sent : w.body \in ContentKinds => MayServe(req)

-----------------------------------------------------------------------------
(* What routing gives a request with the status 200 is a block that lists  *)
(* its method, or none.                                                    *)
LEMMA VerdictsAllowed ==
    ASSUME server \in Seq(Location), NEW q \in Verdicts(server, request)
    PROVE  q \in Verdict /\ Settled(q) /\ (q.status = 200 => MayServe(q))
<1>1. ASSUME NEW s \in {200, 403, 404, 405, 505}, q = Unmatched(s)
      PROVE  q \in Verdict /\ Settled(q) /\ MayServe(q)
  BY <1>1 DEF Unmatched, Verdict, Settled, MayServe, HasPage
<1>2. ASSUME NEW i \in FirstMatch(server, request), q \in Matched(i, server[i], request)
      PROVE  q \in Verdict /\ Settled(q) /\ (q.status = 200 => MayServe(q))
  <2> DEFINE loc == server[i]
             folder == FolderStatus(loc, request)
             method == CheckMethods(loc, request, folder)
             checked == CheckRedirection(loc, method)
  <2>1. i \in Nat /\ loc \in Location
    BY DEF FirstMatch
  <2>2. folder \in {0, 403}
    BY DEF FolderStatus
  <2>3. method \in {0, 403, 405} /\ (method = 0 => request.method \in loc.methods)
    BY <2>2 DEF CheckMethods
  <2>4. /\ checked \in {0, 301, 403, 405}
        /\ checked = 0 => method = 0
        /\ checked = 301 => loc.redirect
    BY <2>3 DEF CheckRedirection
  <2>5. PathStatus(loc, request) \subseteq {200, 403, 404}
    BY DEF PathStatus
  <2>6. PICK s \in IF checked = 0 THEN PathStatus(loc, request) ELSE {checked} :
           q = [status |-> s, block |-> i, isCgi |-> IsScript(loc, request),
                isFolder |-> IsServedFolder(loc, request), autoIndex |-> Listed(loc, request),
                redirect |-> loc.redirect, deleteAllowed |-> "DELETE" \in loc.methods]
    BY <1>2 DEF Matched
  <2>7. /\ s \in {200, 301, 403, 404, 405}
        /\ s = 301 => loc.redirect
        /\ s = 200 => request.method \in loc.methods
    BY <2>3, <2>4, <2>5
  <2>8. /\ loc.redirect \in BOOLEAN /\ loc.autoIndex \in BOOLEAN
        /\ IsScript(loc, request) \in BOOLEAN /\ IsServedFolder(loc, request) \in BOOLEAN
        /\ Listed(loc, request) \in BOOLEAN /\ ("DELETE" \in loc.methods) \in BOOLEAN
    BY <2>1 DEF Location, IsScript, IsServedFolder, Listed
  <2>9. q \in Verdict
    BY <2>1, <2>6, <2>7, <2>8 DEF Verdict
  <2>10. q.status = s /\ q.block = i /\ q.redirect = loc.redirect
    BY <2>6
  <2> QED
    BY <2>7, <2>9, <2>10 DEF Settled, MayServe, HasPage
<1>3. FirstLineStatus(request) \in {0, 405, 505}
  BY DEF FirstLineStatus
<1>4. CASE FirstLineStatus(request) # 0
  BY <1>1, <1>3, <1>4 DEF Verdicts
<1>5. CASE FirstLineStatus(request) = 0 /\ FirstMatch(server, request) # {}
  BY <1>2, <1>5 DEF Verdicts
<1>6. CASE FirstLineStatus(request) = 0 /\ FirstMatch(server, request) = {}
  BY <1>1, <1>6 DEF Verdicts
<1> QED
  BY <1>4, <1>5, <1>6

(* createResponse gives content to a Request with the status 200 only.     *)
LEMMA ContentOfOk ==
    ASSUME NEW q \in Verdict, Settled(q), NEW w \in Responses(q), w.body \in ContentKinds
    PROVE  q.status = 200
<1>1. ASSUME NEW k, NEW s, NEW p PROVE Wire(q, s, k, p).body = k
  BY DEF Wire
<1>2. ASSUME NEW f, NEW s, f \in Fallback(q, s) \cup {ErrorPage(q, s)}
      PROVE  f.body \in {"none", "page"}
  BY <1>1, <1>2 DEF ErrorPage, Fallback
<1> DEFINE s == StatusAtFirst(q)
<1>3. s \in {405, q.status}
  BY DEF StatusAtFirst
<1>4. CASE q.redirect
  BY <1>1, <1>4 DEF Responses, ContentKinds
<1>5. CASE ~q.redirect /\ IsImage(q, s)
  BY <1>3, <1>5 DEF IsImage
<1>6. CASE ~q.redirect /\ ~IsImage(q, s)
  <2>1. PICK v \in Bodies(q, s) : w \in OrError(q, v)
    BY <1>6 DEF Responses
  <2>2. v.body \in ContentKinds
    BY <1>2, <2>1 DEF OrError, ContentKinds
  <2> DEFINE listed == q.isFolder /\ ~q.isCgi /\ q.autoIndex
  <2>3. CASE listed
    BY <1>1, <2>1, <2>2, <2>3 DEF Bodies, Listing, ContentKinds
  <2>4. CASE ~listed /\ q.isCgi /\ s = 200
    BY <1>3, <2>4
  <2>5. CASE ~listed /\ ~(q.isCgi /\ s = 200)
    <3>1. v \in PageOrFile(q, s)
      BY <2>1, <2>5 DEF Bodies
    <3>2. s \notin HasPage
      BY <1>2, <2>2, <3>1 DEF PageOrFile, ContentKinds
    <3> QED
      BY <1>3, <1>6, <3>2 DEF Settled, HasPage
  <2> QED
    BY <2>3, <2>4, <2>5
<1> QED
  BY <1>4, <1>5, <1>6

(* A Request with an error status is answered with an error and its page,  *)
(* or with the header alone, unless it is a folder that is listed.         *)
LEMMA ErrorOfError ==
    ASSUME NEW q \in Verdict, q.status \in HasPage, ~(q.isFolder /\ q.autoIndex),
           NEW w \in Responses(q)
    PROVE  w.status \in HasPage /\ w.body \in {"none", "page"}
<1>1. ASSUME NEW k, NEW s, NEW p PROVE Wire(q, s, k, p).body = k /\ Wire(q, s, k, p).status = s
  BY DEF Wire
<1>2. ASSUME NEW s \in HasPage
      PROVE  ErrorPage(q, s).body \in {"none", "page"} /\ ErrorPage(q, s).status \in HasPage
  BY <1>1 DEF ErrorPage
<1>6. FallbackStatus(q, StatusAtFirst(q)) \subseteq HasPage
  BY DEF FallbackStatus, HasPage
<1> DEFINE s == StatusAtFirst(q)
<1>3. s \in HasPage /\ s # 200
  BY DEF StatusAtFirst, HasPage
<1>4. CASE q.redirect
  BY <1>1, <1>3, <1>4 DEF Responses
<1>5. CASE ~q.redirect
  <2>1. ~IsImage(q, s)
    BY <1>3 DEF IsImage
  <2>2. PICK v \in Bodies(q, s) : w \in OrError(q, v)
    BY <1>5, <2>1 DEF Responses
  <2>3. v = ErrorPage(q, s)
    BY <1>3, <2>2 DEF Bodies, PageOrFile
  <2>4. v.status = s
    BY <1>1, <2>3 DEF ErrorPage
  <2> HIDE DEF s
  <2>5. w = v \/ \E f \in FallbackStatus(q, s) : w = ErrorPage(q, f)
    BY <2>2, <2>4 DEF OrError, Fallback
  <2> QED
    BY <1>2, <1>3, <1>6, <2>3, <2>5 DEF s
<1> QED
  BY <1>4, <1>5

-----------------------------------------------------------------------------
LEMMA StatusChanged ==
    ASSUME NEW q \in Verdict, NEW s \in Nat
    PROVE  /\ [q EXCEPT !.status = s] \in Verdict
           /\ [q EXCEPT !.status = s].status = s
           /\ MayServe([q EXCEPT !.status = s]) <=> MayServe(q)
           /\ [q EXCEPT !.status = s].redirect = q.redirect
           /\ [q EXCEPT !.status = s].isFolder = q.isFolder
           /\ [q EXCEPT !.status = s].autoIndex = q.autoIndex
<1> DEFINE r == [q EXCEPT !.status = s]
<1>1. r \in Verdict /\ r.status = s
  BY DEF Verdict
<1>2. r.block = q.block
  BY DEF Verdict
<1>3. r.redirect = q.redirect /\ r.isFolder = q.isFolder /\ r.autoIndex = q.autoIndex
  BY DEF Verdict
<1> HIDE DEF r
<1>4. MayServe(r) <=> MayServe(q)
  BY <1>2 DEF MayServe
<1> QED
  BY <1>1, <1>3, <1>4 DEF r

(* What readRequest makes of a Request whose status is settled.            *)
LEMMA AfterReadKeeps ==
    ASSUME NEW q \in Verdict, Settled(q), q.status = 200 => MayServe(q),
           NEW complete \in BOOLEAN, AfterRead(q, complete), UNCHANGED <<server, request>>
    PROVE  /\ req' \in Verdict /\ Settled(req')
           /\ phase' \in {"body", "script", "timer", "answering"}
           /\ phase' = "body" => req'.status = 200
           /\ req'.status = 200 => MayServe(req')
           /\ phase' = "script" => MayServe(req')
           /\ q.status >= 400 => req'.status >= 400
           /\ pipes' \subseteq {"in", "out"} \/ pipes' = pipes
           /\ pipes' = pipes \/ (phase' \notin {"header", "body"} /\ MayServe(req'))
<1> DEFINE failed == [q EXCEPT !.status = 500, !.isCgi = FALSE]
<1>1. failed \in Verdict /\ failed.status = 500
  <2> DEFINE late == [q EXCEPT !.status = 500]
  <2>1. late \in Verdict /\ late.status = 500
    BY StatusChanged
  <2>2. failed = [late EXCEPT !.isCgi = FALSE]
    OBVIOUS
  <2> HIDE DEF late
  <2>3. [late EXCEPT !.isCgi = FALSE] \in Verdict
    BY <2>1 DEF Verdict
  <2>4. [late EXCEPT !.isCgi = FALSE].status = 500
    BY <2>1 DEF Verdict
  <2> QED
    BY <2>2, <2>3, <2>4
<1>2. Settled(failed)
  BY <1>1 DEF Settled, HasPage
<1>6. failed.block = q.block
  BY DEF Verdict
<1>7. MayServe(failed) <=> MayServe(q)
  <2> HIDE DEF failed
  <2> QED
    BY <1>6 DEF MayServe
<1>3. \/ req' = q /\ phase' \in {"answering", "timer"} /\ pipes' = pipes
      \/ req' = q /\ q.status = 200 /\ phase' = "body" /\ pipes' = pipes
      \/ req' = q /\ q.status = 200 /\ phase' = "script" /\ pipes' = {"in", "out"}
      \/ /\ req' = failed /\ q.status = 200 /\ phase' = "timer"
         /\ pipes' \in {{}, {"in"}}
  BY DEF AfterRead, StartCgi, Goes
<1>4. CASE req' = q
  BY <1>1, <1>2, <1>3, <1>4
<1>5. CASE req' = failed /\ q.status = 200 /\ phase' = "timer" /\ pipes' \in {{}, {"in"}}
  <2> HIDE DEF failed
  <2> QED
    BY <1>1, <1>2, <1>5, <1>7
<1> QED
  BY <1>3, <1>4, <1>5

(* The page of a status is one of the server's, or the default one, and has*)
(* its digits in its name or in the path to it.                            *)
LEMMA PageForStatus ==
    ASSUME NEW s \in HasPage
    PROVE  PageFor(s) \in Page /\ s \in PageFor(s).name \cup RootDigits
<1>1. CASE FirstPage(s) = {}
  BY <1>1 DEF PageFor, DefaultPage, Page
<1>2. CASE FirstPage(s) # {}
  <2> DEFINE i == CHOOSE i \in FirstPage(s) : TRUE
  <2>1. i \in FirstPage(s)
    BY <1>2
  <2>2. i \in DOMAIN ErrorPages /\ Suits(i, s)
    BY <2>1 DEF FirstPage
  <2>3. PageFor(s) = ErrorPages[i]
    BY <1>2 DEF PageFor
  <2> HIDE DEF i
  <2> QED
    BY <2>2, <2>3, PagesAssumption DEF Suits
<1> QED
  BY <1>1, <1>2

(* What createResponse appends has its type, and only a redirection has    *)
(* the status 301.                                                         *)
LEMMA WireTyped ==
    ASSUME NEW q \in Verdict, Settled(q), NEW w \in Responses(q)
    PROVE  w \in WireType /\ (w.status = 301 => q.redirect)
<1> DEFINE Statuses == HasPage \cup {200, 301}
           Kinds == {"none", "nothing", "page", "file", "image", "listing", "script"}
<1>0. q.redirect \in BOOLEAN
  BY DEF Verdict
<1>1. ASSUME NEW k \in Kinds, NEW s \in Statuses, NEW p \in SUBSET HasPage
      PROVE  Wire(q, s, k, p) \in WireType /\ Wire(q, s, k, p).status = s
  BY <1>0 DEF Wire, WireType
<1>2. ASSUME NEW s \in HasPage PROVE ErrorPage(q, s) \in WireType /\ ErrorPage(q, s).status = s
  <2>1. PageFor(s).name \in SUBSET HasPage
    BY PageForStatus DEF Page
  <2> QED
    BY <1>1, <2>1 DEF ErrorPage
<1> DEFINE s == StatusAtFirst(q)
<1>3. s \in Statuses /\ (s = 301 => q.redirect)
  BY DEF StatusAtFirst, Settled, HasPage
<1>4. CASE q.redirect
  BY <1>1, <1>3, <1>4 DEF Responses
<1>5. CASE ~q.redirect /\ IsImage(q, s)
  <2>1. PICK k \in Kinds : w = Wire(q, s, k, {})
    BY <1>5 DEF Responses, Images
  <2> QED
    BY <1>1, <1>3, <2>1
<1>6. CASE ~q.redirect /\ ~IsImage(q, s)
  <2>1. PICK v \in Bodies(q, s) : w \in OrError(q, v)
    BY <1>6 DEF Responses
  <2> DEFINE listed == q.isFolder /\ ~q.isCgi /\ q.autoIndex
  <2>2. v \in WireType /\ v.status \in {200, s}
    <3>1. CASE listed
      BY <1>1, <1>3, <2>1, <3>1 DEF Bodies, Listing
    <3>2. CASE ~listed /\ q.isCgi /\ s = 200
      BY <1>1, <1>3, <2>1, <3>2 DEF Bodies
    <3>3. CASE ~listed /\ ~(q.isCgi /\ s = 200) /\ s \in HasPage
      BY <1>2, <2>1, <3>3 DEF Bodies, PageOrFile
    <3>4. CASE ~listed /\ ~(q.isCgi /\ s = 200) /\ s \notin HasPage
      BY <1>1, <1>3, <2>1, <3>4 DEF Bodies, PageOrFile, Content
    <3> QED
      BY <3>1, <3>2, <3>3, <3>4
  <2>3. 404 \in HasPage /\ 500 \in HasPage
    BY DEF HasPage
  <2>4. w \in WireType /\ w.status \in {200, s, 404, 500}
    <3>1. FallbackStatus(q, v.status) \subseteq {404, 500}
      BY DEF FallbackStatus
    <3>2. w = v \/ \E f \in {404, 500} : w = ErrorPage(q, f)
      BY <2>1, <3>1 DEF OrError, Fallback
    <3> QED
      BY <1>2, <2>2, <2>3, <3>2
  <2> QED
    BY <1>3, <1>6, <2>4
<1> QED
  BY <1>4, <1>5, <1>6

-----------------------------------------------------------------------------
LEMMA InitExchange == Init => ExchangeInv
<1> SUFFICES ASSUME Init PROVE ExchangeInv
  OBVIOUS
<1>1. req \in Verdict /\ req.status = 0
  BY DEF Init, Unmatched, Verdict
<1>2. Sent = {} /\ response \in Seq(WireType) /\ Len(response) = 0
  BY DEF Init, Sent
<1>4. phase = "header" /\ response = <<>>
  BY DEF Init
<1>5. done \in BOOLEAN /\ hasDelete \in BOOLEAN /\ cgiBody \in BOOLEAN
  BY Zenon DEF Init
<1>6. server \in Servers /\ request \in Requests
  BY DEF Init
<1>7. pipes = {}
  BY DEF Init
<1>3. TypeOK
  BY <1>1, <1>2, <1>4, <1>5, <1>6, <1>7 DEF TypeOK
<1> QED
  BY <1>1, <1>2, <1>3, <1>4, <1>7 DEF ExchangeInv

(* A response is appended, or an image replaces what is there.             *)
LEMMA SentGrows ==
    ASSUME response \in Seq(WireType), NEW w \in WireType, response' = FullResponse(w)
    PROVE  /\ response' \in Seq(WireType)
           /\ \/ Len(response') = Len(response) + 1
              \/ w.body \in {"image", "nothing"} /\ Len(response') \in {0, 1}
           /\ w.body # "nothing" => response' # <<>> /\ response'[Len(response')] = w
           /\ Sent' \subseteq Sent \cup {w}
<1>1. CASE w.body = "image"
  <2>1. response' = <<w>>
    BY <1>1 DEF FullResponse
  <2> QED
    BY <1>1, <2>1 DEF Sent
<1>3. CASE w.body = "nothing"
  <2>1. response' = <<>>
    BY <1>3 DEF FullResponse
  <2> QED
    BY <1>3, <2>1 DEF Sent
<1>2. CASE response' = Append(response, w)
  <2>1. /\ response' \in Seq(WireType) /\ Len(response') = Len(response) + 1
        /\ response'[Len(response')] = w
        /\ \A i \in 1 .. Len(response) : response'[i] = response[i]
    BY <1>2
  <2>2. \A i \in DOMAIN response' : i \in 1 .. Len(response) \/ i = Len(response')
    BY <2>1
  <2> QED
    BY <2>1, <2>2 DEF Sent
<1> QED
  BY <1>1, <1>2, <1>3 DEF FullResponse

(* The steps before the response: the status is that of AfterRead, and     *)
(* nothing has been appended yet.                                          *)
LEMMA ReadKeeps ==
    ASSUME ExchangeInv, phase \in {"header", "body"},
           NEW q \in Verdict, Settled(q), q.status = 200 => MayServe(q),
           req.status >= 400 => q.status >= 400,
           NEW complete \in BOOLEAN, AfterRead(q, complete),
           UNCHANGED <<server, request, cgiBody, response>>,
           done' \in BOOLEAN, hasDelete' \in BOOLEAN
    PROVE  ExchangeInv' /\ ErrorKept
<1>1. /\ req' \in Verdict /\ Settled(req')
      /\ phase' \in {"body", "script", "timer", "answering"}
      /\ phase' = "body" => req'.status = 200
      /\ req'.status = 200 => MayServe(req')
      /\ phase' = "script" => MayServe(req')
      /\ q.status >= 400 => req'.status >= 400
      /\ pipes' \subseteq {"in", "out"} \/ pipes' = pipes
      /\ pipes' = pipes \/ (phase' \notin {"header", "body"} /\ MayServe(req'))
  BY AfterReadKeeps
<1>2. /\ response = <<>> /\ Len(response) = 0 /\ response' = response
      /\ pipes = {} /\ pipes' \subseteq {"in", "out"}
  BY <1>1 DEF ExchangeInv
<1>3. TypeOK'
  BY <1>1, <1>2 DEF ExchangeInv, TypeOK
<1>4. Sent' = {}
  BY <1>2 DEF Sent
<1>5. MayServe(req)' <=> MayServe(req')
  BY DEF MayServe
<1>6. Settled(req)' <=> Settled(req')
  BY DEF Settled
<1>7. ExchangeInv'
  BY <1>1, <1>2, <1>3, <1>4, <1>5, <1>6 DEF ExchangeInv
<1>8. ErrorKept
  BY <1>1 DEF ErrorKept
<1> QED
  BY <1>7, <1>8

(* A step that only changes the status and does not answer.                *)
LEMMA StatusKeeps ==
    ASSUME ExchangeInv, phase # "sent",
           NEW s \in HasPage \cup {req.status}, phase # "header" \/ s # req.status,
           req' = [req EXCEPT !.status = s],
           s # 200 \/ MayServe(req),
           req.status >= 400 => s >= 400,
           phase' \in {"answering", phase}, phase' \notin {"header", "body"},
           UNCHANGED <<server, request, response, done, hasDelete>>, cgiBody' \in BOOLEAN,
           pipes' \subseteq pipes
    PROVE  ExchangeInv' /\ ErrorKept
<1>1. req \in Verdict /\ s \in Nat
  BY DEF ExchangeInv, TypeOK, Verdict, HasPage
<1>2. /\ req' \in Verdict /\ req'.status = s
      /\ MayServe(req') <=> MayServe(req)
      /\ req'.redirect = req.redirect
  BY <1>1, StatusChanged
<1>3. (MayServe(req)' <=> MayServe(req')) /\ (Settled(req)' <=> Settled(req'))
  BY DEF MayServe, Settled
<1>4. TypeOK' /\ Sent' = Sent
  BY <1>2 DEF ExchangeInv, TypeOK, Sent
<1>5. Settled(req')
  <2>1. CASE s \in HasPage
    BY <1>2, <2>1 DEF Settled
  <2>2. CASE s = req.status /\ phase # "header"
    BY <1>2, <2>2 DEF ExchangeInv, Settled
  <2> QED
    BY <2>1, <2>2
<1>6. ExchangeInv'
  BY <1>2, <1>3, <1>4, <1>5 DEF ExchangeInv
<1>7. ErrorKept
  BY <1>2 DEF ErrorKept
<1> QED
  BY <1>6, <1>7

(* createResponse for a Request q with the block and the method of req.    *)
LEMMA ResponseKeeps ==
    ASSUME ExchangeInv,
           NEW q \in Verdict, Settled(q), MayServe(q) <=> MayServe(req),
           q.status = 200 => MayServe(req),
           req.status >= 400 => q.status \in HasPage,
           (q.isFolder /\ q.autoIndex) <=> (req.isFolder /\ req.autoIndex),
           NEW w \in Responses(q), response' = FullResponse(w),
           req' = [q EXCEPT !.status = w.status],
           Len(response) <= 1, pipes' \subseteq pipes,
           \/ phase' = "sent" /\ (phase = "sent" => "in" \notin pipes')
           \/ /\ phase' \in {"failed", "answering"} /\ response = <<>>
              /\ "in" \notin pipes' /\ MayServe(req),
           UNCHANGED <<server, request, done, hasDelete, cgiBody>>
    PROVE  ExchangeInv' /\ ErrorKept
<1>1. w \in WireType /\ w.status \in HasPage \cup {200, 301} /\ (w.status = 301 => q.redirect)
  <2>1. w \in WireType /\ (w.status = 301 => q.redirect)
    BY WireTyped
  <2> QED
    BY <2>1 DEF WireType
<1>2. w.status \in Nat
  BY <1>1 DEF HasPage
<1>3. /\ req' \in Verdict /\ req'.status = w.status
      /\ MayServe(req') <=> MayServe(q)
      /\ req'.redirect = q.redirect
  BY <1>2, StatusChanged
<1>4. (MayServe(req)' <=> MayServe(req')) /\ (Settled(req)' <=> Settled(req'))
  BY DEF MayServe, Settled
<1>5. Settled(req')
  BY <1>1, <1>3 DEF Settled
<1>6. response \in Seq(WireType) /\ Len(response) \in Nat /\ Len(response) <= 1
  BY DEF ExchangeInv, TypeOK
<1>7. /\ response' \in Seq(WireType)
      /\ Len(response') \in Nat /\ Len(response') <= Len(response) + 1
      /\ w.body # "nothing" => response'[Len(response')] = w
      /\ Sent' \subseteq Sent \cup {w}
  <2>1. /\ response' \in Seq(WireType) /\ Sent' \subseteq Sent \cup {w}
        /\ w.body # "nothing" => response'[Len(response')] = w
        /\ Len(response') = Len(response) + 1 \/ Len(response') \in {0, 1}
    BY <1>1, <1>6, SentGrows
  <2>2. Len(response') \in Nat
    BY <2>1
  <2>3. Len(response') <= Len(response) + 1
    <3> DEFINE m == Len(response')
               n == Len(response)
    <3>1. m \in Nat /\ n \in Nat /\ (m = n + 1 \/ m \in {0, 1})
      BY <1>6, <2>1, <2>2
    <3> HIDE DEF m, n
    <3>2. m <= n + 1
      BY <3>1
    <3> QED
      BY <3>2 DEF m, n
  <2> QED
    BY <2>1, <2>2, <2>3
<1>8. w.body \in ContentKinds => MayServe(req)
  BY ContentOfOk
<1>9. (q.status \in HasPage /\ ~(q.isFolder /\ q.autoIndex))
         => w.status \in HasPage /\ w.body \in {"none", "page"}
  BY ErrorOfError
<1>10. TypeOK'
  <2>1. Len(response') <= 2 /\ phase' \in {"failed", "answering", "sent"}
    BY <1>6, <1>7
  <2>2. pipes' \subseteq {"in", "out"}
    BY DEF ExchangeInv, TypeOK
  <2> QED
    BY <1>3, <1>7, <2>1, <2>2 DEF ExchangeInv, TypeOK
<1>11. \A v \in Sent' : v.body \in ContentKinds => MayServe(req')
  BY <1>3, <1>7, <1>8 DEF ExchangeInv
<1>12. response = <<>> => Len(response') <= 1
  <2>1. response = <<>> => Len(response) = 0
    OBVIOUS
  <2> QED
    BY <1>6, <1>7, <2>1
<1>15. phase' # "sent" => Len(response') <= 1 /\ MayServe(req')
  BY <1>3, <1>12
<1>16. "in" \in pipes' => MayServe(req') /\ phase' = "sent" /\ Len(response') <= 1
  BY <1>3, <1>12 DEF ExchangeInv
<1>13. ExchangeInv'
  BY <1>4, <1>5, <1>10, <1>11, <1>15, <1>16 DEF ExchangeInv
<1>14. ErrorKept
  <2>1. \A s \in HasPage : s >= 400
    BY DEF HasPage
  <2> QED
    BY <1>3, <1>7, <1>9, <2>1 DEF ErrorKept
<1> QED
  BY <1>13, <1>14

-----------------------------------------------------------------------------
(* No event breaks the invariant or takes an error back.                   *)
LEMMA NextExchange == ASSUME ExchangeInv, Next PROVE ExchangeInv' /\ ErrorKept
<1>1. CASE Header
  <2>0. PICK q \in Verdicts(server, request), del \in BOOLEAN :
           \E s \in {400, 413, q.status} :
              /\ done' \in IF s = 413 THEN {FALSE} ELSE BOOLEAN
              /\ hasDelete' = (hasDelete \/ del)
              /\ AfterRead([q EXCEPT !.status = s], done')
    BY <1>1, Zenon DEF Header
  <2>1. PICK s \in {400, 413, q.status} :
           /\ done' \in IF s = 413 THEN {FALSE} ELSE BOOLEAN
           /\ hasDelete' = (hasDelete \/ del)
           /\ AfterRead([q EXCEPT !.status = s], done')
    BY <2>0, Zenon
  <2>2. server \in Seq(Location) /\ req.status = 0 /\ phase = "header"
    BY <1>1, ServersAssumption DEF Header, ExchangeInv, TypeOK
  <2>3. q \in Verdict /\ Settled(q) /\ (q.status = 200 => MayServe(q))
    BY <2>2, VerdictsAllowed
  <2> DEFINE r == [q EXCEPT !.status = s]
  <2>4. s \in Nat
    BY <2>3 DEF Verdict
  <2>5. /\ r \in Verdict /\ r.status = s /\ r.redirect = q.redirect
        /\ MayServe(r) <=> MayServe(q)
    BY <2>3, <2>4, StatusChanged
  <2>6. Settled(r) /\ (r.status = 200 => MayServe(r))
    BY <2>3, <2>5 DEF Settled, HasPage
  <2>7. done' \in BOOLEAN
    BY <2>1
  <2>8. PICK complete \in BOOLEAN : AfterRead(r, complete)
    BY <2>1, <2>7
  <2>9. hasDelete' \in BOOLEAN /\ UNCHANGED <<server, request, cgiBody, response>>
    BY <1>1, <2>1 DEF Header
  <2> HIDE DEF r
  <2> QED
    BY <2>2, <2>5, <2>6, <2>7, <2>8, <2>9, ReadKeeps
<1>2. CASE BodyPiece
  <2>1. /\ phase = "body" /\ req.status = 200 /\ req \in Verdict /\ Settled(req)
        /\ MayServe(req) /\ UNCHANGED <<server, request, hasDelete, cgiBody, response>>
        /\ done \in BOOLEAN /\ hasDelete \in BOOLEAN
    BY <1>2 DEF BodyPiece, ExchangeInv, TypeOK
  <2>2. CASE done' \in BOOLEAN /\ AfterRead(req, done')
    <3>1. PICK complete \in BOOLEAN : AfterRead(req, complete)
      BY <2>2
    <3> QED
      BY <2>1, <2>2, <3>1, ReadKeeps
  <2>3. ASSUME NEW s \in {400, 413}, UNCHANGED done, AfterRead([req EXCEPT !.status = s], done)
        PROVE  ExchangeInv' /\ ErrorKept
    <3> DEFINE r == [req EXCEPT !.status = s]
    <3>1. r \in Verdict /\ r.status = s
      BY <2>1, <2>3, StatusChanged
    <3>2. Settled(r)
      BY <3>1 DEF Settled, HasPage
    <3>3. PICK complete \in BOOLEAN : AfterRead(r, complete)
      BY <2>1, <2>3
    <3>4. done' \in BOOLEAN /\ hasDelete' \in BOOLEAN
      BY <2>1, <2>3
    <3> HIDE DEF r
    <3> QED
      BY <2>1, <3>1, <3>2, <3>3, <3>4, ReadKeeps
  <2> QED
    BY <1>2, <2>2, <2>3 DEF BodyPiece
<1>3. req \in Verdict /\ cgiBody \in BOOLEAN
  BY DEF ExchangeInv, TypeOK
<1>4. CASE ScriptOutput
  <2>1. req = [req EXCEPT !.status = req.status]
    BY <1>3 DEF Verdict
  <2>2. req.status # 200 \/ MayServe(req)
    BY <1>4 DEF ScriptOutput, ExchangeInv
  <2> QED
    BY <1>4, <2>1, <2>2, StatusKeeps DEF ScriptOutput
<1>5. CASE ScriptEnd
  <2>1. PICK s \in {500, req.status} : req' = [req EXCEPT !.status = s]
    <3>1. req = [req EXCEPT !.status = req.status]
      BY <1>3 DEF Verdict
    <3> QED
      BY <1>5, <3>1 DEF ScriptEnd
  <2>2. s \in HasPage \cup {req.status} /\ (req.status >= 400 => s >= 400)
    BY <1>3, <2>1 DEF HasPage, Verdict
  <2>3. s # 200 \/ MayServe(req)
    BY <1>5, <2>1 DEF ScriptEnd, ExchangeInv
  <2>4. /\ phase \notin {"header", "body", "sent"} /\ phase' = "answering"
        /\ pipes' \subseteq pipes
        /\ UNCHANGED <<server, request, response, done, hasDelete, cgiBody>>
    BY <1>5 DEF ScriptEnd, ExchangeInv
  <2> QED
    BY <1>3, <2>1, <2>2, <2>3, <2>4, StatusKeeps
<1>6. CASE Timeout
  <2>1. PICK s \in {408, 504} : req' = [req EXCEPT !.status = s]
    BY <1>6 DEF Timeout
  <2>2. s \in HasPage /\ s >= 400 /\ s # 200
    BY <2>1 DEF HasPage
  <2>3. phase = "header" => s # req.status
    BY <2>2 DEF ExchangeInv
  <2> QED
    BY <1>3, <1>6, <2>1, <2>2, <2>3, StatusKeeps DEF Timeout
<1>7. CASE PipeWriteFailed
  <2> DEFINE q == [req EXCEPT !.status = 500]
  <2>1. PICK w \in Responses(q) :
           response' = FullResponse(w) /\ req' = [req EXCEPT !.status = w.status]
    BY <1>7 DEF PipeWriteFailed
  <2>2. /\ q \in Verdict /\ q.status = 500 /\ (MayServe(q) <=> MayServe(req))
        /\ q.isFolder = req.isFolder /\ q.autoIndex = req.autoIndex
    BY <1>3, StatusChanged
  <2>3. Settled(q) /\ q.status \in HasPage
    BY <2>2 DEF Settled, HasPage
  <2>4. req' = [q EXCEPT !.status = w.status]
    BY <2>1
  <2>5. /\ "in" \in pipes /\ pipes' = pipes \ {"in"} /\ Len(response) <= 1
        /\ phase \notin {"header", "body"} /\ (phase # "sent" => response = <<>>)
        /\ UNCHANGED <<server, request, done, hasDelete, cgiBody>>
    BY <1>7 DEF PipeWriteFailed, ExchangeInv
  <2>6. phase \in {"script", "failed", "timer", "answering", "sent"}
    BY <2>5 DEF ExchangeInv, TypeOK
  <2>7. \/ phase' = "sent" /\ phase = "sent"
        \/ phase' \in {"failed", "answering"} /\ phase # "sent"
    BY <1>7, <2>6 DEF PipeWriteFailed
  <2> HIDE DEF q
  <2>8. MayServe(req) /\ pipes' \subseteq pipes /\ "in" \notin pipes'
    BY <2>5 DEF ExchangeInv
  <2>9. \/ phase' = "sent" /\ (phase = "sent" => "in" \notin pipes')
        \/ /\ phase' \in {"failed", "answering"} /\ response = <<>>
           /\ "in" \notin pipes' /\ MayServe(req)
    BY <2>5, <2>7, <2>8
  <2>10. Len(response) <= 1 /\ UNCHANGED <<server, request, done, hasDelete, cgiBody>>
    BY <2>5
  <2> QED
    BY <2>1, <2>2, <2>3, <2>4, <2>8, <2>9, <2>10, ResponseKeeps
<1>8. CASE Answer
  <2>1. PICK w \in Responses(req) :
           /\ response' = FullResponse(w)
           /\ req' = [req EXCEPT !.status = w.status]
    BY <1>8 DEF Answer
  <2>2. phase \in {"answering", "failed"} /\ phase' = "sent"
    BY <1>8 DEF Answer
  <2>3. Settled(req) /\ (req.status = 200 => MayServe(req)) /\ Len(response) <= 1
    BY <2>2 DEF ExchangeInv
  <2>4. req.status >= 400 => req.status \in HasPage
    BY <2>3 DEF Settled
  <2> QED
    BY <1>3, <1>8, <2>1, <2>2, <2>3, <2>4, ResponseKeeps DEF Answer
<1> QED
  BY <1>1, <1>2, <1>4, <1>5, <1>6, <1>7, <1>8 DEF Next

LEMMA StutterExchange == ASSUME ExchangeInv, UNCHANGED vars PROVE ExchangeInv'
  BY DEF ExchangeInv, TypeOK, vars, Sent, MayServe, Settled

(* The invariant of every exchange.                                        *)
THEOREM ExchangeCorrect == Spec => []ExchangeInv
<1>1. ExchangeInv /\ [Next]_vars => ExchangeInv'
  BY NextExchange, StutterExchange
<1> QED
  BY <1>1, InitExchange, PTL DEF Spec

(* A method the block does not list never starts a script and never gets a *)
(* file, an image or a script's output.                                    *)
THEOREM NotServedUnlessAllowed == Spec => []ContentOnlyIfAllowed
<1>1. ExchangeInv => ContentOnlyIfAllowed
  BY DEF ExchangeInv, ContentOnlyIfAllowed, MayServe, Allowed, ContentKinds
<1> QED
  BY <1>1, ExchangeCorrect, PTL

(* An error is final and gets no content, but for folders that are listed. *)
THEOREM ErrorsFinal == Spec => ErrorsWin
<1>1. ExchangeInv /\ [Next]_vars => [ErrorKept]_vars
  BY NextExchange
<1> QED
  BY <1>1, ExchangeCorrect, PTL DEF Spec, ErrorsWin

(* Nobody is sent more than two responses, whoever fails in between.       *)
THEOREM ExchangeTyped == Spec => []TypeOK
<1>1. ExchangeInv => TypeOK
  BY DEF ExchangeInv
<1> QED
  BY <1>1, ExchangeCorrect, PTL

-----------------------------------------------------------------------------
(* The page fits the status, and where there is no body there is a reason. *)
Fits(w) ==
    /\ w.body = "none" => w.location \/ ~Readable(w.status)
    /\ w.body = "page" => w.status \in w.page \cup RootDigits

(* Every response createResponse makes fits, whatever the status before it.*)
LEMMA ResponsesFit ==
    ASSUME NEW q, NEW w \in Responses(q)
    PROVE  Fits(w)
<1>1. ASSUME NEW s, NEW k, NEW p
      PROVE  /\ Wire(q, s, k, p).status = s /\ Wire(q, s, k, p).body = k
             /\ Wire(q, s, k, p).page = p /\ Wire(q, s, k, p).location = q.redirect
  BY DEF Wire
<1>2. ASSUME NEW s \in HasPage PROVE Fits(ErrorPage(q, s))
  <2>1. s \in PageFor(s).name \cup RootDigits
    BY PageForStatus
  <2> HIDE DEF HasPage
  <2> QED
    BY <1>1, <2>1 DEF ErrorPage, Fits
<1>3. ASSUME q.redirect, w \in {Wire(q, StatusAtFirst(q), "none", {})}
      PROVE  Fits(w)
  <2>1. w = Wire(q, StatusAtFirst(q), "none", {})
    BY <1>3
  <2>2. w.location = q.redirect
    BY <2>1 DEF Wire
  <2>3. w.body = "none"
    BY <2>1 DEF Wire
  <2>4. w.location
    BY <1>3, <2>2, Zenon
  <2> QED
    BY <2>3, <2>4 DEF Fits
<1>4. ASSUME w \in Images(q, StatusAtFirst(q)) PROVE Fits(w)
  BY <1>1, <1>4 DEF Fits, Images
<1>5. ASSUME NEW x \in Bodies(q, StatusAtFirst(q)), w \in OrError(q, x)
      PROVE  Fits(w)
  <2>1. CASE x.body = "none"
    <3>1. PICK f \in FallbackStatus(q, x.status) : w = ErrorPage(q, f)
      BY <1>5, <2>1 DEF OrError, Fallback
    <3>2. f \in HasPage
      BY DEF FallbackStatus, HasPage
    <3> QED
      BY <1>2, <3>1, <3>2
  <2>2. CASE x.body # "none"
    <3> DEFINE s == StatusAtFirst(q)
    <3>1. w = x
      BY <1>5, <2>2 DEF OrError
    <3> HIDE DEF s
    <3>2. \/ s \in HasPage /\ x = ErrorPage(q, s)
          \/ \E t, k : x = Wire(q, t, k, {}) /\ k \in {"none", "file", "script", "listing"}
      BY <1>5 DEF Bodies, Listing, PageOrFile, Content, s
    <3> QED
      BY <1>1, <1>2, <2>2, <3>1, <3>2 DEF Fits
  <2> QED
    BY <2>1, <2>2
<1> QED
  BY <1>3, <1>4, <1>5 DEF Responses

(* An image, or nothing, is made only of an accepted Request for an image. *)
LEMMA ImageOfOk ==
    ASSUME NEW q, NEW w \in Responses(q), w.body \in {"image", "nothing"}
    PROVE  /\ ~q.redirect /\ IsImage(q, q.status)
           /\ q.status = 200 /\ w.status = 200
<1>1. ASSUME NEW s, NEW k, NEW p
      PROVE  Wire(q, s, k, p).body = k /\ Wire(q, s, k, p).status = s
  BY DEF Wire
<1>2. ASSUME NEW s PROVE ErrorPage(q, s).body \in {"none", "page"}
  BY <1>1 DEF ErrorPage
<1> DEFINE s == StatusAtFirst(q)
<1>3. CASE ~q.redirect /\ IsImage(q, s)
  <2>1. s = 200 /\ q.status = 200
    BY <1>3 DEF IsImage, StatusAtFirst
  <2>2. w.status = s
    BY <1>1, <1>3 DEF Responses, Images
  <2> QED
    BY <1>3, <2>1, <2>2
<1>4. CASE q.redirect
  BY <1>1, <1>4 DEF Responses
<1>5. CASE ~q.redirect /\ ~IsImage(q, s)
  <2>1. PICK v \in Bodies(q, s) : w \in OrError(q, v)
    BY <1>5 DEF Responses
  <2>2. v.body \in {"none", "page", "file", "script", "listing"}
    BY <1>1, <1>2 DEF Bodies, Listing, PageOrFile, Content
  <2> QED
    BY <1>2, <2>1, <2>2 DEF OrError, Fallback
<1> QED
  BY <1>3, <1>4, <1>5

(* Every response fits, and without one an image was asked for and accepted*)
SentFits ==
    /\ \A w \in Sent : Fits(w)
    /\ (phase = "sent" /\ response = <<>>) => IsImage(req, req.status) /\ ~req.redirect

(* What has been sent stays, and what is added fits.                       *)
LEMMA NextFits ==
    ASSUME ExchangeInv, SentFits, [Next]_vars
    PROVE  SentFits'
<1>0. response \in Seq(WireType) /\ req \in Verdict
  BY DEF ExchangeInv, TypeOK
<1>1. CASE UNCHANGED response /\ (phase' # "sent" \/ UNCHANGED <<phase, request, req>>)
  BY <1>1 DEF SentFits, Sent, Fits, IsImage
<1>2. ASSUME NEW q \in Verdict, Settled(q), NEW w \in Responses(q),
             response' = FullResponse(w)
      PROVE  (\A x \in Sent' : Fits(x)) /\ (response' = <<>> => w.body = "nothing")
  <2>1. w \in WireType
    BY <1>2, WireTyped
  <2>2. Sent' \subseteq Sent \cup {w} /\ (w.body # "nothing" => response' # <<>>)
    BY <1>0, <1>2, <2>1, SentGrows
  <2>3. \A x \in Sent : Fits(x)
    BY DEF SentFits
  <2>4. Fits(w)
    BY ResponsesFit
  <2> QED
    BY <2>2, <2>3, <2>4
<1>3. CASE PipeWriteFailed
  <2> DEFINE q == [req EXCEPT !.status = 500]
  <2>1. PICK w \in Responses(q) : response' = FullResponse(w)
    BY <1>3 DEF PipeWriteFailed
  <2>2. q \in Verdict /\ q.status = 500
    BY <1>0 DEF Verdict
  <2>3. Settled(q)
    BY <2>2 DEF Settled, HasPage
  <2> HIDE DEF q
  <2>4. w.body # "nothing"
    BY <2>2, ImageOfOk
  <2>5. (\A x \in Sent' : Fits(x)) /\ response' # <<>>
    BY <1>2, <2>1, <2>2, <2>3, <2>4
  <2> QED
    BY <2>5 DEF SentFits, Fits, Readable, PageFor, FirstPage, Suits, DefaultPage
<1>4. CASE Answer
  <2>1. PICK w \in Responses(req) :
           response' = FullResponse(w) /\ req' = [req EXCEPT !.status = w.status]
    BY <1>4 DEF Answer
  <2>2. Settled(req)
    BY <1>4 DEF Answer, ExchangeInv
  <2>3. (\A x \in Sent' : Fits(x)) /\ (response' = <<>> => w.body = "nothing")
    BY <1>0, <1>2, <2>1, <2>2
  <2>4. w.body = "nothing" => req' = req /\ IsImage(req, req.status) /\ ~req.redirect
    <3>1. w.body = "nothing" => w.status = req.status /\ IsImage(req, req.status) /\ ~req.redirect
      BY ImageOfOk
    <3>2. [req EXCEPT !.status = req.status] = req
      BY <1>0 DEF Verdict
    <3> QED
      BY <2>1, <3>1, <3>2
  <2>5. request' = request
    BY <1>4 DEF Answer
  <2> QED
    BY <2>3, <2>4, <2>5 DEF SentFits, Fits, IsImage
<1>5. ASSUME NEW q, NEW complete, AfterRead(q, complete) PROVE phase' # "sent"
  BY <1>5 DEF AfterRead, StartCgi, Goes
<1>6. CASE Header \/ BodyPiece
  <2>1. phase' # "sent" /\ UNCHANGED response
    BY <1>5, <1>6 DEF Header, BodyPiece
  <2> QED
    BY <1>1, <2>1
<1>7. CASE ScriptOutput \/ ScriptEnd \/ Timeout \/ UNCHANGED vars
  BY <1>1, <1>7 DEF vars, ScriptOutput, ScriptEnd, Timeout
<1> QED
  BY <1>3, <1>4, <1>6, <1>7 DEF Next

LEMMA AlwaysFits == Spec => []SentFits
<1>1. Init => SentFits
  BY DEF Init, Sent, SentFits
<1>2. ExchangeInv /\ SentFits /\ [Next]_vars => SentFits'
  BY NextFits
<1> QED
  BY <1>1, <1>2, ExchangeCorrect, PTL DEF Spec

(* Nobody gets a header without a body but for a redirection or a page that*)
(* does not open (createResponse's last branch), and nobody gets nothing   *)
(* at all but who asked for an image and was accepted (setImage).          *)
THEOREM AnswersHaveBodies == Spec => []NoEmptyAnswer
<1>1. SentFits => NoEmptyAnswer
  BY DEF NoEmptyAnswer, Fits, SentFits
<1> QED
  BY <1>1, AlwaysFits, PTL

(* A page has the digits of the status line before it in its path, whatever*)
(* pages the server is configured with and the disk still holds.           *)
THEOREM PagesFit == Spec => []RightPage
<1>1. SentFits => RightPage
  BY DEF RightPage, Fits, SentFits
<1> QED
  BY <1>1, AlwaysFits, PTL
-----------------------------------------------------------------------------
(* What the event loop sees of a Request, and what it may be.              *)
View(h, c, d, s, n) ==
    [headerDone |-> h, isCgi |-> c, done |-> d, status |-> s, responses |-> n]

Views ==
    [headerDone : BOOLEAN, isCgi : BOOLEAN, done : BOOLEAN, status : {"OK", "ERROR"},
     responses : Nat]

Class(s) == IF s \in {0, 200} THEN "OK" ELSE "ERROR"

(* What the end of the header makes of a view.                             *)
LEMMA HeaderView ==
    ASSUME NEW v \in Views,
           NEW h \in [isCgi : BOOLEAN, status : {"OK", "ERROR"}, done : BOOLEAN]
    PROVE  Loop!HeaderRead(v, h) = View(TRUE, h.isCgi, h.done, h.status, v.responses)
<1> DEFINE x == [v EXCEPT !.headerDone = TRUE, !.isCgi = h.isCgi, !.status = h.status,
                          !.done = h.done]
<1>1. h.isCgi \in BOOLEAN /\ h.status \in {"OK", "ERROR"} /\ h.done \in BOOLEAN
  OBVIOUS
<1>2. /\ x \in Views /\ x.headerDone = TRUE /\ x.isCgi = h.isCgi /\ x.done = h.done
      /\ x.status = h.status /\ x.responses = v.responses
  BY <1>1 DEF Views
<1>3. Loop!HeaderRead(v, h) = x
  BY DEF Loop!HeaderRead
<1> HIDE DEF x
<1>4. x = View(TRUE, h.isCgi, h.done, h.status, v.responses)
  BY <1>2 DEF View, Views
<1> QED BY <1>3, <1>4

(* The two ways in which the body may change it, and createPipes when it   *)
(* fails.                                                                  *)
LEMMA ViewChanged ==
    ASSUME NEW v \in Views, v.headerDone
    PROVE  /\ v = View(TRUE, v.isCgi, v.done, v.status, v.responses)
           /\ [v EXCEPT !.done = TRUE] = View(TRUE, v.isCgi, TRUE, v.status, v.responses)
           /\ [v EXCEPT !.status = "ERROR"]
                 = View(TRUE, v.isCgi, v.done, "ERROR", v.responses)
           /\ [v EXCEPT !.status = "ERROR", !.isCgi = FALSE]
                 = View(TRUE, FALSE, v.done, "ERROR", v.responses)
<1>1. v = View(TRUE, v.isCgi, v.done, v.status, v.responses)
  BY DEF View, Views
<1>2. [v EXCEPT !.done = TRUE] = View(TRUE, v.isCgi, TRUE, v.status, v.responses)
  <2> DEFINE x == [v EXCEPT !.done = TRUE]
  <2>1. /\ x \in Views /\ x.headerDone = TRUE /\ x.isCgi = v.isCgi /\ x.done = TRUE
        /\ x.status = v.status /\ x.responses = v.responses
    BY DEF Views
  <2> HIDE DEF x
  <2>2. x = View(TRUE, v.isCgi, TRUE, v.status, v.responses)
    BY <2>1 DEF View, Views
  <2> QED BY <2>2 DEF x
<1>3. [v EXCEPT !.status = "ERROR"] = View(TRUE, v.isCgi, v.done, "ERROR", v.responses)
  <2> DEFINE x == [v EXCEPT !.status = "ERROR"]
  <2>1. /\ x \in Views /\ x.headerDone = TRUE /\ x.isCgi = v.isCgi /\ x.done = v.done
        /\ x.status = "ERROR" /\ x.responses = v.responses
    BY DEF Views
  <2> HIDE DEF x
  <2>2. x = View(TRUE, v.isCgi, v.done, "ERROR", v.responses)
    BY <2>1 DEF View, Views
  <2> QED BY <2>2 DEF x
<1>4. [v EXCEPT !.status = "ERROR", !.isCgi = FALSE] = View(TRUE, FALSE, v.done, "ERROR", v.responses)
  <2> DEFINE x == [v EXCEPT !.status = "ERROR", !.isCgi = FALSE]
  <2>1. /\ x \in Views /\ x.headerDone = TRUE /\ x.isCgi = FALSE /\ x.done = v.done
        /\ x.status = "ERROR" /\ x.responses = v.responses
    BY DEF Views
  <2> HIDE DEF x
  <2>2. x = View(TRUE, FALSE, v.done, "ERROR", v.responses)
    BY <2>1 DEF View, Views
  <2> QED BY <2>2 DEF x
<1> QED BY <1>1, <1>2, <1>3, <1>4

(* What the loop sees here.                                                *)
LEMMA KnownView ==
    ASSUME TypeOK
    PROVE  /\ Known \in Views
           /\ Known.headerDone = (phase # "header") /\ Known.isCgi = req.isCgi
           /\ Known.done = done /\ Known.status = Class(req.status)
           /\ Known.responses = Len(response)
<1>1. req.isCgi \in BOOLEAN /\ done \in BOOLEAN /\ Len(response) \in Nat
  BY DEF TypeOK, Verdict
<1> QED BY <1>1 DEF Known, Views, Class
(* What the loop allows a Request to become by reading: after the header   *)
(* anything, after the body its end or an error.                           *)
LEMMA ParsedViews ==
    ASSUME TypeOK, NEW c \in BOOLEAN, NEW d \in BOOLEAN, NEW s \in {"OK", "ERROR"},
           \/ phase = "header" /\ Class(req.status) = "OK"
           \/ /\ phase # "header" /\ Class(req.status) = "OK" /\ ~done /\ c = req.isCgi
              /\ s = "OK" \/ ~d
    PROVE  View(TRUE, c, d, s, Len(response)) \in Loop!Parsed(Known)
<1> DEFINE n == Len(response)
           v == View(TRUE, c, d, s, n)
<1>1. /\ Known \in Views /\ n \in Nat
      /\ Known.headerDone = (phase # "header") /\ Known.isCgi = req.isCgi
      /\ Known.done = done /\ Known.status = Class(req.status) /\ Known.responses = n
      /\ done \in BOOLEAN /\ req.isCgi \in BOOLEAN
  BY KnownView DEF TypeOK, Verdict
<1>2. CASE phase = "header" /\ Class(req.status) = "OK"
  <2> DEFINE h == [isCgi |-> c, status |-> s, done |-> d]
  <2>1. h.isCgi = c /\ h.status = s /\ h.done = d
    OBVIOUS
  <2>2. h \in [isCgi : BOOLEAN, status : {"OK", "ERROR"}, done : BOOLEAN]
    OBVIOUS
  <2>3. h \in [isCgi : {FALSE, TRUE}, status : {Known.status, "ERROR"}, done : BOOLEAN]
    BY <1>1, <1>2
  <2>4. ~Known.headerDone /\ Known \in Views /\ Known.responses = n
    BY <1>1, <1>2
  <2> HIDE DEF h, n
  <2>5. Loop!HeaderRead(Known, h) = v
    <3>1. Loop!HeaderRead(Known, h) = View(TRUE, h.isCgi, h.done, h.status, Known.responses)
      BY <2>2, <2>4, HeaderView
    <3> QED BY <2>1, <2>4, <3>1
  <2> HIDE DEF v
  <2> QED BY <2>3, <2>4, <2>5 DEF Loop!Parsed, v, n
<1>3. CASE /\ phase # "header" /\ Class(req.status) = "OK" /\ ~done /\ c = req.isCgi
           /\ s = "OK" \/ ~d
  <2>1. /\ Known.headerDone /\ Known.isCgi = c /\ Known.status = "OK"
        /\ Known.done = FALSE /\ Known.responses = n /\ Known \in Views
    BY <1>1, <1>3
  <2>2. Loop!Parsed(Known)
          = {Known, [Known EXCEPT !.done = TRUE], [Known EXCEPT !.status = "ERROR"]}
    BY <2>1 DEF Loop!Parsed
  <2>3. v \in {View(TRUE, c, FALSE, "OK", n), View(TRUE, c, TRUE, "OK", n),
               View(TRUE, c, FALSE, "ERROR", n)}
    BY <1>3
  <2> HIDE DEF n, v
  <2>4. /\ Known = View(TRUE, c, FALSE, "OK", n)
        /\ [Known EXCEPT !.done = TRUE] = View(TRUE, c, TRUE, "OK", n)
        /\ [Known EXCEPT !.status = "ERROR"] = View(TRUE, c, FALSE, "ERROR", n)
    <3>1. /\ Known = View(TRUE, Known.isCgi, Known.done, Known.status, Known.responses)
          /\ [Known EXCEPT !.done = TRUE]
                = View(TRUE, Known.isCgi, TRUE, Known.status, Known.responses)
          /\ [Known EXCEPT !.status = "ERROR"]
                = View(TRUE, Known.isCgi, Known.done, "ERROR", Known.responses)
      BY <2>1, ViewChanged
    <3>2. /\ Known.isCgi = c /\ Known.done = FALSE /\ Known.status = "OK"
          /\ Known.responses = n
      BY <2>1
    <3> QED BY <3>1, <3>2
  <2>5. v \in Loop!Parsed(Known)
    BY <2>2, <2>3, <2>4, Zenon
  <2> QED BY <2>5 DEF v, n
<1> QED BY <1>2, <1>3

(* A Request is complete only when it is not read any more.                *)
Unread == phase \in {"header", "body"} => ~done

(* A piece of the request that leaves it as q, and what happens next.      *)
LEMMA ReadFits ==
    ASSUME ExchangeInv, Unread, ExchangeInv', phase \in {"header", "body"},
           NEW q \in Verdict, Settled(q), done' \in BOOLEAN, AfterRead(q, done'),
           phase = "body" => q.isCgi = req.isCgi /\ (q.status = 200 \/ ~done'),
           UNCHANGED response
    PROVE  Routed /\ Unread'
<1> DEFINE n == Len(response)
           c == q.isCgi
           s == Class(q.status)
           r == View(TRUE, c, done', s, n)
           failed == [q EXCEPT !.status = 500, !.isCgi = FALSE]
<1>1. /\ c \in BOOLEAN /\ n \in Nat /\ TypeOK /\ TypeOK'
      /\ Class(req.status) = "OK"
  BY DEF ExchangeInv, TypeOK, Verdict, Class
<1>2. s \in {"OK", "ERROR"} /\ (s = "OK" <=> q.status = 200)
  BY DEF Class, Settled, HasPage
<1>3. r \in Loop!Parsed(Known)
  <2> HIDE DEF n, s
  <2>1. phase = "body" => ~done /\ c = req.isCgi /\ (s = "OK" \/ ~done')
    BY <1>2 DEF Unread
  <2> QED BY <1>1, <1>2, <2>1, ParsedViews DEF n
<1>4. /\ Loop!Answerable(r) <=> s # "OK" \/ (done' /\ ~c)
      /\ Loop!StartsCgi(r) <=> s = "OK" /\ done' /\ c
      /\ r.done = done'
  <2> HIDE DEF n, c, s
  <2>1. r.isCgi = c /\ r.done = done' /\ r.status = s
    BY DEF View
  <2> HIDE DEF r
  <2> QED BY <2>1 DEF Loop!Answerable, Loop!StartsCgi
<1>5. phase' # "header"
  BY DEF AfterRead, StartCgi, Goes
<1>6. ASSUME req' = q PROVE Known' = r
  BY <1>5, <1>6 DEF Known, View, Class
<1>7. ASSUME req' = failed, s = "OK" PROVE Known' = [r EXCEPT !.status = "ERROR", !.isCgi = FALSE]
  <2>1. failed.status = 500 /\ failed.isCgi = FALSE
    BY DEF Verdict
  <2>2. Known' = View(TRUE, FALSE, done', "ERROR", n)
    <3>1. req'.status = 500 /\ req'.isCgi = FALSE /\ Len(response') = n
      BY <1>7, <2>1
    <3>2. n \in Nat /\ (phase' # "header") = TRUE /\ 500 \notin {0, 200}
      BY <1>1, <1>5
    <3> HIDE DEF n
    <3>3. /\ Known'.headerDone = TRUE /\ Known'.isCgi = FALSE /\ Known'.done = done'
          /\ Known'.status = "ERROR" /\ Known'.responses = n
      BY <3>1, <3>2 DEF Known
    <3>4. Known' \in Views
      BY <3>1, <3>2 DEF Known, Views
    <3> QED BY <3>3, <3>4 DEF View, Views
  <2>3. r \in Views /\ r.headerDone = TRUE /\ r.done = done' /\ r.responses = n
    BY <1>1, <1>2 DEF View, Views
  <2> HIDE DEF r, n
  <2>4. [r EXCEPT !.status = "ERROR", !.isCgi = FALSE]
          = View(TRUE, FALSE, r.done, "ERROR", r.responses)
    BY <2>3, ViewChanged
  <2> QED BY <2>2, <2>3, <2>4
<1> HIDE DEF r, c, s
<1>8. LoopContinues(r)
  <2>1. CASE q.status # 200 /\ phase' = "answering" /\ req' = q
    BY <1>2, <1>4, <1>6, <2>1 DEF LoopContinues
  <2>2. CASE q.status = 200 /\ done' /\ ~q.isCgi /\ phase' = "answering" /\ req' = q
    BY <1>4, <1>6, <2>2 DEF LoopContinues, c
  <2>3. CASE q.status = 200 /\ done' /\ q.isCgi /\ StartCgi(q)
    <3>1. Loop!StartsCgi(r)
      BY <1>2, <1>4, <2>3 DEF c
    <3>2. \/ phase' \in {"script", "timer"} /\ req' = q
          \/ phase' = "timer" /\ req' = failed
      BY <2>3 DEF StartCgi
    <3> QED BY <1>2, <1>6, <1>7, <2>3, <3>1, <3>2 DEF LoopContinues
  <2>4. CASE q.status = 200 /\ ~done' /\ phase' = "body" /\ req' = q
    BY <1>2, <1>4, <1>6, <2>4 DEF LoopContinues
  <2> QED BY <2>1, <2>2, <2>3, <2>4 DEF AfterRead, Goes
<1>9. Unread'
  BY DEF Unread, AfterRead, StartCgi, Goes
<1> QED BY <1>3, <1>8, <1>9 DEF Routed
(* Reading and the timer agree with the event loop; the other events come  *)
(* when the reading is over.                                               *)
LEMMA NextRouted == ASSUME ExchangeInv, Unread, Next PROVE Routed /\ Unread'
<1>0. ExchangeInv'
  BY NextExchange
<1>1. CASE Header
  <2>0. PICK q \in Verdicts(server, request), del \in BOOLEAN :
           \E s \in {400, 413, q.status} :
              /\ done' \in IF s = 413 THEN {FALSE} ELSE BOOLEAN
              /\ hasDelete' = (hasDelete \/ del)
              /\ AfterRead([q EXCEPT !.status = s], done')
    BY <1>1, Zenon DEF Header
  <2>1. PICK s \in {400, 413, q.status} :
           /\ done' \in IF s = 413 THEN {FALSE} ELSE BOOLEAN
           /\ hasDelete' = (hasDelete \/ del)
           /\ AfterRead([q EXCEPT !.status = s], done')
    BY <2>0, Zenon
  <2> DEFINE r == [q EXCEPT !.status = s]
  <2>2. server \in Seq(Location)
    BY ServersAssumption DEF ExchangeInv, TypeOK
  <2>3. q \in Verdict /\ Settled(q)
    BY <2>2, VerdictsAllowed
  <2>4. s \in Nat
    BY <2>3 DEF Verdict
  <2>5. r \in Verdict /\ r.status = s /\ r.redirect = q.redirect
    BY <2>3, <2>4, StatusChanged
  <2>6. Settled(r)
    BY <2>3, <2>5 DEF Settled, HasPage
  <2>7. phase = "header" /\ UNCHANGED response /\ done' \in BOOLEAN
    BY <1>1, <2>1 DEF Header
  <2> HIDE DEF r
  <2>8. AfterRead(r, done')
    BY <2>1 DEF r
  <2> QED BY <1>0, <2>5, <2>6, <2>7, <2>8, ReadFits
<1>2. CASE BodyPiece
  <2>1. /\ phase = "body" /\ req.status = 200 /\ req \in Verdict /\ Settled(req) /\ ~done
        /\ done \in BOOLEAN /\ UNCHANGED response
    BY <1>2 DEF BodyPiece, ExchangeInv, TypeOK, Unread
  <2>2. CASE done' \in BOOLEAN /\ AfterRead(req, done')
    BY <1>0, <2>1, <2>2, ReadFits
  <2>3. ASSUME NEW s \in {400, 413}, UNCHANGED done, AfterRead([req EXCEPT !.status = s], done)
        PROVE  Routed /\ Unread'
    <3> DEFINE r == [req EXCEPT !.status = s]
    <3>1. r \in Verdict /\ r.status = s
      BY <2>1, <2>3, StatusChanged
    <3>2. Settled(r) /\ r.isCgi = req.isCgi
      BY <2>1, <3>1 DEF Settled, HasPage, Verdict
    <3>3. done' \in BOOLEAN /\ ~done'
      BY <2>1, <2>3
    <3> HIDE DEF r
    <3>4. AfterRead(r, done')
      BY <2>3 DEF r
    <3> QED BY <1>0, <2>1, <3>1, <3>2, <3>3, <3>4, ReadFits
  <2> QED BY <1>2, <2>2, <2>3 DEF BodyPiece
<1>3. CASE Timeout
  <2>1. PICK s \in {408, 504} : req' = [req EXCEPT !.status = s]
    BY <1>3 DEF Timeout
  <2>2. phase' = "answering" /\ done' = done /\ response' = response
    BY <1>3 DEF Timeout
  <2>3. Unread'
    BY <2>2 DEF Unread
  <2>4. ASSUME phase \in {"header", "body"} PROVE \E r \in Loop!Parsed(Known) : LoopContinues(r)
    <3> DEFINE r == View(TRUE, req.isCgi, done, "ERROR", Len(response))
    <3>1. /\ TypeOK /\ req.isCgi \in BOOLEAN /\ done \in BOOLEAN /\ ~done
          /\ Class(req.status) = "OK" /\ Len(response) \in Nat
      BY <2>4 DEF ExchangeInv, TypeOK, Verdict, Class, Unread
    <3>2. r \in Loop!Parsed(Known)
      BY <2>4, <3>1, ParsedViews
    <3>3. Loop!Answerable(r)
      BY DEF Loop!Answerable, View
    <3>4. req'.status = s /\ req'.isCgi = req.isCgi
      BY <2>1 DEF ExchangeInv, TypeOK, Verdict
    <3>5. Known' = r
      <4>1. (phase' # "header") = TRUE /\ req'.status \notin {0, 200} /\ Len(response') \in Nat
        BY <2>2, <3>1, <3>4
      <4>2. /\ Known'.headerDone = TRUE /\ Known'.isCgi = req.isCgi /\ Known'.done = done
            /\ Known'.status = "ERROR" /\ Known'.responses = Len(response)
        <5>1. /\ Known'.headerDone = (phase' # "header") /\ Known'.isCgi = req'.isCgi
              /\ Known'.done = done' /\ Known'.responses = Len(response')
              /\ Known'.status = IF req'.status \in {0, 200} THEN "OK" ELSE "ERROR"
          BY DEF Known
        <5>2. Known'.status = "ERROR"
          BY <4>1, <5>1
        <5>3. Known'.headerDone = TRUE
          BY <4>1, <5>1, Zenon
        <5>4. Known'.isCgi = req.isCgi
          BY <3>4, <5>1
        <5>5. Known'.done = done /\ Known'.responses = Len(response)
          BY <2>2, <5>1
        <5> QED BY <5>2, <5>3, <5>4, <5>5
      <4>3. Known' \in Views
        BY <2>2, <3>1, <3>4, <4>1 DEF Known, Views
      <4> QED BY <3>1, <4>2, <4>3 DEF View, Views
    <3> QED BY <2>2, <3>2, <3>3, <3>5 DEF LoopContinues
  <2> QED BY <2>3, <2>4 DEF Routed
<1>4. CASE ScriptOutput \/ ScriptEnd \/ PipeWriteFailed \/ Answer
  <2>1. phase \notin {"header", "body"}
    BY <1>4 DEF ScriptOutput, ScriptEnd, PipeWriteFailed, Answer, ExchangeInv
  <2>2. phase' \notin {"header", "body"}
    BY <1>4, <2>1 DEF ScriptOutput, ScriptEnd, PipeWriteFailed, Answer
  <2> QED BY <2>1, <2>2 DEF Routed, Unread
<1> QED BY <1>1, <1>2, <1>3, <1>4 DEF Next

(* What createResponse may make of the number of responses.                *)
LEMMA Counted ==
    ASSUME ExchangeInv, NEW n \in Nat,
           \/ n = Len(response) + 1
           \/ n \in {0, 1} /\ phase # "header" /\ req.status = 200 /\ ~req.isCgi
    PROVE  \E r \in Loop!CreateResponse(Known) : r.responses = n
<1>1. /\ Known \in Views /\ Known.responses = Len(response)
      /\ Known.isCgi = req.isCgi /\ Known.status = Class(req.status)
      /\ Known.headerDone = (phase # "header")
  BY KnownView DEF ExchangeInv
<1>5. n \in {0, 1} /\ phase # "header" /\ req.status = 200 /\ ~req.isCgi
         => Loop!MayBeImage(Known)
  BY <1>1 DEF Class, Loop!MayBeImage
<1>2. n \in {Known.responses + 1} \cup (IF Loop!MayBeImage(Known) THEN {0, 1} ELSE {})
  BY <1>1, <1>5
<1>3. [Known EXCEPT !.responses = n].responses = n
  BY <1>1 DEF Views
<1>4. [Known EXCEPT !.responses = n] \in Loop!CreateResponse(Known)
  BY <1>2, Zenon DEF Loop!CreateResponse
<1> QED BY <1>3, <1>4

(* Every step that creates a response leaves as many as the loop counts.   *)
LEMMA NextResponded == ASSUME ExchangeInv, Next PROVE Responded
<1> SUFFICES ASSUME response' # response \/ (phase' = "sent" /\ phase # "sent")
             PROVE  \E r \in Loop!CreateResponse(Known) : r.responses = Len(response')
  BY DEF Responded
<1>1. PipeWriteFailed \/ Answer
  <2>1. ASSUME NEW q, NEW complete, AfterRead(q, complete)
        PROVE  phase' \in {"answering", "body", "script", "timer"}
    BY <2>1 DEF AfterRead, StartCgi, Goes
  <2>2. Header \/ BodyPiece => phase' # "sent" /\ response' = response
    BY <2>1 DEF Header, BodyPiece
  <2>3. ScriptOutput \/ ScriptEnd \/ Timeout => /\ phase' \in {"answering", phase}
                                              /\ response' = response
    BY DEF ScriptOutput, ScriptEnd, Timeout
  <2> QED BY <2>2, <2>3 DEF Next
<1>2. response \in Seq(WireType) /\ Len(response) \in Nat
  BY DEF ExchangeInv, TypeOK
<1>3. CASE PipeWriteFailed
  <2> DEFINE q == [req EXCEPT !.status = 500]
  <2>1. PICK w \in Responses(q) : response' = FullResponse(w)
    BY <1>3 DEF PipeWriteFailed
  <2>2. q.status = 500
    BY DEF ExchangeInv, TypeOK, Verdict
  <2> HIDE DEF q
  <2>3. w.body \notin {"image", "nothing"}
    BY <2>2, ImageOfOk
  <2>4. response' = Append(response, w)
    BY <2>1, <2>3 DEF FullResponse
  <2>5. Len(response') = Len(response) + 1
    BY <1>2, <2>4
  <2> QED BY <1>2, <2>5, Counted
<1>4. CASE Answer
  <2>1. PICK w \in Responses(req) : response' = FullResponse(w)
    BY <1>4 DEF Answer
  <2>4. req \in Verdict /\ Settled(req) /\ phase # "header"
    BY <1>4 DEF Answer, ExchangeInv, TypeOK
  <2>5. w \in WireType
    BY <2>4, WireTyped
  <2>6. \/ Len(response') = Len(response) + 1
        \/ w.body \in {"image", "nothing"} /\ Len(response') \in {0, 1}
    BY <1>2, <2>1, <2>5, SentGrows
  <2>2. \/ Len(response') = Len(response) + 1
        \/ Len(response') \in {0, 1} /\ phase # "header" /\ req.status = 200 /\ ~req.isCgi
    BY <2>4, <2>6, ImageOfOk DEF IsImage
  <2>3. Len(response') \in Nat
    BY <1>2, <2>2
  <2> QED BY <2>2, <2>3, Counted, Zenon
<1> QED BY <1>1, <1>3, <1>4

(* readRequest's tests decide what happens next, whatever routing and the  *)
(* body made of the request: the detailed exchange and the event loop agree*)
(* on what a Request may become.                                           *)
THEOREM RoutingAbstracted == Spec => RoutedAsTheLoopExpects
<1>1. Init => Unread
  BY DEF Init, Unread
<1>2. ExchangeInv /\ Unread /\ [Next]_vars => Unread'
  <2>1. ASSUME Unread, UNCHANGED vars PROVE Unread'
    BY <2>1 DEF Unread, vars
  <2> QED BY <2>1, NextRouted
<1>3. ExchangeInv /\ Unread /\ [Next]_vars => [Routed]_vars
  BY NextRouted
<1> QED BY <1>1, <1>2, <1>3, ExchangeCorrect, PTL DEF Spec, RoutedAsTheLoopExpects

(* createResponse, by whichever exit, leaves as many responses as the event*)
(* loop's model counts.                                                    *)
THEOREM ResponsesAbstracted == Spec => RespondsAsTheLoopExpects
<1>1. ExchangeInv /\ [Next]_vars => [Responded]_vars
  BY NextResponded
<1> QED BY <1>1, ExchangeCorrect, PTL DEF Spec, RespondsAsTheLoopExpects
=============================================================================
