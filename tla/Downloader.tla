----------------------------- MODULE Downloader ------------------------------
(***************************************************************************)
(* HTTPDownloader (include/http/download_html.hpp): one crawler thread     *)
(* downloads one page, from PrintHtml(url) to the page or the exception    *)
(* that makes the thread drop the URL.  The server, which is the           *)
(* environment, chooses its answer when it is asked, sends it one byte at  *)
(* a time and may stop at any: an end of the connection, an error and the  *)
(* time limit of the socket are the same to the code.                      *)
(***************************************************************************)
EXTENDS Naturals, Sequences, SequencesExt, FiniteSets

CONSTANTS Start,       \* the URL the frontier gave out: its service, host, port and path
          Responses,   \* records with status, location, html, chunked and chunks
          MaxContent,  \* contentTooBig: bytes
          CR, LF       \* the bytes of a line end; a digit is its value, 0 to 15

VARIABLES pc,          \* what the thread does next
          url,         \* redirectUrl, the URL that is asked for
          visitedURLs,
          response,    \* what the server answers, or NoResponse
          wire,        \* the bytes of its body that it has not sent yet
          writer,      \* BufferWriter
          held,        \* what was opened and is not closed
          asked        \* history: the requests made, in order

vars == <<pc, url, visitedURLs, response, wire, writer, held, asked>>

NoResponse == 
  [status |-> 0, location |-> Start, html |-> FALSE, chunked |-> FALSE, chunks |-> <<>>]

Writer(chunked) ==
  [content |-> <<>>, chunked |-> chunked, chunkSize |-> 0, sizeString |-> <<>>,
   late |-> FALSE]   \* history: the header came too late

Init ==
  /\ pc = "connect"
  /\ url = Start
  /\ visitedURLs = {Start}
  /\ response = NoResponse
  /\ wire = <<>>
  /\ writer = Writer(FALSE)
  /\ held = {}
  /\ asked = <<>>

-----------------------------------------------------------------------------
(* URLs                                                                    *)

(* Port of ParsedUrl, when the URL names none                              *)
DefaultPort(service) == IF service = "http" THEN "80" ELSE "443"

(* A location that begins with a slash gets the service and the host of    *)
(* the URL that was asked for, and not its port.  Without a Location the   *)
(* search for its end begins before the header, and what is cut out is the *)
(* end of the status line, which begins with a slash.                      *)
addHost(location, from) ==
  IF location.host # "" THEN location
  ELSE [location EXCEPT !.service = from.service, !.host = from.host,
                        !.port = DefaultPort(from.service)]

-----------------------------------------------------------------------------
(* BufferWriter                                                            *)

contentTooBig(w) == Len(w.content) > MaxContent

(* stoi with base 16: a string that begins with no digit is 0.             *)
Stoi(digits) ==
  LET end == SelectInSeq(digits, LAMBDA d : d \notin 0 .. 15)
      used == IF end = 0 THEN digits ELSE SubSeq(digits, 1, end - 1)
      value[i \in 0 .. Len(used)] == IF i = 0 THEN 0 ELSE 16 * value[i - 1] + used[i]
  IN value[Len(used)]

LineEnd == <<CR, LF>>

truncateFront(s) == IF IsPrefix(LineEnd, s) THEN SubSeq(s, 3, Len(s)) ELSE s

(* Mutant of print: the string with a size is not emptied.                 *)
printSizeKept(w, byte) ==
  IF ~w.chunked THEN [w EXCEPT !.content = Append(@, byte)]
  ELSE IF w.chunkSize > 0
    THEN [w EXCEPT !.content = Append(@, byte), !.chunkSize = @ - 1]
  ELSE LET s == truncateFront(Append(w.sizeString, byte)) IN
    IF IsSuffix(LineEnd, s)
      THEN [w EXCEPT !.chunkSize = Stoi(SubSeq(s, 1, Len(s) - 2)),
                     !.sizeString = SubSeq(s, 1, Len(s) - 2)]
      ELSE [w EXCEPT !.sizeString = s]

(* A byte of the body: of a chunk, or of the line with the size of the     *)
(* next one.                                                               *)
print(w, byte) ==
  IF ~w.chunked THEN [w EXCEPT !.content = Append(@, byte)]
  ELSE IF w.chunkSize > 0
    THEN [w EXCEPT !.content = Append(@, byte), !.chunkSize = @ - 1]
  ELSE LET s == truncateFront(Append(w.sizeString, byte)) IN
    IF IsSuffix(LineEnd, s)
      THEN [w EXCEPT !.chunkSize = Stoi(SubSeq(s, 1, Len(s) - 2)), !.sizeString = <<>>]
      ELSE [w EXCEPT !.sizeString = s]

(* What a server sends for chunks: the size of each, and an empty one.     *)
HexDigits(n) ==
  LET digits[m \in 0 .. n] ==
        IF m < 16 THEN <<m>> ELSE Append(digits[m \div 16], m % 16)
  IN digits[n]
Block(chunk) == HexDigits(Len(chunk)) \o LineEnd \o chunk \o LineEnd
Encoded(chunks) ==
  LET all == Append(chunks, <<>>) IN FlattenSeq([i \in DOMAIN all |-> Block(all[i])])
Body(r) == IF r.chunked THEN Encoded(r.chunks) ELSE FlattenSeq(r.chunks)

-----------------------------------------------------------------------------
(* One request, PrintGetRedirect                                           *)

(* Mutant of Close: a connection that is not up is not closed.             *)
CloseOnlySSL == IF "session" \in held THEN {} ELSE held

(* ~CWWrapper, once the connection stands ("session").  A constructor that *)
(* throws is not followed by the destructor: the base class closes its     *)
(* socket, the address list and the SSL context stay.                      *)
Close == IF "session" \in held THEN {} ELSE held \ {"socket"}

Throw == pc' = "failed" /\ held' = Close

Keep == UNCHANGED <<url, visitedURLs, response, wire, writer, asked>>

(* getaddrinfo, which fails before anything is opened                      *)
Resolve ==
  /\ pc = "connect" /\ held \cap {"addresses", "socket"} = {}
  /\ \/ held' = held \cup {"addresses"} /\ UNCHANGED pc
     \/ Throw
  /\ Keep

OpenSocket ==
  /\ pc = "connect" /\ "addresses" \in held
  /\ \/ held' = held \cup {"socket"} /\ pc' = "connecting"
     \/ Throw
  /\ Keep

Connect ==
  /\ pc = "connecting"
  /\ \/ /\ held' = (held \ {"addresses"}) \cup (IF url.service = "http" THEN {"session"} ELSE {})
        /\ pc' = IF url.service = "http" THEN "write" ELSE "ssl"
     \/ Throw
  /\ Keep

(* The handshake of SSLWrapper                                             *)
ConnectSSL ==
  /\ pc = "ssl"
  /\ \/ held' = held \cup {"context", "session"} /\ pc' = "write"
     \/ pc' = "failed" /\ held' = (held \cup {"context"}) \ {"socket"}
  /\ Keep

Write ==
  /\ pc = "write"
  /\ \/ \E r \in Responses :
          /\ response' = r
          /\ wire' = Body(r)
          /\ writer' = Writer(FALSE)
          /\ asked' = Append(asked, url)
          /\ pc' = "header" /\ UNCHANGED <<url, visitedURLs, held>>
     \/ Throw /\ Keep

(* Mutant of Redirect: the URLs that were asked for are not remembered.    *)
RedirectAgain(target) ==
  /\ held' = {}
  /\ url' = target
  /\ IF target = url THEN pc' = "failed" /\ UNCHANGED visitedURLs
     ELSE pc' = "connect" /\ UNCHANGED visitedURLs

(* The catch block of PrintFile                                            *)
Redirect(target) ==
  /\ held' = {}
  /\ url' = target
  /\ IF target \in visitedURLs
       THEN pc' = "failed" /\ UNCHANGED visitedURLs
       ELSE pc' = "connect" /\ visitedURLs' = visitedURLs \cup {target}

(* parseHeader, once the header is there.  4xx and 5xx, another type than  *)
(* text/html: an exception; 3xx: another request.                          *)
parseHeader ==
  /\ pc = "header"
  /\ \/ /\ response.status = 3
        /\ Redirect(addHost(response.location, url))
        /\ UNCHANGED writer
     \/ /\ response.status \in {4, 5} \/ (response.status = 2 /\ ~response.html)
        /\ Throw
        /\ UNCHANGED <<url, visitedURLs, writer>>
     \/ /\ response.status = 2 /\ response.html
        /\ writer' = [writer EXCEPT !.chunked = response.chunked]
        /\ pc' = "body"
        /\ UNCHANGED <<url, visitedURLs, held>>
  /\ UNCHANGED <<response, wire, asked>>

(* The connection ends before the header does: parseHeader returns as if   *)
(* it had, and the page is empty.                                          *)
HeaderCut ==
  /\ pc = "header"
  /\ pc' = "done" /\ held' = {}
  /\ Keep

(* So it does when the header pauses for longer than the time limit.  What *)
(* is left of it, here the end, is then read as content that is not in     *)
(* chunks, whatever its status is.                                         *)
HeaderLate ==
  /\ pc = "header"
  /\ pc' = "body"
  /\ writer' = [writer EXCEPT !.late = TRUE]
  /\ wire' = LineEnd \o LineEnd \o wire
  /\ UNCHANGED <<url, visitedURLs, response, held, asked>>

(* A byte is the last of its read, and the size is tested, or it is not.   *)
Read ==
  /\ pc = "body" /\ wire # <<>>
  /\ writer' = print(writer, Head(wire))
  /\ wire' = Tail(wire)
  /\ \/ contentTooBig(writer') /\ Throw
     \/ UNCHANGED <<pc, held>>
  /\ UNCHANGED <<url, visitedURLs, response, asked>>

(* Nothing more comes: finalUrl is set and the content returned, whether   *)
(* or not it is all of it.                                                 *)
BodyEnd ==
  /\ pc = "body"
  /\ pc' = "done" /\ held' = {}
  /\ Keep

Next ==
  \/ Resolve \/ OpenSocket \/ Connect \/ ConnectSSL \/ Write
  \/ parseHeader \/ HeaderCut \/ HeaderLate \/ Read \/ BodyEnd

Spec == Init /\ [][Next]_vars

-----------------------------------------------------------------------------
Ended == pc \in {"done", "failed"}

(* No URL is asked for twice, so that a ring of redirects ends.            *)
NeverAskedTwice == IsInjective(asked)

(* The content is what the server put into chunks, as far as it came, and  *)
(* all of it when it came to its end; an answer other than a page leaves   *)
(* it empty.  After a late header it is what came then, undecoded.         *)
ContentExact ==
  LET sent == FlattenSeq(response.chunks) IN
    IF writer.late THEN IsPrefix(writer.content, LineEnd \o LineEnd \o Body(response))
    ELSE /\ IsPrefix(writer.content, sent)
         /\ (pc = "body" /\ wire = <<>>) => writer.content = sent
         /\ writer.content # <<>> => response.status = 2 /\ response.html

(* Whichever step fails, the thread keeps no socket.                       *)
SocketsClosed == Ended => "socket" \notin held

(* A download ends, with what was sent and without what it opened.         *)
DownloadExact == NeverAskedTwice /\ ContentExact /\ SocketsClosed

=============================================================================
