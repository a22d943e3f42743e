------------------------------ MODULE WebServer -----------------------------
(***************************************************************************)
(* The web server (src/server.cpp) on the bolt library (src/bolt).  The    *)
(* main thread accepts a connection, reads its request, which nothing      *)
(* limits in time, and starts a thread that answers it.  The threads share *)
(* resultCounter, resultOptions and queryResult without a lock; sockMtx    *)
(* only serialises the conversations with the query server.                *)
(*                                                                         *)
(* A query is known by its number, in the order of the requests.           *)
(* Assignments of queryResult and resultOptions are one step.              *)
(***************************************************************************)
EXTENDS Integers, Sequences, FiniteSets

CONSTANTS Kinds,          \* what a request may ask for: "home", "results", "next",
                          \* "previous"; "empty", results for the empty query;
                          \* "cut" ends right after its type or its path
          MaxRequests,    \* bound: connections
          Threads,        \* bound: 1 .. the requests answered at a time
          Sizes,          \* bound: how many results a query may have
          numResults,     \* results on a page (10 in the code)
          SizeMod         \* SizeT counts modulo this

VARIABLES running,         \* FALSE when an exception has ended the process
          accepted,        \* connections so far
          handles,         \* how many client handles are open
          request, query,  \* [Threads -> what is asked for]
          tPc,             \* [Threads -> where it is]
          reply, show,     \* its locals: results received, rows to be shown
          counter,         \* what it has loaded from resultCounter
          page,            \* the page it builds
          resultCounter, resultOptions, queryResult, sockMtx,
          alone, stale,    \* history: requests that ran alone, and those for
                           \* which a global has changed since the check
          trail            \* history: the last two pages of who pages alone

main == <<running, accepted, handles, request, query>>
locals == <<tPc, reply, show, counter, page>>
globals == <<resultCounter, resultOptions, queryResult, sockMtx>>
history == <<alone, stale, trail>>
vars == <<main, locals, globals, history>>

Garbage == [query |-> 0, index |-> -1]
NoPage == [kind |-> "none", name |-> 0, of |-> 0, rows |-> <<>>]

Init ==
  /\ running = TRUE /\ accepted = 0
  /\ handles = 0
  /\ request = [t \in Threads |-> "none"] /\ query = [t \in Threads |-> 0]
  /\ tPc = [t \in Threads |-> "none"]
  /\ reply = [t \in Threads |-> 0] /\ show = [t \in Threads |-> 0]
  /\ counter = [t \in Threads |-> 0]
  /\ page = [t \in Threads |-> NoPage]
  /\ resultCounter = -1 /\ resultOptions = 0
  /\ queryResult = [query |-> 0, size |-> 0]
  /\ sockMtx = 0
  /\ alone = {} /\ stale = {} /\ trail = <<>>

Live == {t \in Threads : tPc[t] # "none"}
Goto(t, l) == tPc' = [tPc EXCEPT ![t] = l]

-----------------------------------------------------------------------------
(* The main thread: serveNextRequest, from one accept to the next          *)

(* The client closes before it has sent anything.  The exception is caught *)
(* and the handle is not closed.                                           *)
ReadFails ==
  /\ running /\ accepted < MaxRequests
  /\ accepted' = accepted + 1
  /\ handles' = handles + 1
  /\ UNCHANGED <<running, request, query, locals, globals, history>>

(* Where the handler that getHtmlPage finds for the path begins.  home and *)
(* the default page use no globals.  What the thread does before that is   *)
(* its own.                                                                *)
Handler(kind) ==
  CASE kind = "cut" -> "fail" [] kind = "home" -> "respond"
    [] kind \in {"results", "empty"} -> "reset"
    [] OTHER -> "test"

ReadRequest(t, kind) ==
  /\ running /\ accepted < MaxRequests
  /\ tPc[t] = "none" /\ \A s \in Threads : s < t => tPc[s] # "none"
  /\ accepted' = accepted + 1 /\ handles' = handles + 1
  /\ request' = [request EXCEPT ![t] = kind]
  /\ query' = [query EXCEPT ![t] = accepted + 1]
  /\ page' = [page EXCEPT ![t].kind = kind]
  /\ Goto(t, Handler(kind))
  /\ alone' = IF Live = {} THEN {t} ELSE {}
  /\ UNCHANGED <<running, reply, show, counter, globals, stale, trail>>

-----------------------------------------------------------------------------
(* The thread t: respondToRequest                                          *)

(* HttpRequest: nextWord throws at the end of the buffer, in a thread that *)
(* catches nothing.  pastEnd is true before the end, so that parseHeaders  *)
(* calls nextWord exactly when there is nothing left.                      *)
ParseFails(t) ==
  /\ tPc[t] = "fail"
  /\ running' = FALSE
  /\ UNCHANGED <<accepted, handles, request, query, locals, globals, history>>

(* A change of what a page that is being built depends on.                 *)
Changes(t) ==
  stale' = stale \cup {s \in Live \ {t} : tPc[s] \in {"count", "row"}}

ResetCounter(t) ==
  /\ tPc[t] = "reset"
  /\ resultCounter' = 0 /\ Changes(t)
  /\ Goto(t, "options")
  /\ UNCHANGED <<main, reply, show, counter, page, resultOptions, queryResult,
                 sockMtx, alone, trail>>

(* An empty query: "You should type something!"                            *)
SetOptions(t) ==
  /\ tPc[t] = "options"
  /\ resultOptions' = query[t]
  /\ Goto(t, IF request[t] = "empty" THEN "respond" ELSE "lock")
  /\ UNCHANGED <<main, reply, show, counter, page, resultCounter, queryResult,
                 sockMtx, history>>

Lock(t) ==
  /\ tPc[t] = "lock" /\ sockMtx = 0
  /\ sockMtx' = t
  /\ Goto(t, "ask")
  /\ UNCHANGED <<main, reply, show, counter, page, resultCounter,
                 resultOptions, queryResult, history>>

(* Mutant of Receive: the lock is kept when the socket fails.              *)
ReceiveLocked(t, n) ==
  /\ tPc[t] = "ask"
  /\ reply' = [reply EXCEPT ![t] = n]
  /\ sockMtx' = IF n = 0 THEN sockMtx ELSE 0
  /\ Goto(t, "assign")
  /\ UNCHANGED <<main, show, counter, page, resultCounter, resultOptions,
                 queryResult, history>>

(* The rest of ask_query; there are no results when the socket fails.      *)
Receive(t, n) ==
  /\ tPc[t] = "ask"
  /\ reply' = [reply EXCEPT ![t] = n]
  /\ sockMtx' = 0
  /\ Goto(t, "assign")
  /\ UNCHANGED <<main, show, counter, page, resultCounter, resultOptions,
                 queryResult, history>>

Assign(t) ==
  /\ tPc[t] = "assign"
  /\ queryResult' = [query |-> query[t], size |-> reply[t]] /\ Changes(t)
  /\ Goto(t, "label")
  /\ UNCHANGED <<main, reply, show, counter, page, resultCounter,
                 resultOptions, sockMtx, alone, trail>>

(* next and previous: the counter is tested, loaded and stored.            *)
Refused(t) == IF request[t] = "next" THEN resultCounter = -1
                                     ELSE resultCounter <= 0

Test(t) ==
  /\ tPc[t] = "test"
  /\ Goto(t, IF Refused(t) THEN "respond" ELSE "load")
  /\ UNCHANGED <<main, reply, show, counter, page, globals, history>>

Load(t) ==
  /\ tPc[t] = "load"
  /\ counter' = [counter EXCEPT ![t] = resultCounter]
  /\ Goto(t, "store")
  /\ UNCHANGED <<main, reply, show, page, globals, history>>

Store(t) ==
  /\ tPc[t] = "store"
  /\ resultCounter' = counter[t] + (IF request[t] = "next" THEN 1 ELSE -1)
  /\ Changes(t)
  /\ Goto(t, "label")
  /\ UNCHANGED <<main, reply, show, counter, page, resultOptions, queryResult,
                 sockMtx, alone, trail>>

-----------------------------------------------------------------------------
(* kthResults                                                              *)

Label(t) ==
  /\ tPc[t] = "label"
  /\ page' = [page EXCEPT ![t].name = resultOptions]
  /\ Goto(t, "check")
  /\ UNCHANGED <<main, reply, show, counter, globals, history>>

(* resultCounter * numResults is unsigned: a negative counter is beyond    *)
(* every size.                                                             *)
First == (resultCounter * numResults) % SizeMod

(* Mutant of Check: the product is a signed number.                        *)
CheckSigned(t) ==
  LET n == queryResult.size - resultCounter * numResults IN
  /\ tPc[t] = "check"
  /\ page' = [page EXCEPT ![t].of = IF n > 0 THEN queryResult.size ELSE 0]
  /\ Goto(t, IF n > 0 THEN "count" ELSE "respond")
  /\ UNCHANGED <<main, reply, show, counter, globals, history>>

(* When there is nothing left the page says so, and the counter stays.     *)
Check(t) ==
  LET n == queryResult.size - First IN
  /\ tPc[t] = "check"
  /\ page' = [page EXCEPT ![t].of = IF n > 0 THEN queryResult.size ELSE 0]
  /\ Goto(t, IF n > 0 THEN "count" ELSE "respond")
  /\ UNCHANGED <<main, reply, show, counter, globals, history>>

(* The globals are read again for the number of rows, and the difference   *)
(* is unsigned: there may be none left, or a full page of what is not      *)
(* there.                                                                  *)
CountRows(t) ==
  LET n == (queryResult.size - First) % SizeMod
      rows == IF n < numResults THEN n ELSE numResults IN
  /\ tPc[t] = "count"
  /\ show' = [show EXCEPT ![t] = rows]
  /\ Goto(t, IF rows = 0 THEN "respond" ELSE "row")
  /\ UNCHANGED <<main, reply, counter, page, globals, history>>

(* Mutant of Index: the results are taken from the front.                  *)
IndexFront(i) == resultCounter * numResults + i

(* The best results are at the back.                                       *)
Index(i) == queryResult.size - resultCounter * numResults - i - 1

(* operator[] does not check: out of range it is undefined what is read.   *)
Row(t) ==
  LET i == Len(page[t].rows)
      row == IF Index(i) \in 0 .. queryResult.size - 1
             THEN [query |-> queryResult.query, index |-> Index(i)] ELSE Garbage IN
  /\ tPc[t] = "row"
  /\ page' = [page EXCEPT ![t].rows = Append(@, row)]
  /\ Goto(t, IF i + 1 = show[t] THEN "respond" ELSE "row")
  /\ UNCHANGED <<main, reply, show, counter, globals, history>>

RowFaults(t) ==
  /\ tPc[t] = "row"
  /\ Index(Len(page[t].rows)) \notin 0 .. queryResult.size - 1
  /\ page' = [page EXCEPT ![t].rows = Append(@, Garbage)]
  /\ running' = FALSE
  /\ UNCHANGED <<accepted, handles, request, query, tPc, reply, show, counter,
                 globals, history>>

(* sendResponse; the locals of the thread are gone.                        *)
Respond(t) ==
  /\ tPc[t] = "respond"
  /\ handles' = handles - 1
  /\ Goto(t, "none")
  /\ request' = [request EXCEPT ![t] = "none"] /\ query' = [query EXCEPT ![t] = 0]
  /\ reply' = [reply EXCEPT ![t] = 0] /\ show' = [show EXCEPT ![t] = 0]
  /\ counter' = [counter EXCEPT ![t] = 0]
  /\ page' = [page EXCEPT ![t] = NoPage]
  /\ alone' = alone \ {t} /\ stale' = stale \ {t}
  /\ trail' = IF t \notin alone \/ request[t] = "empty" THEN <<>>
              ELSE CASE request[t] = "home" -> trail
                     [] request[t] = "results" -> <<page[t]>>
                     [] OTHER -> IF trail = <<>> THEN <<>>
                                 ELSE <<trail[Len(trail)], page[t]>>
  /\ UNCHANGED <<running, accepted, globals>>

Responder(t) ==
  /\ running
  /\ \/ ParseFails(t) \/ ResetCounter(t) \/ SetOptions(t)
     \/ Lock(t) \/ Assign(t) \/ Test(t) \/ Load(t) \/ Store(t)
     \/ \E n \in Sizes : Receive(t, n)
     \/ Label(t) \/ Check(t) \/ CountRows(t) \/ Row(t) \/ RowFaults(t) \/ Respond(t)

Clients ==
  \/ ReadFails
  \/ \E t \in Threads, kind \in Kinds : ReadRequest(t, kind)

Next == Clients \/ \E t \in Threads : Responder(t)

Spec == Init /\ [][Next]_vars

(* The threads run, and the query server answers or its socket breaks.     *)
(* Nothing makes a client send its request.                                *)
Fairness == \A t \in Threads : WF_vars(Responder(t))

-----------------------------------------------------------------------------
LastOf(s) == s[Len(s)]

(* Whoever asks and then pages alone sees the results of his query, best   *)
(* first, on full pages under its name: results starts at the best, next   *)
(* goes on where the page before ended, previous ends where it began, and  *)
(* a page without results comes only after the last one or before the      *)
(* first.                                                                  *)
PagesFollow ==
  \A i \in DOMAIN trail :
    LET rows == trail[i].rows
        prev == IF i = 1 THEN <<>> ELSE trail[i - 1].rows IN
    /\ rows # <<>> =>
         /\ Len(rows) = numResults \/ LastOf(rows).index = 0
         /\ \A k \in DOMAIN rows :
              rows[k] = [query |-> trail[i].name, index |-> rows[1].index - (k - 1)]
         /\ trail[i].kind = "results" => rows[1].index = trail[i].of - 1
    /\ prev # <<>> /\ trail[i].kind = "next" =>
         IF rows = <<>> THEN LastOf(prev).index = 0
         ELSE rows[1] = [LastOf(prev) EXCEPT !.index = @ - 1]
    /\ prev # <<>> /\ trail[i].kind = "previous" =>
         IF rows = <<>> THEN prev[1].index = trail[i - 1].of - 1
         ELSE LastOf(rows) = [prev[1] EXCEPT !.index = @ + 1]

(* The check covers the count and the rows: a result is read out of range  *)
(* only after another request has changed the globals in between, also     *)
(* when requests together have made the counter negative.                  *)
RowsInRange ==
  \A t \in Threads :
    (\E k \in DOMAIN page[t].rows : page[t].rows[k] = Garbage) => t \in stale

(* A request that has been read is answered and its handle closed, unless  *)
(* the process ends.                                                       *)
RequestsEnd ==
  \A t \in Threads : tPc[t] # "none" ~> tPc[t] = "none" \/ ~running

=============================================================================
