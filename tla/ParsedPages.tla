----------------------------- MODULE ParsedPages -----------------------------
(***************************************************************************)
(* Parsed pages on their way to the master: add_parsed and                 *)
(* send_parsed_pages of a worker (src/worker_url_tcp.cpp), and             *)
(* recv_parsed_pages of the master (src/master_url_tcp.cpp), which answers *)
(* nothing.  A page is a number; its links travel with it.  (In this       *)
(* commit Parser::addUrls is FALSE, and no parser thread has links to      *)
(* hand over.)                                                             *)
(***************************************************************************)
EXTENDS Naturals, Sequences, SequencesExt, FiniteSets

CONSTANTS Parsers,         \* the parser threads
          PAGES_PER_SEND,
          MaxPages,        \* bound: pages parsed
          MaxBreaks        \* bound: connections that break or are refused

VARIABLES parsed,        \* how many pages have been parsed
          urls_parsed,
          temp,          \* [Parsers -> the pages its message still lacks]
          pc,            \* [Parsers -> where the thread is in add_parsed]
          messages,      \* one for each connection: who sends, the size he
                         \* announced, the pages sent, and what became of it
          listening,     \* the master accepts connections
          breaks

vars == <<parsed, urls_parsed, temp, pc, messages, listening, breaks>>

Init ==
  /\ parsed = 0 /\ urls_parsed = <<>>
  /\ temp = [p \in Parsers |-> <<>>]
  /\ pc = [p \in Parsers |-> "parse"]
  /\ messages = <<>>
  /\ listening = TRUE /\ breaks = 0

Goto(p, l) == pc' = [pc EXCEPT ![p] = l]

-----------------------------------------------------------------------------
(* Under parsed_m: whoever fills the buffer takes it.                      *)
Add(p) ==
  LET all == Append(urls_parsed, parsed + 1) IN
  /\ pc[p] = "parse" /\ parsed < MaxPages
  /\ parsed' = parsed + 1
  /\ IF Len(all) < PAGES_PER_SEND
     THEN urls_parsed' = all /\ UNCHANGED <<temp, pc>>
     ELSE urls_parsed' = <<>> /\ temp' = [temp EXCEPT ![p] = all] /\ Goto(p, "connect")
  /\ UNCHANGED <<messages, listening, breaks>>

(* open_socket_to_master, the 'S' and the number of pages                  *)
Connect(p) ==
  /\ pc[p] = "connect" /\ listening
  /\ messages' = Append(messages,
                   [from |-> p, size |-> Len(temp[p]), pages |-> <<>>, state |-> "open"])
  /\ Goto(p, "send")
  /\ UNCHANGED <<parsed, urls_parsed, temp, listening, breaks>>

(* The loop begins again, at once.  When the master has gone, it does so   *)
(* for ever.                                                               *)
ConnectFails(p) ==
  /\ pc[p] = "connect" /\ breaks < MaxBreaks
  /\ breaks' = breaks + 1
  /\ UNCHANGED <<parsed, urls_parsed, temp, pc, messages, listening>>

(* The message that a thread sends, the last one it began                  *)
Current(p) ==
  CHOOSE m \in DOMAIN messages :
    messages[m].from = p /\ \A n \in DOMAIN messages : messages[n].from = p => n <= m

Popped(p) ==
  /\ pc[p] = "send" /\ temp[p] # <<>>
  /\ temp' = [temp EXCEPT ![p] = Front(@)]
  /\ messages' = [messages EXCEPT ![Current(p)].pages = Append(@, Last(temp[p]))]
  /\ UNCHANGED <<parsed, urls_parsed, listening, breaks>>

(* A page is taken out of the vector and sent.  A connection that broke    *)
(* may take it nevertheless.                                               *)
SendPage(p) == Popped(p) /\ UNCHANGED pc

(* Mutant of SendFails: the page is taken out only when it is sent.        *)
SendFailsKeeping(p) ==
  /\ pc[p] = "send" /\ temp[p] # <<>>
  /\ messages[Current(p)].state = "broken"
  /\ Goto(p, "connect")
  /\ messages' = [messages EXCEPT ![Current(p)].pages = Append(@, Last(temp[p]))]
  /\ UNCHANGED <<parsed, urls_parsed, temp, listening, breaks>>

(* An exception while a page is sent: it is out of the vector, and what is *)
(* left becomes a new message.                                             *)
SendFails(p) ==
  /\ Popped(p)
  /\ messages[Current(p)].state = "broken"
  /\ Goto(p, "connect")

SendEnd(p) ==
  /\ pc[p] = "send" /\ temp[p] = <<>>
  /\ Goto(p, "parse")
  /\ UNCHANGED <<parsed, urls_parsed, temp, messages, listening, breaks>>

-----------------------------------------------------------------------------
(* recv_parsed_pages has as many pages as were announced, and handle_send  *)
(* gives them to the frontier.                                             *)
Receive(m) ==
  /\ messages[m].state = "open"
  /\ Len(messages[m].pages) = messages[m].size
  /\ messages' = [messages EXCEPT ![m].state = "added"]
  /\ UNCHANGED <<parsed, urls_parsed, temp, pc, listening, breaks>>

(* The connection, or the master's handler of it, ends: recv throws, and   *)
(* the pages that came are dropped.                                        *)
Break(m) ==
  /\ messages[m].state = "open" /\ breaks < MaxBreaks
  /\ breaks' = breaks + 1
  /\ messages' = [messages EXCEPT ![m].state = "broken"]
  /\ UNCHANGED <<parsed, urls_parsed, temp, pc, listening>>

(* do_terminate: the accepting thread returns                              *)
StopListening ==
  /\ listening
  /\ listening' = FALSE
  /\ UNCHANGED <<parsed, urls_parsed, temp, pc, messages, breaks>>

Sender(p) == Connect(p) \/ SendPage(p) \/ SendFails(p) \/ SendEnd(p)

Next ==
  \/ \E p \in Parsers : Add(p) \/ ConnectFails(p) \/ Sender(p)
  \/ \E m \in DOMAIN messages : Receive(m) \/ Break(m)
  \/ StopListening

Spec == Init /\ [][Next]_vars

(* The threads run.                                                        *)
Fairness == \A p \in Parsers : WF_vars(Sender(p))

-----------------------------------------------------------------------------
Copies(page) ==
  Cardinality({p \in Parsers : page \in ToSet(temp[p])})
    + Cardinality({m \in DOMAIN messages : page \in ToSet(messages[m].pages)})
    + (IF page \in ToSet(urls_parsed) THEN 1 ELSE 0)

(* Although the worker tries again after every failure, a page goes to the *)
(* master in one message, so that the frontier does not get it twice, and  *)
(* it is lost only in a message that broke.  The frontier gets a message   *)
(* whole or not at all, and of a batch that was interrupted the rest.      *)
PagesOnce ==
  /\ \A page \in 1 .. parsed : Copies(page) = 1
  /\ \A m \in DOMAIN messages :
       messages[m].state = "added" => Len(messages[m].pages) = messages[m].size
  /\ Len(urls_parsed) < PAGES_PER_SEND

(* A thread gets out of add_parsed while the master listens, if not every  *)
(* connection breaks or is refused.                                        *)
AddReturns ==
  \A p \in Parsers : pc[p] # "parse" ~> pc[p] = "parse" \/ ~listening

=============================================================================
