---------------------------- MODULE HandleSocket ----------------------------
(***************************************************************************)
(* The master's socket threads and how they end (src/handle_socket.cpp,    *)
(* src/master_url_tcp.cpp).                                                *)
(*                                                                         *)
(* One thread accepts connections of workers and starts a detached handler *)
(* thread for each.  Handlers count themselves in num_threads while they   *)
(* live.  terminate_workers, called by the main thread before it shuts the *)
(* frontier down, waits for that count to become zero.                     *)
(*                                                                         *)
(* num_threads and do_terminate are only written under term_mtx, and a     *)
(* critical section of term_mtx is one step.  A handler reads do_terminate *)
(* once without the mutex, in a step of its own.                           *)
(***************************************************************************)
EXTENDS Naturals, FiniteSets

CONSTANTS Conns,   \* the connections that workers open, one handler for each
          NoConn

ASSUME ConnsAssumption == IsFiniteSet(Conns) /\ NoConn \notin Conns

VARIABLES
  backlog,        \* the connections that the master has not accepted yet
  aPc, accepted,  \* the accepting thread, and the connection it got
  hPc,            \* where the handler thread of each connection is
  message,        \* the message type its last recv_char returned
  num_threads,
  do_terminate,
  mPc             \* where the main thread is in terminate_workers

vars == <<backlog, aPc, accepted, hPc, message, num_threads, do_terminate,
          mPc>>

Messages == {"R", "S", "T", "other"}

Init ==
  /\ backlog = Conns
  /\ aPc = "check"
  /\ accepted = NoConn
  /\ hPc = [c \in Conns |-> "none"]
  /\ message = [c \in Conns |-> "other"]
  /\ num_threads = 0
  /\ do_terminate = FALSE
  /\ mPc = "running"

-----------------------------------------------------------------------------
(* The accepting thread: handle_socket                                     *)

AcceptCheck ==
  /\ aPc = "check"
  /\ aPc' = IF do_terminate THEN "returned" ELSE "accept"
  /\ UNCHANGED <<backlog, accepted, hPc, message, num_threads, do_terminate,
                 mPc>>

(* A worker connects whenever it likes, or never.                          *)
Accept(c) ==
  /\ aPc = "accept"
  /\ c \in backlog
  /\ backlog' = backlog \ {c}
  /\ accepted' = c
  /\ aPc' = "recheck"
  /\ UNCHANGED <<hPc, message, num_threads, do_terminate, mPc>>

AcceptRecheck ==
  /\ aPc = "recheck"
  /\ aPc' = IF do_terminate THEN "returned" ELSE "spawn"
  /\ UNCHANGED <<backlog, accepted, hPc, message, num_threads, do_terminate,
                 mPc>>

(* The thread it starts is not counted before it has run its first line.   *)
AcceptSpawn ==
  /\ aPc = "spawn"
  /\ hPc' = [hPc EXCEPT ![accepted] = "spawned"]
  /\ accepted' = NoConn
  /\ aPc' = "check"
  /\ UNCHANGED <<backlog, message, num_threads, do_terminate, mPc>>

-----------------------------------------------------------------------------
(* A handler thread: handle_socket_helper                                  *)

HandlerGoto(c, l) == hPc' = [hPc EXCEPT ![c] = l]

(* Mutant of TrackerBegin: the thread is not counted.                      *)
TrackerBeginUncounted(c) ==
  /\ hPc[c] = "spawned"
  /\ num_threads' = num_threads
  /\ HandlerGoto(c, "verify")
  /\ UNCHANGED <<backlog, aPc, accepted, message, do_terminate, mPc>>

(* The constructor of ThreadLifeTracker                                    *)
TrackerBegin(c) ==
  /\ hPc[c] = "spawned"
  /\ num_threads' = num_threads + 1
  /\ HandlerGoto(c, "verify")
  /\ UNCHANGED <<backlog, aPc, accepted, message, do_terminate, mPc>>

(* The worker sends the verification code, or something else, or nothing   *)
(* any more.                                                               *)
RecvVerification(c) ==
  /\ hPc[c] = "verify"
  /\ \E ok \in BOOLEAN : HandlerGoto(c, IF ok THEN "recv" ELSE "leave")
  /\ UNCHANGED <<backlog, aPc, accepted, message, num_threads, do_terminate,
                 mPc>>

RecvMessage(c, m) ==
  /\ hPc[c] = "recv"
  /\ message' = [message EXCEPT ![c] = m]
  /\ HandlerGoto(c, "check")
  /\ UNCHANGED <<backlog, aPc, accepted, num_threads, do_terminate, mPc>>

(* The connection breaks while the handler receives.                       *)
RecvFails(c) ==
  /\ hPc[c] \in {"recv", "recv_pages"}
  /\ HandlerGoto(c, "leave")
  /\ UNCHANGED <<backlog, aPc, accepted, message, num_threads, do_terminate,
                 mPc>>

(* Mutant of CheckTerminate: do_terminate is not looked at.                *)
CheckTerminateNot(c) ==
  /\ hPc[c] = "check"
  /\ HandlerGoto(c, CASE message[c] = "R" -> "get_url"
     [] message[c] = "S" -> "recv_pages"
     [] OTHER            -> "leave")
  /\ UNCHANGED <<backlog, aPc, accepted, message, num_threads, do_terminate,
                 mPc>>

(* if (do_terminate) return, after the message has arrived.  An R begins   *)
(* handle_request, an S begins handle_send, and all else ends the thread.  *)
CheckTerminate(c) ==
  /\ hPc[c] = "check"
  /\ HandlerGoto(c, IF do_terminate THEN "leave"
                    ELSE CASE message[c] = "R" -> "get_url"
                           [] message[c] = "S" -> "recv_pages"
                           [] OTHER            -> "leave")
  /\ UNCHANGED <<backlog, aPc, accepted, message, num_threads, do_terminate,
                 mPc>>

(* Frontier::getUrl                                                        *)
RequestGetUrl(c) ==
  /\ hPc[c] = "get_url"
  /\ HandlerGoto(c, "send_urls")
  /\ UNCHANGED <<backlog, aPc, accepted, message, num_threads, do_terminate,
                 mPc>>

(* A SocketException of send_urls is caught: the loop goes on either way.  *)
RequestSendUrls(c) ==
  /\ hPc[c] = "send_urls"
  /\ HandlerGoto(c, "recv")
  /\ UNCHANGED <<backlog, aPc, accepted, message, num_threads, do_terminate,
                 mPc>>

SendRecvPages(c) ==
  /\ hPc[c] = "recv_pages"
  /\ HandlerGoto(c, "add_urls")
  /\ UNCHANGED <<backlog, aPc, accepted, message, num_threads, do_terminate,
                 mPc>>

(* Frontier::addUrls                                                       *)
SendAddUrls(c) ==
  /\ hPc[c] = "add_urls"
  /\ HandlerGoto(c, "leave")
  /\ UNCHANGED <<backlog, aPc, accepted, message, num_threads, do_terminate,
                 mPc>>

(* Mutant of TrackerEnd: the last thread does not signal.                  *)
TrackerEndSilent(c) ==
  /\ hPc[c] = "leave"
  /\ num_threads' = num_threads - 1
  /\ UNCHANGED mPc
  /\ HandlerGoto(c, "ended")
  /\ UNCHANGED <<backlog, aPc, accepted, message, do_terminate>>

(* The destructors: the socket is closed, then ThreadLifeTracker counts    *)
(* down and signals at zero.                                               *)
TrackerEnd(c) ==
  /\ hPc[c] = "leave"
  /\ num_threads' = num_threads - 1
  /\ mPc' = IF num_threads - 1 = 0 /\ mPc = "waiting" THEN "woken" ELSE mPc
  /\ HandlerGoto(c, "ended")
  /\ UNCHANGED <<backlog, aPc, accepted, message, do_terminate>>

Handler(c) ==
  \/ TrackerBegin(c)    \/ RecvVerification(c)
  \/ (\E m \in Messages : RecvMessage(c, m))
  \/ RecvFails(c)       \/ CheckTerminate(c)
  \/ RequestGetUrl(c)   \/ RequestSendUrls(c)
  \/ SendRecvPages(c)   \/ SendAddUrls(c)
  \/ TrackerEnd(c)

-----------------------------------------------------------------------------
(* The main thread: terminate_workers                                      *)

(* Mutant of Terminate: it does not wait for the last thread.              *)
TerminateEarly ==
  /\ mPc = "running"
  /\ do_terminate' = TRUE
  /\ mPc' = IF num_threads > 1 THEN "waiting" ELSE "returned"
  /\ UNCHANGED <<backlog, aPc, accepted, hPc, message, num_threads>>

Terminate ==
  /\ mPc = "running"
  /\ do_terminate' = TRUE
  /\ mPc' = IF num_threads # 0 THEN "waiting" ELSE "returned"
  /\ UNCHANGED <<backlog, aPc, accepted, hPc, message, num_threads>>

TerminateWoken ==
  /\ mPc = "woken"
  /\ mPc' = IF num_threads # 0 THEN "waiting" ELSE "returned"
  /\ UNCHANGED <<backlog, aPc, accepted, hPc, message, num_threads,
                 do_terminate>>

Next ==
  \/ AcceptCheck \/ AcceptRecheck \/ AcceptSpawn
  \/ \E c \in Conns : Accept(c) \/ Handler(c)
  \/ Terminate \/ TerminateWoken

Spec == Init /\ [][Next]_vars

(* Threads run, and a worker that has connected goes on sending until it   *)
(* is done or its connection breaks.  Nobody has to connect, and nobody    *)
(* has to shut the master down.                                            *)
Fairness ==
  /\ WF_vars(AcceptCheck) /\ WF_vars(AcceptRecheck) /\ WF_vars(AcceptSpawn)
  /\ \A c \in Conns : WF_vars(Handler(c))
  /\ WF_vars(TerminateWoken)

FairSpec == Spec /\ Fairness

-----------------------------------------------------------------------------
AccepterPcs == {"check", "accept", "recheck", "spawn", "returned"}
HandlerPcs == {"none", "spawned", "verify", "recv", "check", "get_url",
               "send_urls", "recv_pages", "add_urls", "leave", "ended"}
MainPcs == {"running", "waiting", "woken", "returned"}

TypeOK ==
  /\ backlog \in SUBSET Conns
  /\ aPc \in AccepterPcs
  /\ accepted \in Conns \cup {NoConn}
  /\ hPc \in [Conns -> HandlerPcs]
  /\ message \in [Conns -> Messages]
  /\ num_threads \in Nat
  /\ do_terminate \in BOOLEAN
  /\ mPc \in MainPcs

(* The handlers that the count covers, and those that use the frontier.    *)
Tracked == {c \in Conns : hPc[c] \notin {"none", "spawned", "ended"}}
UsesFrontier(c) == hPc[c] \in {"get_url", "add_urls"}

(* Once terminate_workers has returned no handler is in getUrl or addUrls, *)
(* and none gets there later: the frontier is shut down with nobody in it. *)
(* Handlers that were started but not counted when the count was zero are  *)
(* kept out by their own look at do_terminate.                             *)
FrontierUnused ==
  mPc = "returned" => \A c \in Conns : ~UsesFrontier(c)

(* A handler that was in the middle of a conversation when the main thread *)
(* called terminate_workers has ended before terminate_workers returns.    *)
ConversationsEnd ==
  [][(mPc # "returned" /\ mPc' = "returned") => Tracked = {}]_vars

(* terminate_workers returns if every worker goes on sending.  The signal  *)
(* of the last handler is not lost.                                        *)
TerminateReturns == do_terminate ~> (mPc = "returned")

=============================================================================
