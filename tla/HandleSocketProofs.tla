------------------------- MODULE HandleSocketProofs -------------------------
(***************************************************************************)
(* Proofs about HandleSocket, for any number of connections.               *)
(*                                                                         *)
(* That the frontier is unused once terminate_workers has returned follows *)
(* from what num_threads counts (Counted): at zero no handler is in a      *)
(* conversation, and one that is counted later finds do_terminate set      *)
(* (Asked, Told).  AcceptedNew says that a connection gets one handler.    *)
(***************************************************************************)
EXTENDS HandleSocket, FiniteSetTheorems, TLAPS

Conversing == {"get_url", "send_urls", "recv_pages", "add_urls"}

Counted == num_threads = Cardinality(Tracked)

Asked == do_terminate <=> mPc # "running"

Told == mPc = "returned" => \A c \in Conns : hPc[c] \notin Conversing

AcceptedNew ==
  /\ \A c \in backlog : hPc[c] = "none"
  /\ aPc \in {"recheck", "spawn"} =>
       accepted \in Conns \ backlog /\ hPc[accepted] = "none"

IInv == TypeOK /\ Counted /\ Asked /\ Told /\ AcceptedNew

-----------------------------------------------------------------------------
LEMMA TrackedFinite ==
  IsFiniteSet(Tracked) /\ IsFiniteSet(Tracked') /\ Cardinality(Tracked) \in Nat
<1>1. Tracked \subseteq Conns /\ Tracked' \subseteq Conns
  BY DEF Tracked
<1>2. IsFiniteSet(Tracked) /\ IsFiniteSet(Tracked')
  BY <1>1, FS_Subset, ConnsAssumption
<1>3. QED
  BY <1>2, FS_CardinalityType

LEMMA InitIInv == Init => IInv
<1> SUFFICES ASSUME Init PROVE IInv
  OBVIOUS
<1>1. Tracked = {}
  BY DEF Init, Tracked
<1>2. Counted
  BY <1>1, FS_EmptySet DEF Init, Counted
<1>3. TypeOK /\ Asked /\ Told /\ AcceptedNew
  BY DEF Init, TypeOK, Messages, AccepterPcs, HandlerPcs, MainPcs, Asked, Told,
         Conversing, AcceptedNew
<1>4. QED
  BY <1>2, <1>3 DEF IInv

(* The steps of the accepting thread that start no handler                 *)
LEMMA AcceptPreserves ==
  ASSUME IInv, AcceptCheck \/ AcceptRecheck \/ \E c \in Conns : Accept(c)
  PROVE  IInv'
<1>1. hPc' = hPc /\ UNCHANGED <<message, num_threads, do_terminate, mPc>>
  BY DEF AcceptCheck, AcceptRecheck, Accept
<1>2. TypeOK'
  BY <1>1 DEF IInv, TypeOK, AcceptCheck, AcceptRecheck, Accept, AccepterPcs
<1>3. Counted' /\ Asked' /\ Told'
  BY <1>1 DEF IInv, Counted, Tracked, Asked, Told
<1>4. AcceptedNew'
  BY <1>1 DEF IInv, AcceptedNew, TypeOK, AcceptCheck, AcceptRecheck, Accept
<1>5. QED
  BY <1>2, <1>3, <1>4 DEF IInv

(* A handler that is started is not counted yet.                           *)
LEMMA SpawnPreserves == ASSUME IInv, AcceptSpawn PROVE IInv'
<1>1. /\ accepted \in Conns \ backlog /\ hPc[accepted] = "none"
      /\ hPc' = [hPc EXCEPT ![accepted] = "spawned"]
      /\ aPc' = "check" /\ accepted' = NoConn
      /\ UNCHANGED <<backlog, message, num_threads, do_terminate, mPc>>
  BY DEF IInv, AcceptedNew, AcceptSpawn
<1>2. /\ hPc'[accepted] = "spawned"
      /\ \A d \in Conns : d # accepted => hPc'[d] = hPc[d]
  BY <1>1 DEF IInv, TypeOK
<1>3. Tracked' = Tracked
  BY <1>1, <1>2 DEF Tracked
<1>4. TypeOK'
  BY <1>1 DEF IInv, TypeOK, HandlerPcs, AccepterPcs
<1>5. Counted' /\ Asked'
  BY <1>1, <1>3 DEF IInv, Counted, Asked
<1>6. Told'
  BY <1>1, <1>2 DEF IInv, Told, Conversing
<1>7. AcceptedNew'
  BY <1>1, <1>2 DEF IInv, AcceptedNew, TypeOK
<1>8. QED
  BY <1>4, <1>5, <1>6, <1>7 DEF IInv

(* The first line of a handler, and its last, count it in and out.         *)
LEMMA TrackerPreserves ==
  ASSUME IInv, NEW c \in Conns, TrackerBegin(c) \/ TrackerEnd(c)
  PROVE  IInv'
<1>1. /\ UNCHANGED <<backlog, aPc, accepted, message, do_terminate>>
      /\ hPc[c] \in {"spawned", "leave"}
  BY DEF TrackerBegin, TrackerEnd
<1>2. ASSUME NEW l \in {"verify", "ended"}, hPc' = [hPc EXCEPT ![c] = l]
      PROVE  /\ hPc'[c] = l /\ \A d \in Conns : d # c => hPc'[d] = hPc[d]
             /\ AcceptedNew' /\ (Told => \A d \in Conns :
                                   mPc = "returned" => hPc'[d] \notin Conversing)
  <2>1. hPc'[c] = l /\ \A d \in Conns : d # c => hPc'[d] = hPc[d]
    BY <1>2 DEF IInv, TypeOK
  <2>2. AcceptedNew'
    BY <1>1, <2>1 DEF IInv, AcceptedNew, TypeOK
  <2>3. QED
    BY <2>1, <2>2 DEF Told, Conversing
<1>3. CASE TrackerBegin(c)
  <2>1. /\ hPc[c] = "spawned" /\ hPc' = [hPc EXCEPT ![c] = "verify"]
        /\ num_threads' = num_threads + 1 /\ mPc' = mPc
    BY <1>3 DEF TrackerBegin, HandlerGoto
  <2>2. Tracked' = Tracked \cup {c} /\ c \notin Tracked
    BY <1>2, <2>1 DEF Tracked
  <2>3. Counted'
    BY <2>1, <2>2, TrackedFinite, FS_AddElement DEF IInv, Counted
  <2>4. TypeOK'
    BY <1>1, <2>1 DEF IInv, TypeOK, HandlerPcs
  <2>5. Asked' /\ Told' /\ AcceptedNew'
    BY <1>1, <1>2, <2>1 DEF IInv, Asked, Told
  <2>6. QED
    BY <2>3, <2>4, <2>5 DEF IInv
<1>4. CASE TrackerEnd(c)
  <2>1. /\ hPc[c] = "leave" /\ hPc' = [hPc EXCEPT ![c] = "ended"]
        /\ num_threads' = num_threads - 1
        /\ mPc' \in {mPc, "woken"} /\ (mPc' # mPc => mPc = "waiting")
    BY <1>4 DEF TrackerEnd, HandlerGoto
  <2>2. Tracked' = Tracked \ {c} /\ c \in Tracked
    BY <1>2, <2>1 DEF Tracked
  <2>3. Counted' /\ num_threads' \in Nat
    <3>1. Cardinality(Tracked') = Cardinality(Tracked) - 1
      BY <2>2, TrackedFinite, FS_RemoveElement
    <3>2. Cardinality(Tracked') \in Nat
      BY TrackedFinite, FS_CardinalityType
    <3>3. QED
      BY <2>1, <3>1, <3>2 DEF IInv, Counted
  <2>4. TypeOK'
    BY <1>1, <2>1, <2>3 DEF IInv, TypeOK, HandlerPcs, MainPcs
  <2>5. Asked' /\ Told' /\ AcceptedNew'
    BY <1>1, <1>2, <2>1 DEF IInv, Asked, Told
  <2>6. QED
    BY <2>3, <2>4, <2>5 DEF IInv
<1>5. QED
  BY <1>3, <1>4

(* All other steps of a handler: it stays counted, and when                *)
(* terminate_workers has returned it does not begin a conversation.        *)
HandlerStep(c) ==
  \/ RecvVerification(c) \/ (\E m \in Messages : RecvMessage(c, m))
  \/ RecvFails(c) \/ CheckTerminate(c) \/ RequestGetUrl(c) \/ RequestSendUrls(c)
  \/ SendRecvPages(c) \/ SendAddUrls(c)

LEMMA HandlerPreserves ==
  ASSUME IInv, NEW c \in Conns, HandlerStep(c)
  PROVE  IInv'
<1> DEFINE Counting == HandlerPcs \ {"none", "spawned", "ended"}
<1>1. UNCHANGED <<backlog, aPc, accepted, num_threads, do_terminate, mPc>>
  BY DEF HandlerStep, RecvVerification, RecvMessage, RecvFails, CheckTerminate,
         RequestGetUrl, RequestSendUrls, SendRecvPages, SendAddUrls
<1>2. /\ message' \in [Conns -> Messages]
  BY DEF IInv, TypeOK, HandlerStep, RecvVerification, RecvMessage, RecvFails,
         CheckTerminate, RequestGetUrl, RequestSendUrls, SendRecvPages,
         SendAddUrls
<1>3. PICK l \in Counting :
        /\ hPc' = [hPc EXCEPT ![c] = l]
        /\ hPc[c] \in Counting
        /\ mPc = "returned" => l \notin Conversing
  <2>1. CASE CheckTerminate(c)
    <3>1. /\ hPc[c] = "check"
          /\ \E l \in {"leave", "get_url", "recv_pages"} :
               /\ hPc' = [hPc EXCEPT ![c] = l]
               /\ do_terminate => l = "leave"
      <4>1. CASE message[c] = "R"
        BY <2>1, <4>1 DEF CheckTerminate, HandlerGoto
      <4>2. CASE message[c] = "S"
        BY <2>1, <4>2 DEF CheckTerminate, HandlerGoto
      <4>3. CASE message[c] \notin {"R", "S"}
        BY <2>1, <4>3 DEF CheckTerminate, HandlerGoto
      <4>4. QED
        BY <4>1, <4>2, <4>3
    <3>2. mPc = "returned" => do_terminate
      BY DEF IInv, Asked
    <3>3. QED
      BY <3>1, <3>2 DEF HandlerPcs, Conversing
  <2>2. CASE RequestGetUrl(c) \/ SendRecvPages(c)
    BY <2>2 DEF IInv, RequestGetUrl, SendRecvPages, HandlerGoto, HandlerPcs,
                Conversing, Told
  <2>3. CASE \/ RecvVerification(c) \/ (\E m \in Messages : RecvMessage(c, m))
             \/ RecvFails(c) \/ RequestSendUrls(c) \/ SendAddUrls(c)
    BY <2>3 DEF RecvVerification, RecvMessage, RecvFails, RequestSendUrls,
                SendAddUrls, HandlerGoto, HandlerPcs, Conversing
  <2>4. QED
    BY <2>1, <2>2, <2>3 DEF HandlerStep
<1>4. hPc'[c] = l /\ \A d \in Conns : d # c => hPc'[d] = hPc[d]
  BY <1>3 DEF IInv, TypeOK
<1>5. Tracked' = Tracked
  BY <1>3, <1>4 DEF Tracked
<1>6. TypeOK'
  BY <1>1, <1>2, <1>3 DEF IInv, TypeOK, HandlerPcs
<1>7. Counted' /\ Asked'
  BY <1>1, <1>5 DEF IInv, Counted, Asked
<1>8. Told'
  BY <1>1, <1>3, <1>4 DEF IInv, Told
<1>9. AcceptedNew'
  BY <1>1, <1>3, <1>4 DEF IInv, AcceptedNew, TypeOK
<1>10. QED
  BY <1>6, <1>7, <1>8, <1>9 DEF IInv

(* The main thread leaves terminate_workers only when nobody is counted.   *)
LEMMA TerminatePreserves ==
  ASSUME IInv, Terminate \/ TerminateWoken
  PROVE  IInv' /\ (mPc' = "returned" => Tracked = {})
<1>1. UNCHANGED <<backlog, aPc, accepted, hPc, message, num_threads>>
      /\ do_terminate' = TRUE
      /\ mPc' = IF num_threads # 0 THEN "waiting" ELSE "returned"
  BY DEF IInv, Asked, TypeOK, Terminate, TerminateWoken
<1>2. mPc' = "returned" => Tracked = {}
  BY <1>1, TrackedFinite, FS_EmptySet DEF IInv, Counted
<1>3. TypeOK'
  BY <1>1 DEF IInv, TypeOK, MainPcs
<1>4. Counted' /\ Asked' /\ AcceptedNew'
  BY <1>1 DEF IInv, Counted, Tracked, Asked, AcceptedNew
<1>5. Told'
  BY <1>1, <1>2 DEF Told, Tracked, Conversing
<1>6. QED
  BY <1>2, <1>3, <1>4, <1>5 DEF IInv

-----------------------------------------------------------------------------
LEMMA NextPreserves ==
  ASSUME IInv, [Next]_vars
  PROVE  IInv' /\ (mPc # "returned" /\ mPc' = "returned" => Tracked = {})
<1>1. CASE AcceptCheck \/ AcceptRecheck \/ \E c \in Conns : Accept(c)
  BY <1>1, AcceptPreserves DEF AcceptCheck, AcceptRecheck, Accept
<1>2. CASE AcceptSpawn
  BY <1>2, SpawnPreserves DEF AcceptSpawn
<1>3. CASE \E c \in Conns : TrackerBegin(c) \/ TrackerEnd(c)
  BY <1>3, TrackerPreserves DEF TrackerBegin, TrackerEnd
<1>4. CASE \E c \in Conns : HandlerStep(c)
  <2>1. mPc' = mPc
    BY <1>4 DEF HandlerStep, RecvVerification, RecvMessage, RecvFails,
                CheckTerminate, RequestGetUrl, RequestSendUrls, SendRecvPages,
                SendAddUrls
  <2>2. QED
    BY <1>4, <2>1, HandlerPreserves
<1>5. CASE Terminate \/ TerminateWoken
  BY <1>5, TerminatePreserves
<1>6. CASE UNCHANGED vars
  BY <1>6 DEF vars, IInv, TypeOK, Counted, Tracked, Asked, Told, AcceptedNew
<1>7. QED
  BY <1>1, <1>2, <1>3, <1>4, <1>5, <1>6 DEF Next, Handler, HandlerStep

LEMMA Invariance == Spec => []IInv
BY InitIInv, NextPreserves, PTL DEF Spec

(* When terminate_workers has returned, no handler thread is in the        *)
(* frontier's getUrl or addUrls, and none comes there any more             *)
(* (handle_socket_helper's look at do_terminate, ThreadLifeTracker).       *)
THEOREM FrontierIsUnused == Spec => []FrontierUnused
<1>1. IInv => FrontierUnused
  BY DEF IInv, Told, FrontierUnused, UsesFrontier, Conversing
<1>2. QED
  BY Invariance, <1>1, PTL

(* terminate_workers returns only when every handler that was counted has  *)
(* ended.                                                                  *)
THEOREM ReturnsAfterConversations == Spec => ConversationsEnd
<1>1. IInv /\ [Next]_vars =>
        [mPc # "returned" /\ mPc' = "returned" => Tracked = {}]_vars
  BY NextPreserves
<1>2. QED
  BY Invariance, <1>1, PTL DEF Spec, ConversationsEnd

(* The types, and that num_threads never falls below zero.                 *)
THEOREM TypesHold == Spec => []TypeOK
<1>1. IInv => TypeOK
  BY DEF IInv
<1>2. QED
  BY Invariance, <1>1, PTL

=============================================================================
