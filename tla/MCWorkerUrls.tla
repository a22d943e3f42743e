---------------------------- MODULE MCWorkerUrls ----------------------------
(* Instances of WorkerUrls and, as another part, of ParsedPages for TLC:   *)
(* what a worker gets from the master and what it gives back.              *)
EXTENDS WorkerUrls

CONSTANTS
  MCParts,                              \* the parts to run
  PAGES_PER_SEND, MaxPages, MaxBreaks   \* of ParsedPages

ASSUME PagesAssumption == PAGES_PER_SEND \in Nat \ {0} /\ MaxPages \in Nat /\ MaxBreaks \in Nat

VARIABLES part, parsed, urls_parsed, temp, sPc, messages, listening, breaks

Pages == INSTANCE ParsedPages WITH pc <- sPc

pageVars == <<parsed, urls_parsed, temp, sPc, messages, listening, breaks>>
mcVars == <<part, vars, pageVars>>

MCInit == part \in MCParts /\ Init /\ Pages!Init

MCNext ==
  /\ UNCHANGED part
  /\ \/ part = "urls" /\ Next /\ UNCHANGED pageVars
     \/ part = "pages" /\ Pages!Next /\ UNCHANGED vars

MCSpec == MCInit /\ [][MCNext]_mcVars
MCFairSpec == MCSpec /\ Fairness /\ Pages!Fairness

(* What a worker gets and what it gives back is neither lost nor doubled   *)
(* but with a connection that breaks.                                      *)
TransfersKept == UrlsKept /\ Pages!PagesOnce

(* Parsers that sleep end at the shutdown, and those that hand over pages  *)
(* return.                                                                 *)
ParsersReturn == SleepersEnd /\ Pages!AddReturns

=============================================================================
