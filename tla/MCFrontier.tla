----------------------------- MODULE MCFrontier -----------------------------
(* Instances of Frontier and, as another part, of FrontierFiles for TLC.   *)
(* The URLs are 1, 2, 3.  URL 3 is in the last bin and the others in the   *)
(* first.                                                                  *)
EXTENDS Frontier

CONSTANTS MCParts,
          FileUrls, FileBins, FileBinOf, numHashes, FileBitsOf,
          Segments, MaxUrls, MaxCrashes

ASSUME FilesAssumption ==
  /\ FileUrls \subseteq Nat \ {0}
  /\ FileBinOf \in [FileUrls -> FileBins]
  /\ numHashes \in Nat \ {0} /\ FileBitsOf \in [FileUrls -> [1 .. numHashes -> Nat]]
  /\ Segments \in Nat \ {0} /\ MaxUrls \in Nat /\ MaxCrashes \in Nat

VARIABLES part, urlStore, entries, cursor, filter, bPc, bUrl, bAt, bTries,
          took, returned, dropped, crashes, stored, lost, adders, hashes, raced

MCBin == [u \in Urls |-> IF u = 3 THEN NumFrontierBins - 1 ELSE 0]

(* Every URL has a position of its own and shares one with the next URL.   *)
MCBits == [u \in Urls |-> {u, u + 1}]

(* The handlers do the same.                                               *)
Alike == Permutations(Handlers)

MCFileBin == [u \in FileUrls |-> IF u = 3 THEN 2 ELSE 1]
MCFileBits == [u \in FileUrls |-> <<u, u + 1>>]

Files == INSTANCE FrontierFiles WITH
           Urls <- FileUrls, Bins <- FileBins, BinOf <- FileBinOf, BitsOf <- FileBitsOf,
           toParse <- entries, bloom <- filter, handed <- returned

filesVars == <<urlStore, entries, cursor, filter, bPc, bUrl, bAt, bTries,
               took, returned, dropped, crashes, stored, lost, adders, hashes, raced>>
mcVars == <<part, vars, filesVars>>

MCInit == part \in MCParts /\ Init /\ Files!Init

MCNext ==
  /\ UNCHANGED part
  /\ \/ part = "threads" /\ Next /\ UNCHANGED filesVars
     \/ part = "files" /\ Files!Next /\ UNCHANGED vars

MCSpec == MCInit /\ [][MCNext]_mcVars
MCFairSpec == MCSpec /\ Fairness

(* The files of the frontier over a crash: what may be handed out names a  *)
(* stored URL, and a crash costs what getUrl had in memory and no more     *)
(* than one URL of a bin besides.                                          *)
FilesHold == Files!OffsetsStored /\ Files!CrashCosts

(* What make_bloom_filter finds again of a filter that was lost            *)
SeenRestored == Files!SeenRestored

=============================================================================
