---------------------------- MODULE FrontierFiles ---------------------------
(***************************************************************************)
(* The files of the frontier: the URL store (include/disk/url_store.hpp),  *)
(* which all bins share, and the toParse vector and the Bloom filter of    *)
(* each bin (src/frontier.cpp, include/fb/bloom_filter.hpp).  They are     *)
(* memory-mapped DiskVecs (include/disk/disk_vec.hpp): a write is in the   *)
(* file when it is done, and so is a moved cursor.                         *)
(*                                                                         *)
(* Module Frontier has the threads and their locks.  Here a bin does one   *)
(* thing at a time, as toParseM makes it do, in steps of one write, and    *)
(* the process may be killed between any two of them.                      *)
(***************************************************************************)
EXTENDS Integers, Sequences, FiniteSets

CONSTANTS Urls,               \* positive numbers
          Bins, BinOf,         \* BinOf: [Urls -> Bins]
          numHashes, BitsOf,   \* [Urls -> numHashes positions of the filter]
          NumPicks,            \* NUM_TRY - NUM_SAMPLE, tries of one getUrl
          Segments,            \* num_threads_adding_bloom_filter
          MaxUrls,             \* bound: calls of addUrl
          MaxCrashes           \* bound

VARIABLES urlStore,      \* the characters below the cursor of the store
          toParse,       \* [Bins -> the entries ever written, offsets]
          cursor,        \* [Bins -> how many of them count]
          bloom,         \* [Bins -> positions that are set]
          bPc, bUrl, bAt,   \* what each bin does, with which URL and offset
          bTries,        \* [Bins -> the tries its getUrl has left]
          took,          \* urls_to_return of getUrl: [Urls -> how often]
          handed,        \* history: [Urls -> how often getUrl returned it]
          dropped,       \* history: [Urls -> how often it was in
                         \* urls_to_return when the process was killed]
          crashes, stored,  \* counters of the bounds
          lost,          \* history: the filters were lost ("lost"), and are
                         \* being built again ("making", "built")
          adders,        \* the threads of make_bloom_filter: where the URLs
                         \* to add are, and steps of addSeen for the first
          hashes,        \* [Bins -> the array all of them compute into]
          raced          \* history: URLs added while another one was, to the
                         \* filter of the same bin

files == <<urlStore, toParse, cursor, bloom>>
bins == <<bPc, bUrl, bAt>>
getting == <<bTries, took, handed, dropped>>
making == <<adders, hashes, raced>>
vars == <<files, bins, getting, crashes, stored, lost, making>>

(* A character is a number that tells which URL it is of, and its place;   *)
(* 0 ends a string, and is what a file has where nothing was written.  All *)
(* URLs have two characters, and "Dummy" at offset 0 has one.              *)
Chars(u) == <<2 * u, 2 * u + 1>>
Dummy == 0
DummyChars == <<1, 0>>

(* getUrl: the string at an offset of the store                            *)
StringAt(s, o) ==
  LET ends == {k \in o + 1 .. Len(s) : s[k] = 0} \cup {Len(s) + 1} IN
  SubSeq(s, o + 1, (CHOOSE k \in ends : \A l \in ends : k <= l) - 1)
Names(s, o, u) == StringAt(s, o) = Chars(u)

Segment == 0 .. Segments - 1
Nothing == [i \in Segment |-> [todo |-> {}, step |-> 0]]
NoHashes == [b \in Bins |-> [k \in 1 .. numHashes |-> 0]]

(* UrlStore::init adds "Dummy" whenever the master starts.                 *)
Init ==
  /\ urlStore = DummyChars
  /\ toParse = [b \in Bins |-> <<>>]
  /\ cursor = [b \in Bins |-> 0]
  /\ bloom = [b \in Bins |-> {}]
  /\ bPc = [b \in Bins |-> "idle"]
  /\ bUrl = [b \in Bins |-> 0] /\ bAt = [b \in Bins |-> 0]
  /\ bTries = [b \in Bins |-> 0]
  /\ took = [u \in Urls |-> 0] /\ handed = [u \in Urls |-> 0]
  /\ dropped = [u \in Urls |-> 0]
  /\ crashes = 0 /\ stored = 0 /\ lost = "no"
  /\ adders = Nothing /\ hashes = NoHashes /\ raced = {}

Goto(b, l) == bPc' = [bPc EXCEPT ![b] = l]

Least(S) == CHOOSE i \in S : \A j \in S : i <= j

-----------------------------------------------------------------------------
(* addToFrontierFromQueue, for one URL                                     *)

Unset(u, b) == {k \in DOMAIN BitsOf[u] : BitsOf[u][k] \notin bloom[b]}

(* tryInsert: a URL of which a position is not set is new.                 *)
TryInsert(b, u) ==
  /\ bPc[b] = "idle" /\ BinOf[u] = b /\ stored < MaxUrls
  /\ Unset(u, b) # {}
  /\ stored' = stored + 1
  /\ bUrl' = [bUrl EXCEPT ![b] = u]
  /\ Goto(b, "set")
  /\ UNCHANGED <<files, bAt, getting, crashes, lost>>

SetBit(b) ==
  /\ bPc[b] = "set"
  /\ LET bits == BitsOf[bUrl[b]]
         k == Least(Unset(bUrl[b], b)) IN
       /\ bloom' = [bloom EXCEPT ![b] = @ \cup {bits[k]}]
       /\ Goto(b, IF \A i \in Unset(bUrl[b], b) : bits[i] = bits[k] THEN "reserve" ELSE "set")
  /\ UNCHANGED <<urlStore, toParse, cursor, bUrl, bAt, getting, crashes, stored, lost>>

(* Mutant of Reserve: no room for the end of the string.                   *)
ReserveShort(b) ==
  /\ bPc[b] = "reserve"
  /\ bAt' = [bAt EXCEPT ![b] = Len(urlStore)]
  /\ urlStore' = urlStore \o <<0, 0>>
  /\ Goto(b, "copy")
  /\ UNCHANGED <<toParse, cursor, bloom, bUrl, getting, crashes, stored, lost>>

(* addUrl moves the cursor by the length of the URL, and one, at once ... *)
Reserve(b) ==
  /\ bPc[b] = "reserve"
  /\ bAt' = [bAt EXCEPT ![b] = Len(urlStore)]
  /\ urlStore' = urlStore \o <<0, 0, 0>>
  /\ Goto(b, "copy")
  /\ UNCHANGED <<toParse, cursor, bloom, bUrl, getting, crashes, stored, lost>>

(* ... and copies it there, character by character.                        *)
Copy(b) ==
  LET at == bAt[b] + 1
      k == IF urlStore[at] = 0 THEN 1 ELSE 2 IN
  /\ bPc[b] = "copy"
  /\ urlStore' = [urlStore EXCEPT ![at + k - 1] = Chars(bUrl[b])[k]]
  /\ Goto(b, IF k = 1 THEN "copy" ELSE "push")
  /\ UNCHANGED <<toParse, cursor, bloom, bUrl, bAt, getting, crashes, stored, lost>>

(* toParse.pushBack moves its cursor, too.  What is above it is zero, or   *)
(* an entry that has been popped ...                                       *)
Push(b) ==
  /\ bPc[b] = "push"
  /\ cursor' = [cursor EXCEPT ![b] = @ + 1]
  /\ toParse' = IF cursor[b] = Len(toParse[b])
                THEN [toParse EXCEPT ![b] = Append(@, Dummy)] ELSE toParse
  /\ Goto(b, "fill")
  /\ UNCHANGED <<urlStore, bloom, bUrl, bAt, getting, crashes, stored, lost>>

(* ... until the entry is copied.                                          *)
Fill(b) ==
  /\ bPc[b] = "fill"
  /\ toParse' = [toParse EXCEPT ![b][cursor[b]] = bAt[b]]
  /\ bUrl' = [bUrl EXCEPT ![b] = 0] /\ bAt' = [bAt EXCEPT ![b] = 0]
  /\ Goto(b, "idle")
  /\ UNCHANGED <<urlStore, cursor, bloom, getting, crashes, stored, lost>>

-----------------------------------------------------------------------------
(* getUrl: a batch is taken out under toParseM, and returned when it ends. *)

GetUrl(b) ==
  /\ bPc[b] = "idle"
  /\ bTries' = [bTries EXCEPT ![b] = NumPicks]
  /\ Goto(b, "get")
  /\ UNCHANGED <<files, bUrl, bAt, took, handed, dropped, crashes, stored, lost>>

(* A try: the offset is in memory from here on ...                         *)
Pick(b, i) ==
  /\ bPc[b] = "get" /\ bTries[b] > 0 /\ i \in 1 .. cursor[b]
  /\ bTries' = [bTries EXCEPT ![b] = @ - 1]
  /\ took' = [u \in Urls |-> took[u] +
                (IF Names(urlStore, toParse[b][i], u) THEN 1 ELSE 0)]
  /\ bAt' = [bAt EXCEPT ![b] = i]
  /\ Goto(b, "overwrite")
  /\ UNCHANGED <<files, bUrl, handed, dropped, crashes, stored, lost>>

(* ... and its place goes to the last entry.                               *)
Overwrite(b) ==
  /\ bPc[b] = "overwrite"
  /\ toParse' = [toParse EXCEPT ![b][bAt[b]] = toParse[b][cursor[b]]]
  /\ bAt' = [bAt EXCEPT ![b] = 0]
  /\ Goto(b, "pop")
  /\ UNCHANGED <<urlStore, cursor, bloom, bUrl, getting, crashes, stored, lost>>

(* Mutant of PopBack: the cursor stays.                                    *)
PopBackNever(b) ==
  /\ bPc[b] = "pop"
  /\ Goto(b, "get")
  /\ UNCHANGED <<files, bUrl, bAt, getting, crashes, stored, lost>>

PopBack(b) ==
  /\ bPc[b] = "pop"
  /\ cursor' = [cursor EXCEPT ![b] = @ - 1]
  /\ Goto(b, "get")
  /\ UNCHANGED <<urlStore, toParse, bloom, bUrl, bAt, getting, crashes, stored, lost>>

(* The handler has the batch.                                              *)
Return(b) ==
  /\ bPc[b] = "get" /\ (bTries[b] = 0 \/ cursor[b] = 0)
  /\ handed' = [u \in Urls |-> IF BinOf[u] = b THEN handed[u] + took[u] ELSE handed[u]]
  /\ took' = [u \in Urls |-> IF BinOf[u] = b THEN 0 ELSE took[u]]
  /\ bTries' = [bTries EXCEPT ![b] = 0]
  /\ Goto(b, "idle")
  /\ UNCHANGED <<files, bUrl, bAt, dropped, crashes, stored, lost>>

-----------------------------------------------------------------------------
(* The process is killed and started again on the same files; the filters  *)
(* may have been removed in between.  What was in memory is gone.          *)
Crash(removed) ==
  /\ crashes < MaxCrashes
  /\ removed => lost = "no"
  /\ crashes' = crashes + 1
  /\ lost' = IF removed \/ lost = "making" THEN "lost" ELSE lost
  /\ bloom' = IF removed THEN [b \in Bins |-> {}] ELSE bloom
  /\ urlStore' = urlStore \o DummyChars
  /\ bPc' = [b \in Bins |-> "idle"]
  /\ bUrl' = [b \in Bins |-> 0] /\ bAt' = [b \in Bins |-> 0]
  /\ adders' = Nothing /\ hashes' = NoHashes /\ raced' = {}
  /\ dropped' = [u \in Urls |-> dropped[u] + took[u]]
  /\ took' = [u \in Urls |-> 0] /\ bTries' = [b \in Bins |-> 0]
  /\ UNCHANGED <<toParse, cursor, handed, stored>>

-----------------------------------------------------------------------------
(* make_bloom_filter                                                       *)

(* Where a segment begins in the store, and its length, for its thread     *)
SegmentSize == Len(urlStore) \div Segments
SegmentStart(i) == (i * Len(urlStore)) \div Segments

(* Mutant of Found: one character less is looked at.                       *)
FoundShort(i) ==
  {o \in SegmentStart(i) .. SegmentStart(i) + SegmentSize - 3 :
     urlStore[o + 1] = 0}

(* The ends of strings that add_to_bloom_filter finds in its segment.  The *)
(* last character of a segment is never looked at.                         *)
Found(i) ==
  {o \in SegmentStart(i) .. SegmentStart(i) + SegmentSize - 2 :
     urlStore[o + 1] = 0}

(* Where URLs begin after them.  Other strings are added, too, and set     *)
(* positions that no URL has.                                              *)
Seen(i) == {o + 1 : o \in {p \in Found(i) : \E u \in Urls : Names(urlStore, p + 1, u)}}

(* No worker is connected when the command is given.                       *)
MakeBloomFilter ==
  /\ lost = "lost" /\ \A b \in Bins : bPc[b] = "idle"
  /\ lost' = "making"
  /\ adders' = [i \in Segment |-> [todo |-> Seen(i), step |-> 0]]
  /\ UNCHANGED <<files, bins, getting, crashes, stored, hashes, raced>>

(* The URL that a thread adds: it goes through its segment from the start. *)
Adding(i) == CHOOSE u \in Urls : Names(urlStore, Least(adders[i].todo), u)

(* The threads that are in addSeen for the same bin as i                   *)
Inside(i) ==
  {j \in Segment \ {i} : adders[j].step > 0 /\ BinOf[Adding(j)] = BinOf[Adding(i)]}

(* insertWithoutLock: computeHashes writes the array of the filter, one    *)
(* hash after the other, and then it is read again for the positions.  The *)
(* byte of a position is read and written at once: that one of two threads *)
(* inside may lose the bit of the other is left out.                       *)
AddSeen(i) ==
  /\ lost = "making" /\ adders[i].todo # {}
  /\ LET u == Adding(i)
         b == BinOf[u]
         k == adders[i].step + 1 IN
       /\ IF k <= numHashes
            THEN hashes' = [hashes EXCEPT ![b][k] = BitsOf[u][k]] /\ UNCHANGED bloom
            ELSE /\ bloom' = [bloom EXCEPT ![b] = @ \cup {hashes[b][k - numHashes]}]
                 /\ UNCHANGED hashes
       /\ adders' = [adders EXCEPT ![i] =
                       IF k < 2 * numHashes THEN [@ EXCEPT !.step = k]
                       ELSE [todo |-> @.todo \ {Least(@.todo)}, step |-> 0]]
       /\ raced' = IF k > 1 \/ Inside(i) = {} THEN raced
                   ELSE raced \cup {u} \cup {Adding(j) : j \in Inside(i)}
  /\ UNCHANGED <<urlStore, toParse, cursor, bins, getting, crashes, stored, lost>>

(* All the threads are joined.  What is left in the arrays is not read.    *)
FilterMade ==
  /\ lost = "making" /\ \A i \in Segment : adders[i].todo = {}
  /\ lost' = "built"
  /\ hashes' = NoHashes /\ raced' = {}
  /\ UNCHANGED <<files, bins, getting, crashes, stored, adders>>

-----------------------------------------------------------------------------
Bin(b) ==
  /\ lost # "making" /\ UNCHANGED making
  /\ \/ (\E u \in Urls : TryInsert(b, u))
     \/ SetBit(b) \/ Reserve(b) \/ Copy(b) \/ Push(b) \/ Fill(b)
     \/ GetUrl(b) \/ (\E i \in 1 .. MaxUrls : Pick(b, i))
     \/ Overwrite(b) \/ PopBack(b) \/ Return(b)

Next ==
  \/ \E b \in Bins : Bin(b)
  \/ \E removed \in BOOLEAN : Crash(removed)
  \/ MakeBloomFilter \/ (\E i \in Segment : AddSeen(i)) \/ FilterMade

Spec == Init /\ [][Next]_vars

-----------------------------------------------------------------------------
(* An offset that getUrl may return names a URL that has been stored in    *)
(* full, or, after a crash, "Dummy".                                       *)
OffsetsStored ==
  \A b \in Bins : \A i \in 1 .. cursor[b] :
    \/ bPc[b] = "fill" /\ i = cursor[b]
    \/ \E u \in Urls : BinOf[u] = b /\ Names(urlStore, toParse[b][i], u)
    \/ crashes > 0 /\ toParse[b][i] = Dummy

Queued(u) ==
  \E i \in 1 .. cursor[BinOf[u]] : Names(urlStore, toParse[BinOf[u]][i], u)

(* A URL that the filter has and that will never be handed out             *)
Forgotten(u) ==
  /\ Unset(u, BinOf[u]) = {}
  /\ handed[u] + took[u] = 0 /\ ~Queued(u) /\ bUrl[BinOf[u]] # u

(* One element for each time a URL of U was handed out again               *)
Repeats(U) == {e \in U \X (2 .. MaxUrls + MaxCrashes) : e[2] <= handed[e[1]]}

(* A URL that the filter knows from the others: a position is its own.     *)
Telling(u, k) ==
  \A v \in Urls \ {u} : BinOf[v] = BinOf[u] => \A l \in DOMAIN BitsOf[v] : BitsOf[v][l] # BitsOf[u][k]
Distinct(u) == \E k \in DOMAIN BitsOf[u] : Telling(u, k)

(* While the filters are kept, a crash loses what getUrl calls have taken  *)
(* out and not returned (a handler's urls_to_parse is lost as well, but    *)
(* counts as handed out here).  Beyond that it costs a bin at most one URL *)
(* that is forgotten though the filter does not take it for others, and    *)
(* one that is handed out again.                                           *)
CrashCosts ==
  lost = "no" =>
    \A b \in Bins :
      LET own == {u \in Urls : BinOf[u] = b} IN
      /\ Cardinality({u \in own : Distinct(u) /\ Forgotten(u) /\ dropped[u] = 0}) <= crashes
      /\ Cardinality(Repeats(own)) <= crashes

(* make_bloom_filter finds every URL whose string does not begin a segment *)
(* and is not behind the last one, so that it is not stored again, but for *)
(* those that two threads added at once: each may set positions that the   *)
(* other has computed.                                                     *)
SeenRestored ==
  [][FilterMade =>
       \A u \in Urls \ raced : \A o \in 1 .. Len(urlStore) - 2 :
         (/\ Names(urlStore, o, u) /\ urlStore[o] = 0
          /\ \E i \in 0 .. Segments - 1 :
               o \in SegmentStart(i) + 1 .. SegmentStart(i) + SegmentSize - 1)
         => \A k \in DOMAIN BitsOf[u] : BitsOf[u][k] \in bloom'[BinOf[u]]]_vars

=============================================================================
