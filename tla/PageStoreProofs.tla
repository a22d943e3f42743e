--------------------------- MODULE PageStoreProofs ---------------------------
(***************************************************************************)
(* Proofs about PageStore, for any parsers, bins, pages and crashes.       *)
(*                                                                         *)
(* A bin is the only one to write to its file (Owners), and leaves behind  *)
(* every store what the next one builds on (Progress).  A file only grows, *)
(* and has what its headers name (Complete).  A page is in the queue, with *)
(* a bin, in a file, or died with the process, and nowhere twice (Apart).  *)
(***************************************************************************)
EXTENDS PageStore, FiniteSetTheorems, SequenceTheorems, TLAPS

Header == [text : Nat, vec : Nat, url : Pages]
File == [text : Seq(Pages), vec : Seq(Pages), headers : Seq(Header), count : Nat]

Types ==
  /\ PagesToAdd \in Seq(Pages) /\ QueueMtx \in Bins \union {NoBin}
  /\ PagesCounter \in Nat /\ NumThreads \in Int
  /\ need_to_shutdown \in BOOLEAN /\ shutting_down \in BOOLEAN
  /\ pPc \in [Parsers -> ParserPcs] /\ bPc \in [Bins -> BinPcs]
  /\ P \in [Bins -> Pages \union {NoPage}]
  /\ Index \in [Bins -> Nat] /\ i \in [Bins -> Nat]
  /\ mPc \in MainPcs
  /\ counter \in 0 .. MaxBins /\ file \in [1 .. counter -> File]
  /\ parsed \in 0 .. MaxPages

(* The mutex                                                               *)
Mutex == \A b \in Bins : bPc[b] \in Holding <=> QueueMtx = b

(* The bins that have a file, and the last page they took                  *)
Opened(b) == bPc[b] \notin {"none", "open"}

Owners ==
  /\ \A b \in Bins : Opened(b) => Index[b] \in 1 .. counter
  /\ \A b \in Bins : ~Opened(b) => Index[b] = 0 /\ i[b] = 0
  /\ \A b, c \in Bins : Opened(b) /\ Opened(c) /\ Index[b] = Index[c] => b = c
  /\ \A b \in Bins : P[b] # NoPage <=> bPc[b] \in Writing

(* What is in a file                                                       *)
EndsWith(s, u) == Len(s) > 0 /\ s[Len(s)] = u

Names(f, h) ==
  LET hdr == file[f].headers[h] IN
  /\ hdr.text \in 1 .. Len(file[f].text) /\ file[f].text[hdr.text] = hdr.url
  /\ hdr.vec \in 1 .. Len(file[f].vec)   /\ file[f].vec[hdr.vec] = hdr.url

CompleteFile(f) ==
  /\ file[f].count <= Len(file[f].headers)
  /\ Len(file[f].headers) <= numPages
  /\ \A h \in 1 .. Len(file[f].headers) : Names(f, h)

Complete == \A f \in 1 .. counter : CompleteFile(f)

(* How far a bin is with its file                                          *)
Exits == {"exit", "signal", "ended"}

FileOf(b, f) ==
  /\ f.count = i[b]
  /\ Len(f.headers) = IF bPc[b] = "pagecount" THEN i[b] + 1 ELSE i[b]
  /\ bPc[b] \notin Exits => i[b] < numPages
  /\ bPc[b] \in {"vec", "header"} => EndsWith(f.text, P[b])
  /\ bPc[b] = "header" => EndsWith(f.vec, P[b])
  /\ bPc[b] = "pagecount" => f.headers[i[b] + 1].url = P[b]

Progress == \A b \in Bins : Opened(b) => FileOf(b, file[Index[b]])

FilesInv == Owners /\ Complete /\ Progress

(* No page is stored twice.                                                *)
StoredOnce ==
  \A f, g \in 1 .. counter :
    \A h \in 1 .. file[f].count, k \in 1 .. file[g].count :
      file[f].headers[h].url = file[g].headers[k].url => f = g /\ h = k

(* Where the pages are                                                     *)
InBins == {P[b] : b \in Bins} \ {NoPage}

Apart ==
  /\ \A m, n \in DOMAIN PagesToAdd : PagesToAdd[m] = PagesToAdd[n] => m = n
  /\ \A b, c \in Bins : P[b] = P[c] /\ P[b] # NoPage => b = c
  /\ StoredOnce

Partition ==
  /\ ToSet(PagesToAdd) \cup InBins \cup Stored \cup lost = 1 .. parsed
  /\ ToSet(PagesToAdd) \cap (InBins \cup Stored \cup lost) = {}
  /\ InBins \cap (Stored \cup lost) = {}
  /\ Stored \cap lost = {}

PagesInv == Apart /\ Partition

(* The counts                                                              *)
At(l) == {p \in Parsers : pPc[p] = l}
Started == {b \in Bins : bPc[b] \notin {"none", "signal", "ended"}}

Counts ==
  /\ parsed + Cardinality(At("push")) <= MaxPages
  /\ PagesCounter + Cardinality(At("count")) <= parsed
  /\ NumThreads = Cardinality(Started)

IInv == Types /\ Mutex /\ FilesInv /\ PagesInv /\ Counts

-----------------------------------------------------------------------------
(* Files                                                                   *)

LEMMA Appended ==
  ASSUME NEW S, NEW s \in Seq(S), NEW e \in S
  PROVE  /\ Append(s, e) \in Seq(S) /\ Len(s) \in Nat /\ Len(Append(s, e)) = Len(s) + 1
         /\ Append(s, e)[Len(s) + 1] = e
         /\ \A k \in 1 .. Len(s) : Append(s, e)[k] = s[k]
OBVIOUS

(* A write changes one file.                                               *)
LEMMA OneFile ==
  ASSUME NEW f \in 1 .. counter, NEW r \in File, file \in [1 .. counter -> File],
         file' = [file EXCEPT ![f] = r]
  PROVE  /\ file' \in [1 .. counter -> File] /\ file'[f] = r
         /\ \A g \in 1 .. counter : g # f => file'[g] = file[g]
OBVIOUS

LEMMA HasFile ==
  ASSUME Types, Owners, NEW b \in Bins, bPc[b] \in Writing
  PROVE  /\ Opened(b) /\ Index[b] \in 1 .. counter /\ P[b] \in Pages /\ i[b] \in Nat
         /\ file[Index[b]] \in File
<1>1. Opened(b) /\ Index[b] \in 1 .. counter
  BY DEF Owners, Opened, Writing
<1>2. P[b] \in Pages /\ i[b] \in Nat
  BY DEF Owners, Types
<1>3. file[Index[b]] \in File
  BY <1>1 DEF Types
<1>4. QED
  BY <1>1, <1>2, <1>3

(* What the four writes do to the file of the bin                          *)
WriteDone(b, f, l) ==
  /\ UNCHANGED <<Index, counter>>
  /\ bPc' = [bPc EXCEPT ![b] = l]
  /\ file' \in [1 .. counter -> File]
  /\ \A g \in 1 .. counter : g # f => file'[g] = file[g]

LEMMA TextDone ==
  ASSUME Types, Owners, NEW b \in Bins, WriteText(b), NEW f, f = Index[b]
  PROVE  /\ WriteDone(b, f, "vec") /\ UNCHANGED <<P, i>>
         /\ file'[f].text = Append(file[f].text, P[b]) /\ file'[f].vec = file[f].vec
         /\ file'[f].headers = file[f].headers /\ file'[f].count = file[f].count
<1>1. bPc[b] \in Writing
  BY DEF WriteText, Writing
<1>2. f \in 1 .. counter /\ P[b] \in Pages /\ file[f] \in File
  BY <1>1, HasFile
<1> DEFINE r == [file[f] EXCEPT !.text = Append(file[f].text, P[b])]
<1>3. file[f].text \in Seq(Pages)
  BY <1>2 DEF File
<1>4. Append(file[f].text, P[b]) \in Seq(Pages)
  BY <1>2, <1>3, Appended
<1>5. r \in File /\ r.text = Append(file[f].text, P[b]) /\ r.vec = file[f].vec
      /\ r.headers = file[f].headers /\ r.count = file[f].count
  BY <1>2, <1>4 DEF File
<1>6. file' = [file EXCEPT ![f] = r]
  BY DEF WriteText
<1> HIDE DEF r
<1>7. file' \in [1 .. counter -> File] /\ file'[f] = r
      /\ \A g \in 1 .. counter : g # f => file'[g] = file[g]
  BY <1>2, <1>5, <1>6, OneFile DEF Types
<1>8. QED
  BY <1>5, <1>7 DEF WriteDone, WriteText, BinGoto

LEMMA VecDone ==
  ASSUME Types, Owners, NEW b \in Bins, WriteVec(b), NEW f, f = Index[b]
  PROVE  /\ WriteDone(b, f, "header") /\ UNCHANGED <<P, i>>
         /\ file'[f].text = file[f].text /\ file'[f].vec = Append(file[f].vec, P[b])
         /\ file'[f].headers = file[f].headers /\ file'[f].count = file[f].count
<1>1. bPc[b] \in Writing
  BY DEF WriteVec, Writing
<1>2. f \in 1 .. counter /\ P[b] \in Pages /\ file[f] \in File
  BY <1>1, HasFile
<1> DEFINE r == [file[f] EXCEPT !.vec = Append(file[f].vec, P[b])]
<1>3. file[f].vec \in Seq(Pages)
  BY <1>2 DEF File
<1>4. Append(file[f].vec, P[b]) \in Seq(Pages)
  BY <1>2, <1>3, Appended
<1>5. r \in File /\ r.text = file[f].text /\ r.vec = Append(file[f].vec, P[b])
      /\ r.headers = file[f].headers /\ r.count = file[f].count
  BY <1>2, <1>4 DEF File
<1>6. file' = [file EXCEPT ![f] = r]
  BY DEF WriteVec
<1> HIDE DEF r
<1>7. file' \in [1 .. counter -> File] /\ file'[f] = r
      /\ \A g \in 1 .. counter : g # f => file'[g] = file[g]
  BY <1>2, <1>5, <1>6, OneFile DEF Types
<1>8. QED
  BY <1>5, <1>7 DEF WriteDone, WriteVec, BinGoto

LEMMA HeaderDone ==
  ASSUME Types, Owners, NEW b \in Bins, WriteHeader(b), NEW f, f = Index[b]
  PROVE  LET hdr == [text |-> Len(file[f].text), vec |-> Len(file[f].vec), url |-> P[b]] IN
         /\ WriteDone(b, f, "pagecount") /\ UNCHANGED <<P, i>> /\ hdr \in Header
         /\ file'[f].text = file[f].text /\ file'[f].vec = file[f].vec
         /\ file'[f].headers = Append(file[f].headers, hdr) /\ file'[f].count = file[f].count
<1> DEFINE hdr == [text |-> Len(file[f].text), vec |-> Len(file[f].vec), url |-> P[b]]
           r == [file[f] EXCEPT !.headers = Append(file[f].headers, hdr)]
<1>1. bPc[b] \in Writing
  BY DEF WriteHeader, Writing
<1>2. f \in 1 .. counter /\ P[b] \in Pages /\ file[f] \in File
  BY <1>1, HasFile
<1>3. file[f].headers \in Seq(Header) /\ Len(file[f].text) \in Nat /\ Len(file[f].vec) \in Nat
  BY <1>2 DEF File
<1>4. hdr \in Header
  BY <1>2, <1>3 DEF Header
<1>5. file' = [file EXCEPT ![f] = r]
  BY DEF WriteHeader
<1> HIDE DEF hdr
<1>6. Append(file[f].headers, hdr) \in Seq(Header)
  BY <1>3, <1>4, Appended
<1>7. r \in File /\ r.text = file[f].text /\ r.vec = file[f].vec
      /\ r.headers = Append(file[f].headers, hdr) /\ r.count = file[f].count
  BY <1>2, <1>6 DEF File
<1> HIDE DEF r
<1>8. file' \in [1 .. counter -> File] /\ file'[f] = r
      /\ \A g \in 1 .. counter : g # f => file'[g] = file[g]
  BY <1>2, <1>7, <1>5, OneFile DEF Types
<1>9. WriteDone(b, f, "pagecount") /\ UNCHANGED <<P, i>>
  BY <1>8 DEF WriteDone, WriteHeader, BinGoto
<1>10. QED
  BY <1>7, <1>8, <1>9, <1>4 DEF hdr

LEMMA CountDone ==
  ASSUME Types, Owners, NEW b \in Bins, WriteCount(b), NEW f, f = Index[b]
  PROVE  /\ WriteDone(b, f, IF i[b] + 1 < numPages THEN "loop" ELSE "exit")
         /\ P' = [P EXCEPT ![b] = NoPage] /\ i' = [i EXCEPT ![b] = i[b] + 1]
         /\ file'[f].text = file[f].text /\ file'[f].vec = file[f].vec
         /\ file'[f].headers = file[f].headers /\ file'[f].count = i[b] + 1
<1>1. bPc[b] \in Writing
  BY DEF WriteCount, Writing
<1>2. f \in 1 .. counter /\ file[f] \in File /\ i[b] + 1 \in Nat
  BY <1>1, HasFile
<1> DEFINE r == [file[f] EXCEPT !.count = i[b] + 1]
<1>3. file[f].text \in Seq(Pages) /\ file[f].headers \in Seq(Header)
  BY <1>2 DEF File
<1>5. r \in File /\ r.text = file[f].text /\ r.vec = file[f].vec
      /\ r.headers = file[f].headers /\ r.count = i[b] + 1
  BY <1>2, <1>3 DEF File
<1>6. file' = [file EXCEPT ![f] = r]
  BY DEF WriteCount
<1> HIDE DEF r
<1>7. file' \in [1 .. counter -> File] /\ file'[f] = r
      /\ \A g \in 1 .. counter : g # f => file'[g] = file[g]
  BY <1>2, <1>5, <1>6, OneFile DEF Types
<1>8. QED
  BY <1>5, <1>7 DEF WriteDone, WriteCount, BinGoto

LEMMA OpenDone ==
  ASSUME Types, NEW b \in Bins, BinOpen(b)
  PROVE  /\ counter' = counter + 1 /\ counter' \in 0 .. MaxBins
         /\ file' \in [1 .. counter + 1 -> File] /\ file'[counter + 1] = EmptyFile
         /\ \A g \in 1 .. counter : file'[g] = file[g]
         /\ UNCHANGED <<P, i>> /\ Index' = [Index EXCEPT ![b] = counter + 1]
         /\ bPc[b] = "open" /\ bPc' = [bPc EXCEPT ![b] = "loop"]
<1>1. counter \in Nat /\ counter < MaxBins /\ MaxBins \in Nat
  BY BoundsAssumption DEF Types, BinOpen
<1>2. file \in Seq(File) /\ Len(file) = counter
  BY <1>1 DEF Types
<1>3. EmptyFile \in File
  BY DEF EmptyFile, File
<1>4. file' = Append(file, EmptyFile)
  BY DEF BinOpen
<1>5. file' \in [1 .. counter + 1 -> File] /\ file'[counter + 1] = EmptyFile
      /\ \A g \in 1 .. counter : file'[g] = file[g]
  <2>1. /\ file' \in Seq(File) /\ Len(file') = counter + 1
        /\ file'[counter + 1] = EmptyFile
        /\ \A g \in 1 .. counter : file'[g] = file[g]
    BY <1>2, <1>3, <1>4, Appended
  <2>2. file' \in [1 .. counter + 1 -> File]
    BY <2>1
  <2>3. QED
    BY <2>1, <2>2
<1>6. counter' = counter + 1 /\ counter' \in 0 .. MaxBins
  BY <1>1 DEF BinOpen
<1>7. QED
  BY <1>5, <1>6 DEF BinOpen, BinGoto

-----------------------------------------------------------------------------
(* What the files hold                                                     *)

LEMMA InitFiles == Init => FilesInv
<1> SUFFICES ASSUME Init PROVE FilesInv
  OBVIOUS
<1>1. Owners
  BY DEF Init, MemoryInit, Owners, Opened, Writing
<1>2. Complete /\ Progress
  BY DEF Init, MemoryInit, Complete, Progress, Opened
<1>3. QED
  BY <1>1, <1>2 DEF FilesInv

(* A step that leaves the files and the bins at them alone                 *)
SameFiles ==
  /\ UNCHANGED <<counter, file, P, Index, i>>
  /\ \A b \in Bins : bPc'[b] \in {"none", "open"} <=> bPc[b] \in {"none", "open"}
  /\ \A b \in Bins : bPc'[b] \in Writing \/ bPc[b] \in Writing => bPc'[b] = bPc[b]
  /\ \A b \in Bins : bPc[b] \in Exits => bPc'[b] \in Exits

LEMMA SameInFiles ==
  ASSUME FilesInv, SameFiles
  PROVE  FilesInv'
<1>1. \A b \in Bins : Opened(b)' <=> Opened(b)
  BY DEF SameFiles, Opened
<1>2. Owners'
  BY <1>1 DEF FilesInv, Owners, SameFiles
<1>3. Complete'
  BY DEF FilesInv, Complete, CompleteFile, Names, SameFiles
<1>4. ASSUME NEW b \in Bins, FileOf(b, file[Index[b]]) PROVE FileOf(b, file[Index[b]])'
  <2>1. UNCHANGED <<file, P, Index, i>>
    BY DEF SameFiles
  <2>2. \A l \in {"vec", "header", "pagecount"} : bPc'[b] = l <=> bPc[b] = l
    BY DEF SameFiles, Writing
  <2>3. bPc'[b] \notin Exits => bPc[b] \notin Exits
    BY DEF SameFiles
  <2>4. QED
    BY <1>4, <2>1, <2>2, <2>3 DEF FileOf
<1>5. Progress'
  BY <1>1, <1>4 DEF FilesInv, Progress
<1>6. QED
  BY <1>2, <1>3, <1>5 DEF FilesInv

LEMMA FilesOpen ==
  ASSUME Types, FilesInv, NEW b \in Bins, BinOpen(b)
  PROVE  FilesInv'
<1>1. /\ counter' = counter + 1 /\ counter \in Nat
      /\ file'[counter + 1] = EmptyFile
      /\ \A g \in 1 .. counter : file'[g] = file[g]
      /\ UNCHANGED <<P, i>>
      /\ bPc[b] = "open" /\ bPc'[b] = "loop" /\ Index'[b] = counter + 1
      /\ \A c \in Bins : c # b => bPc'[c] = bPc[c] /\ Index'[c] = Index[c]
  <2>1. counter \in Nat /\ Index \in [Bins -> Nat] /\ bPc \in [Bins -> BinPcs]
    BY BoundsAssumption DEF Types
  <2>2. QED
    BY <2>1, OpenDone
<1>2. /\ Opened(b)' /\ ~Opened(b)
      /\ \A c \in Bins : c # b => (Opened(c)' <=> Opened(c))
  BY <1>1 DEF Opened
<1>3. \A c \in Bins : c # b /\ Opened(c) => Index'[c] \in 1 .. counter
  BY <1>1 DEF FilesInv, Owners
<1>4. i[b] = 0
  BY <1>2 DEF FilesInv, Owners
<1>5. Owners'
  <2>1. \A c \in Bins : Opened(c)' => Index'[c] \in 1 .. counter + 1
    BY <1>1, <1>2, <1>3
  <2>2. \A c \in Bins : ~Opened(c)' => Index'[c] = 0 /\ i'[c] = 0
    BY <1>1, <1>2 DEF FilesInv, Owners
  <2>3. ASSUME NEW c \in Bins, NEW d \in Bins, Opened(c)', Opened(d)', Index'[c] = Index'[d]
        PROVE  c = d
    <3>1. CASE c # b /\ d # b
      BY <1>1, <1>2, <2>3, <3>1 DEF FilesInv, Owners
    <3>2. CASE c = b \/ d = b
      BY <1>1, <1>2, <1>3, <2>3, <3>2
    <3>3. QED
      BY <3>1, <3>2
  <2>4. \A c \in Bins : P'[c] # NoPage <=> bPc'[c] \in Writing
    BY <1>1 DEF FilesInv, Owners, Writing
  <2>5. QED
    BY <1>1, <2>1, <2>2, <2>3, <2>4 DEF Owners
<1>6. Complete'
  <2>1. EmptyFile.count = 0 /\ Len(EmptyFile.headers) = 0 /\ 0 <= numPages
    BY NumPagesAssumption DEF EmptyFile
  <2>2. ASSUME NEW f \in 1 .. counter + 1
        PROVE  CompleteFile(f)'
    <3>1. CASE f = counter + 1
      <4>1. 1 .. Len(file'[f].headers) = {}
        BY <1>1, <2>1, <3>1
      <4>2. QED
        BY <1>1, <2>1, <3>1, <4>1 DEF CompleteFile
    <3>2. CASE f # counter + 1
      <4>1. f \in 1 .. counter
        BY <1>1, <3>2
      <4>2. CompleteFile(f) /\ file'[f] = file[f]
        BY <1>1, <4>1 DEF FilesInv, Complete
      <4>3. QED
        BY <4>2 DEF CompleteFile, Names
    <3>3. QED
      BY <3>1, <3>2
  <2>3. QED
    BY <1>1, <2>2 DEF Complete
<1>7. Progress'
  <2>1. FileOf(b, file[Index[b]])'
    BY <1>1, <1>4, NumPagesAssumption DEF FileOf, EmptyFile, Exits
  <2>2. ASSUME NEW c \in Bins, c # b, Opened(c) PROVE FileOf(c, file[Index[c]])'
    <3>1. file'[Index'[c]] = file[Index[c]]
      BY <1>1, <1>3, <2>2
    <3>2. FileOf(c, file[Index[c]])
      BY <2>2 DEF FilesInv, Progress
    <3>3. QED
      BY <1>1, <2>2, <3>1, <3>2 DEF FileOf
  <2>3. QED
    BY <1>2, <2>1, <2>2 DEF Progress
<1>8. QED
  BY <1>5, <1>6, <1>7 DEF FilesInv

LEMMA FilesTake ==
  ASSUME Types, FilesInv, NEW b \in Bins, BinTake(b)
  PROVE  FilesInv'
<1>1. /\ UNCHANGED <<counter, file, Index, i>>
      /\ bPc[b] = "empty" /\ bPc'[b] = "text" /\ P'[b] # NoPage
      /\ \A c \in Bins : c # b => bPc'[c] = bPc[c] /\ P'[c] = P[c]
  <2>1. Head(PagesToAdd) \in Pages
    BY DEF Types, BinTake
  <2>2. Head(PagesToAdd) # NoPage
    BY <2>1 DEF Pages, NoPage
  <2>3. bPc \in [Bins -> BinPcs] /\ P \in [Bins -> Pages \union {NoPage}]
    BY DEF Types
  <2>4. QED
    BY <2>2, <2>3 DEF BinTake, BinGoto, disk
<1>2. \A c \in Bins : Opened(c)' <=> Opened(c)
  BY <1>1 DEF Opened
<1>3. Owners'
  BY <1>1, <1>2 DEF FilesInv, Owners, Writing
<1>4. Complete'
  BY <1>1 DEF FilesInv, Complete, CompleteFile, Names
<1>5. ASSUME NEW c \in Bins, FileOf(c, file[Index[c]]) PROVE FileOf(c, file[Index[c]])'
  BY <1>1, <1>5 DEF FileOf, Exits
<1>6. Progress'
  BY <1>2, <1>5 DEF FilesInv, Progress
<1>7. QED
  BY <1>3, <1>4, <1>6 DEF FilesInv

(* After a crash no bin has a file.                                        *)
LEMMA FilesCrash ==
  ASSUME FilesInv, Crash
  PROVE  FilesInv'
<1>1. \A b \in Bins : ~Opened(b)' /\ bPc'[b] = "none" /\ P'[b] = NoPage /\ Index'[b] = 0 /\ i'[b] = 0
  BY DEF Crash, Opened
<1>2. UNCHANGED <<counter, file>>
  BY DEF Crash, disk
<1>3. Owners' /\ Progress'
  BY <1>1 DEF Owners, Progress, Writing
<1>4. Complete'
  BY <1>2 DEF FilesInv, Complete, CompleteFile, Names
<1>5. QED
  BY <1>3, <1>4 DEF FilesInv

(* A bin that writes to its file does not touch those of the others.       *)
LEMMA OthersFiles ==
  ASSUME Types, FilesInv, NEW b \in Bins, bPc[b] \in Writing, NEW f, f = Index[b],
         NEW l \in BinPcs \ {"none", "open"}, WriteDone(b, f, l),
         \A c \in Bins : c # b => P'[c] = P[c] /\ i'[c] = i[c],
         P'[b] # NoPage <=> l \in Writing,
         FileOf(b, file[f])', CompleteFile(f)'
  PROVE  FilesInv'
<1>1. /\ UNCHANGED <<Index, counter>>
      /\ bPc'[b] = l /\ \A c \in Bins : c # b => bPc'[c] = bPc[c]
      /\ \A g \in 1 .. counter : g # f => file'[g] = file[g]
  BY DEF WriteDone, Types
<1>2. \A c \in Bins : Opened(c)' <=> Opened(c)
  BY <1>1 DEF Opened, Writing
<1>3. f \in 1 .. counter /\ Opened(b)
  BY HasFile DEF FilesInv
<1>4. Owners'
  BY <1>1, <1>2, <1>3 DEF FilesInv, Owners
<1>5. ASSUME NEW c \in Bins, c # b, Opened(c) PROVE FileOf(c, file[Index[c]])'
  <2>1. Index[c] # f /\ Index[c] \in 1 .. counter
    BY <1>3, <1>5 DEF FilesInv, Owners
  <2>2. file'[Index'[c]] = file[Index[c]]
    BY <1>1, <2>1
  <2>3. FileOf(c, file[Index[c]])
    BY <1>5 DEF FilesInv, Progress
  <2>4. QED
    BY <1>1, <1>5, <2>2, <2>3 DEF FileOf
<1>6. FileOf(b, file[Index[b]])'
  BY <1>1
<1>7. Progress'
  BY <1>2, <1>5, <1>6 DEF Progress
<1>8. Complete'
  <2>1. ASSUME NEW g \in 1 .. counter, g # f PROVE CompleteFile(g)'
    <3>1. CompleteFile(g) /\ file'[g] = file[g]
      BY <1>1, <2>1 DEF FilesInv, Complete
    <3>2. QED
      BY <3>1 DEF CompleteFile, Names
  <2>2. QED
    BY <1>1, <2>1 DEF Complete
<1>9. QED
  BY <1>4, <1>7, <1>8 DEF FilesInv

LEMMA FilesText ==
  ASSUME Types, FilesInv, NEW b \in Bins, WriteText(b)
  PROVE  FilesInv'
<1>1. PICK f : f = Index[b]
  OBVIOUS
<1>2. bPc[b] = "text" /\ bPc[b] \in Writing /\ bPc \in [Bins -> BinPcs]
  BY DEF WriteText, Writing, Types
<1>3. f \in 1 .. counter /\ P[b] \in Pages /\ file[f] \in File /\ Opened(b)
  BY <1>1, <1>2, HasFile DEF FilesInv
<1>4. /\ WriteDone(b, f, "vec") /\ UNCHANGED <<P, i>>
      /\ file'[f].text = Append(file[f].text, P[b]) /\ file'[f].vec = file[f].vec
      /\ file'[f].headers = file[f].headers /\ file'[f].count = file[f].count
  BY <1>1, TextDone DEF FilesInv
<1>5. bPc'[b] = "vec"
  BY <1>2, <1>4 DEF WriteDone
<1>6. file[f].text \in Seq(Pages)
  BY <1>3 DEF File
<1>7. /\ Len(file[f].text) \in Nat /\ Len(file'[f].text) = Len(file[f].text) + 1
      /\ file'[f].text[Len(file[f].text) + 1] = P[b]
      /\ \A k \in 1 .. Len(file[f].text) : file'[f].text[k] = file[f].text[k]
  BY <1>3, <1>4, <1>6, Appended
<1>8. FileOf(b, file[f])'
  <2>1. FileOf(b, file[f])
    BY <1>1, <1>3 DEF FilesInv, Progress
  <2>2. EndsWith(file'[f].text, P[b])
    BY <1>7 DEF EndsWith
  <2>3. QED
    BY <1>2, <1>4, <1>5, <2>1, <2>2 DEF FileOf, Exits
<1>9. P'[b] # NoPage /\ "vec" \in Writing /\ "vec" \in BinPcs \ {"none", "open"}
  BY <1>3, <1>4 DEF Pages, NoPage, Writing, BinPcs
<1>10. CompleteFile(f)'
  <2>1. CompleteFile(f)
    BY <1>3 DEF FilesInv, Complete
  <2>2. ASSUME NEW h \in 1 .. Len(file[f].headers) PROVE Names(f, h)'
    <3>1. Names(f, h)
      BY <2>1 DEF CompleteFile
    <3>2. QED
      BY <1>4, <1>7, <3>1 DEF Names
  <2>3. QED
    BY <1>4, <2>1, <2>2 DEF CompleteFile
<1>11. QED
  BY <1>1, <1>2, <1>4, <1>8, <1>9, <1>10, OthersFiles

LEMMA FilesVec ==
  ASSUME Types, FilesInv, NEW b \in Bins, WriteVec(b)
  PROVE  FilesInv'
<1>1. PICK f : f = Index[b]
  OBVIOUS
<1>2. bPc[b] = "vec" /\ bPc[b] \in Writing /\ bPc \in [Bins -> BinPcs]
  BY DEF WriteVec, Writing, Types
<1>3. f \in 1 .. counter /\ P[b] \in Pages /\ file[f] \in File /\ Opened(b)
  BY <1>1, <1>2, HasFile DEF FilesInv
<1>4. /\ WriteDone(b, f, "header") /\ UNCHANGED <<P, i>>
      /\ file'[f].text = file[f].text /\ file'[f].vec = Append(file[f].vec, P[b])
      /\ file'[f].headers = file[f].headers /\ file'[f].count = file[f].count
  BY <1>1, VecDone DEF FilesInv
<1>5. bPc'[b] = "header"
  BY <1>2, <1>4 DEF WriteDone
<1>6. file[f].vec \in Seq(Pages)
  BY <1>3 DEF File
<1>7. /\ Len(file[f].vec) \in Nat /\ Len(file'[f].vec) = Len(file[f].vec) + 1
      /\ file'[f].vec[Len(file[f].vec) + 1] = P[b]
      /\ \A k \in 1 .. Len(file[f].vec) : file'[f].vec[k] = file[f].vec[k]
  BY <1>3, <1>4, <1>6, Appended
<1>8. FileOf(b, file[f])'
  <2>1. FileOf(b, file[f])
    BY <1>1, <1>3 DEF FilesInv, Progress
  <2>2. EndsWith(file'[f].vec, P[b])
    BY <1>7 DEF EndsWith
  <2>3. QED
    BY <1>2, <1>4, <1>5, <2>1, <2>2 DEF FileOf, Exits
<1>9. P'[b] # NoPage /\ "header" \in Writing /\ "header" \in BinPcs \ {"none", "open"}
  BY <1>3, <1>4 DEF Pages, NoPage, Writing, BinPcs
<1>10. CompleteFile(f)'
  <2>1. CompleteFile(f)
    BY <1>3 DEF FilesInv, Complete
  <2>2. ASSUME NEW h \in 1 .. Len(file[f].headers) PROVE Names(f, h)'
    <3>1. Names(f, h)
      BY <2>1 DEF CompleteFile
    <3>2. QED
      BY <1>4, <1>7, <3>1 DEF Names
  <2>3. QED
    BY <1>4, <2>1, <2>2 DEF CompleteFile
<1>11. QED
  BY <1>1, <1>2, <1>4, <1>8, <1>9, <1>10, OthersFiles

(* The header names the text and the descriptors that were written last,   *)
(* and they are those of the page.                                         *)
LEMMA FilesHeader ==
  ASSUME Types, FilesInv, NEW b \in Bins, WriteHeader(b)
  PROVE  FilesInv'
<1>1. PICK f : f = Index[b]
  OBVIOUS
<1> DEFINE hdr == [text |-> Len(file[f].text), vec |-> Len(file[f].vec), url |-> P[b]]
<1>2. bPc[b] = "header" /\ bPc[b] \in Writing /\ bPc \in [Bins -> BinPcs]
  BY DEF WriteHeader, Writing, Types
<1>3. f \in 1 .. counter /\ P[b] \in Pages /\ file[f] \in File /\ Opened(b) /\ i[b] \in Nat
  BY <1>1, <1>2, HasFile DEF FilesInv
<1>4. /\ WriteDone(b, f, "pagecount") /\ UNCHANGED <<P, i>> /\ hdr \in Header
      /\ file'[f].text = file[f].text /\ file'[f].vec = file[f].vec
      /\ file'[f].headers = Append(file[f].headers, hdr) /\ file'[f].count = file[f].count
  BY <1>1, HeaderDone DEF FilesInv
<1>5. bPc'[b] = "pagecount"
  BY <1>2, <1>4 DEF WriteDone
<1>6. /\ hdr.text = Len(file[f].text) /\ hdr.vec = Len(file[f].vec) /\ hdr.url = P[b]
      /\ file[f].headers \in Seq(Header)
      /\ Len(file[f].text) \in Nat /\ Len(file[f].vec) \in Nat
  BY <1>3 DEF File
<1> HIDE DEF hdr
<1>7. /\ Len(file[f].headers) \in Nat
      /\ Len(file'[f].headers) = Len(file[f].headers) + 1
      /\ file'[f].headers[Len(file[f].headers) + 1] = hdr
      /\ \A k \in 1 .. Len(file[f].headers) : file'[f].headers[k] = file[f].headers[k]
  BY <1>4, <1>6, Appended
<1>8. FileOf(b, file[f])
  BY <1>1, <1>3 DEF FilesInv, Progress
<1>9. /\ file[f].count = i[b] /\ Len(file[f].headers) = i[b] /\ i[b] < numPages
      /\ EndsWith(file[f].text, P[b]) /\ EndsWith(file[f].vec, P[b])
  BY <1>2, <1>8 DEF FileOf, Exits
<1>10. FileOf(b, file[f])'
  BY <1>4, <1>5, <1>6, <1>7, <1>9 DEF FileOf, Exits
<1>11. P'[b] # NoPage /\ "pagecount" \in Writing /\ "pagecount" \in BinPcs \ {"none", "open"}
  BY <1>3, <1>4 DEF Pages, NoPage, Writing, BinPcs
<1>12. CompleteFile(f)'
  <2>1. CompleteFile(f)
    BY <1>3 DEF FilesInv, Complete
  <2>2. ASSUME NEW h \in 1 .. Len(file'[f].headers) PROVE Names(f, h)'
    <3>1. CASE h \in 1 .. Len(file[f].headers)
      <4>1. Names(f, h)
        BY <2>1, <3>1 DEF CompleteFile
      <4>2. QED
        BY <1>4, <1>7, <3>1, <4>1 DEF Names
    <3>2. CASE h = Len(file[f].headers) + 1
      BY <1>4, <1>6, <1>7, <1>9, <3>2 DEF Names, EndsWith
    <3>3. h \in 1 .. Len(file[f].headers) \/ h = Len(file[f].headers) + 1
      BY <1>7
    <3>4. QED
      BY <3>1, <3>2, <3>3
  <2>3. /\ file'[f].count <= Len(file'[f].headers)
        /\ Len(file'[f].headers) <= numPages
    BY <1>3, <1>4, <1>7, <1>9, NumPagesAssumption
  <2>4. QED
    BY <2>2, <2>3 DEF CompleteFile
<1>13. QED
  BY <1>1, <1>2, <1>4, <1>10, <1>11, <1>12, OthersFiles

LEMMA FilesCount ==
  ASSUME Types, FilesInv, NEW b \in Bins, WriteCount(b)
  PROVE  FilesInv'
<1> DEFINE l == IF i[b] + 1 < numPages THEN "loop" ELSE "exit"
<1>1. PICK f : f = Index[b]
  OBVIOUS
<1>2. bPc[b] = "pagecount" /\ bPc[b] \in Writing /\ bPc \in [Bins -> BinPcs]
      /\ P \in [Bins -> Pages \union {NoPage}] /\ i \in [Bins -> Nat]
  BY DEF WriteCount, Writing, Types
<1>3. f \in 1 .. counter /\ file[f] \in File /\ Opened(b) /\ i[b] \in Nat
  BY <1>1, <1>2, HasFile DEF FilesInv
<1>4. /\ WriteDone(b, f, l)
      /\ P' = [P EXCEPT ![b] = NoPage] /\ i' = [i EXCEPT ![b] = i[b] + 1]
      /\ file'[f].text = file[f].text /\ file'[f].vec = file[f].vec
      /\ file'[f].headers = file[f].headers /\ file'[f].count = i[b] + 1
  BY <1>1, CountDone DEF FilesInv
<1>5. /\ bPc'[b] = l /\ P'[b] = NoPage /\ i'[b] = i[b] + 1
      /\ \A c \in Bins : c # b => P'[c] = P[c] /\ i'[c] = i[c]
  BY <1>2, <1>4 DEF WriteDone
<1>6. l \in {"loop", "exit"} /\ (l = "loop" => i[b] + 1 < numPages)
  OBVIOUS
<1> HIDE DEF l
<1>7. FileOf(b, file[f])
  BY <1>1, <1>3 DEF FilesInv, Progress
<1>8. Len(file[f].headers) = i[b] + 1
  BY <1>2, <1>7 DEF FileOf
<1>9. FileOf(b, file[f])'
  BY <1>4, <1>5, <1>6, <1>8 DEF FileOf, Exits
<1>10. l \notin Writing /\ l \in BinPcs \ {"none", "open"}
  BY <1>6 DEF Writing, BinPcs
<1>11. CompleteFile(f)'
  <2>1. CompleteFile(f)
    BY <1>3 DEF FilesInv, Complete
  <2>2. file'[f].count <= Len(file'[f].headers)
    BY <1>3, <1>4, <1>8
  <2>3. QED
    BY <1>4, <2>1, <2>2 DEF CompleteFile, Names
<1>12. QED
  BY <1>1, <1>2, <1>4, <1>5, <1>9, <1>10, <1>11, OthersFiles

(* All other steps leave the files, and the bins at them, alone.           *)
BinElsewhere(b) ==
  \/ BinLock(b) \/ BinTestShutdown(b) \/ BinWait(b) \/ BinSpuriousWakeup(b)
  \/ BinExit(b) \/ BinSignal(b)

LEMMA BinLeavesFiles ==
  ASSUME Types, NEW b \in Bins, BinElsewhere(b)
  PROVE  SameFiles
<1>1. bPc \in [Bins -> BinPcs]
  BY DEF Types
<1>2. UNCHANGED <<counter, file, P, Index, i>>
  BY DEF BinElsewhere, BinLock, BinTestShutdown, BinWait, BinSpuriousWakeup, BinExit,
     BinSignal, disk
<1>3. \/ /\ bPc[b] \notin {"none", "open"} \union Writing \union Exits
         /\ \E l \in BinPcs \ ({"none", "open"} \union Writing) : bPc' = [bPc EXCEPT ![b] = l]
      \/ /\ bPc[b] \in Exits
         /\ \E l \in Exits : bPc' = [bPc EXCEPT ![b] = l]
  <2>1. CASE BinLock(b) \/ BinWait(b) \/ BinSpuriousWakeup(b)
    BY <2>1 DEF BinLock, BinWait, BinSpuriousWakeup, BinGoto, BinPcs, Writing, Exits, Holding
  <2>2. CASE BinTestShutdown(b)
    BY <2>2 DEF BinTestShutdown, BinGoto, BinPcs, Writing, Exits, Holding
  <2>3. CASE BinExit(b) \/ BinSignal(b)
    BY <2>3 DEF BinExit, BinSignal, BinGoto, Exits
  <2>4. QED
    BY <2>1, <2>2, <2>3 DEF BinElsewhere
<1>4. QED
  BY <1>1, <1>2, <1>3 DEF SameFiles, Writing, Exits

LEMMA ParserLeavesFiles ==
  ASSUME Types, NEW p \in Parsers, Parser(p) \/ ParserWoken(p)
  PROVE  SameFiles
<1>1. bPc \in [Bins -> BinPcs]
  BY DEF Types
<1>2. UNCHANGED <<counter, file, P, Index, i>>
  BY DEF Parser, ParserEnds, ParserParses, ParserFindsNone, ParserSleeps, ParserWoken,
     AddPush, AddCount, AddTest, AddSpawn, AddSignal, disk, bins
<1>3. \/ UNCHANGED bPc
      \/ \E b \in Bins : bPc[b] = "none" /\ bPc' = [bPc EXCEPT ![b] = "open"]
      \/ \E b \in Bins : bPc[b] = "waiting" /\ bPc' = [bPc EXCEPT ![b] = "woken"]
  BY DEF Parser, ParserEnds, ParserParses, ParserFindsNone, ParserSleeps, ParserWoken,
     AddPush, AddCount, AddTest, AddSpawn, AddSignal, bins
<1>4. QED
  BY <1>1, <1>2, <1>3 DEF SameFiles, Writing, Exits

LEMMA MainLeavesFiles ==
  ASSUME Types, InitiateShutDown \/ MainThread \/ UNCHANGED vars
  PROVE  SameFiles
<1>1. bPc \in [Bins -> BinPcs]
  BY DEF Types
<1>2. UNCHANGED <<counter, file, P, Index, i>>
  BY DEF InitiateShutDown, MainThread, WakeParsers, SetNeedToShutdown, Broadcast, TestThreads,
     WaitThreads, JoinParsers, disk, bins, vars
<1>3. \/ UNCHANGED bPc
      \/ bPc' = [b \in Bins |-> IF bPc[b] = "waiting" THEN "woken" ELSE bPc[b]]
  BY DEF InitiateShutDown, MainThread, WakeParsers, SetNeedToShutdown, Broadcast, TestThreads,
     WaitThreads, JoinParsers, bins, vars
<1>4. QED
  BY <1>1, <1>2, <1>3 DEF SameFiles, Writing, Exits

LEMMA FilesNext ==
  ASSUME Types, FilesInv, [Next]_vars
  PROVE  FilesInv'
<1>1. ASSUME NEW b \in Bins, Bin(b) \/ BinSpuriousWakeup(b)
      PROVE  FilesInv'
  <2>1. CASE BinElsewhere(b)
    BY <2>1, BinLeavesFiles, SameInFiles
  <2>2. CASE BinOpen(b) \/ BinTake(b)
    BY <2>2, FilesOpen, FilesTake
  <2>3. CASE WriteText(b) \/ WriteVec(b) \/ WriteHeader(b) \/ WriteCount(b)
    BY <2>3, FilesText, FilesVec, FilesHeader, FilesCount
  <2>4. QED
    BY <1>1, <2>1, <2>2, <2>3 DEF Bin, BinElsewhere
<1>2. CASE \E p \in Parsers : Parser(p) \/ ParserWoken(p)
  BY <1>2, ParserLeavesFiles, SameInFiles
<1>3. CASE InitiateShutDown \/ MainThread \/ UNCHANGED vars
  BY <1>3, MainLeavesFiles, SameInFiles
<1>4. CASE Crash
  BY <1>4, FilesCrash
<1>5. QED
  BY <1>1, <1>2, <1>3, <1>4 DEF Next

-----------------------------------------------------------------------------
(* What is stored                                                          *)

SameStored ==
  /\ UNCHANGED counter
  /\ \A f \in 1 .. counter :
       /\ file'[f].count = file[f].count
       /\ \A h \in 1 .. file[f].count : file'[f].headers[h] = file[f].headers[h]

(* No write but that of the count changes what is stored.                  *)
LEMMA WritesBefore ==
  ASSUME Types, FilesInv, NEW b \in Bins, WriteText(b) \/ WriteVec(b) \/ WriteHeader(b)
  PROVE  SameStored
<1>1. PICK f : f = Index[b]
  OBVIOUS
<1>2. bPc[b] \in Writing
  BY DEF WriteText, WriteVec, WriteHeader, Writing
<1>3. f \in 1 .. counter /\ file[f] \in File
  BY <1>1, <1>2, HasFile DEF FilesInv
<1>4. /\ UNCHANGED counter /\ \A g \in 1 .. counter : g # f => file'[g] = file[g]
      /\ file'[f].count = file[f].count
      /\ \/ file'[f].headers = file[f].headers
         \/ \E hdr \in Header : file'[f].headers = Append(file[f].headers, hdr)
  <2>1. CASE WriteText(b)
    BY <1>1, <2>1, TextDone DEF FilesInv, WriteDone
  <2>2. CASE WriteVec(b)
    BY <1>1, <2>2, VecDone DEF FilesInv, WriteDone
  <2>3. CASE WriteHeader(b)
    <3> DEFINE hdr == [text |-> Len(file[f].text), vec |-> Len(file[f].vec), url |-> P[b]]
    <3>1. /\ WriteDone(b, f, "pagecount") /\ hdr \in Header
          /\ file'[f].headers = Append(file[f].headers, hdr) /\ file'[f].count = file[f].count
      BY <1>1, <2>3, HeaderDone DEF FilesInv
    <3> HIDE DEF hdr
    <3>2. QED
      BY <3>1 DEF WriteDone
  <2>4. QED
    BY <2>1, <2>2, <2>3
<1>5. file[f].headers \in Seq(Header) /\ file[f].count \in Nat
      /\ file[f].count <= Len(file[f].headers)
  BY <1>3 DEF FilesInv, Complete, CompleteFile, File
<1>6. \A h \in 1 .. file[f].count : file'[f].headers[h] = file[f].headers[h]
  <2>1. Len(file[f].headers) \in Nat
    BY <1>5
  <2>2. \A h \in 1 .. file[f].count : h \in 1 .. Len(file[f].headers)
    BY <1>5, <2>1
  <2>3. \A h \in 1 .. Len(file[f].headers) : file'[f].headers[h] = file[f].headers[h]
    BY <1>4, <1>5, Appended
  <2>4. QED
    BY <2>2, <2>3
<1>7. QED
  BY <1>4, <1>6 DEF SameStored

(* The count makes the page of the bin a stored one.                       *)
LEMMA CountStores ==
  ASSUME Types, FilesInv, NEW b \in Bins, WriteCount(b), NEW f, f = Index[b]
  PROVE  /\ f \in 1 .. counter /\ UNCHANGED counter /\ P[b] \in Pages
         /\ file[f].count \in Nat /\ file'[f].count = file[f].count + 1
         /\ file'[f].headers = file[f].headers
         /\ file[f].headers[file[f].count + 1].url = P[b]
         /\ \A g \in 1 .. counter : g # f => file'[g] = file[g]
<1>1. bPc[b] = "pagecount" /\ bPc[b] \in Writing
  BY DEF WriteCount, Writing
<1>2. f \in 1 .. counter /\ file[f] \in File /\ Opened(b) /\ P[b] \in Pages /\ i[b] \in Nat
  BY <1>1, HasFile DEF FilesInv
<1>3. FileOf(b, file[f])
  BY <1>2 DEF FilesInv, Progress
<1>4. file[f].count = i[b] /\ file[f].headers[i[b] + 1].url = P[b]
  BY <1>1, <1>3 DEF FileOf
<1>5. /\ UNCHANGED counter /\ \A g \in 1 .. counter : g # f => file'[g] = file[g]
      /\ file'[f].headers = file[f].headers /\ file'[f].count = i[b] + 1
  BY CountDone DEF FilesInv, WriteDone
<1>6. QED
  BY <1>2, <1>4, <1>5

LEMMA FilesGrow ==
  ASSUME Types, FilesInv, [Next]_vars, NEW f \in 1 .. counter
  PROVE  /\ file'[f].count >= file[f].count
         /\ \A h \in 1 .. file[f].count : file'[f].headers[h] = file[f].headers[h]
<1>1. file[f].count \in Nat
  BY DEF Types, File
<1>2. CASE file' = file \/ SameStored
  BY <1>1, <1>2 DEF SameStored
<1>3. ASSUME NEW b \in Bins, Bin(b) \/ BinSpuriousWakeup(b)
      PROVE  /\ file'[f].count >= file[f].count
             /\ \A h \in 1 .. file[f].count : file'[f].headers[h] = file[f].headers[h]
  <2>1. CASE BinElsewhere(b) \/ BinTake(b)
    <3>1. file' = file
      BY <2>1, BinLeavesFiles DEF SameFiles, BinTake, disk
    <3>2. QED
      BY <1>2, <3>1
  <2>2. CASE BinOpen(b)
    <3>1. file'[f] = file[f]
      BY <2>2, OpenDone
    <3>2. QED
      BY <1>1, <3>1
  <2>3. CASE WriteText(b) \/ WriteVec(b) \/ WriteHeader(b)
    BY <1>2, <2>3, WritesBefore
  <2>4. CASE WriteCount(b)
    <3>1. PICK g : g = Index[b]
      OBVIOUS
    <3>2. /\ file'[g].count = file[g].count + 1 /\ file'[g].headers = file[g].headers
          /\ f # g => file'[f] = file[f]
      BY <2>4, <3>1, CountStores
    <3>3. QED
      BY <1>1, <3>2
  <2>5. QED
    BY <1>3, <2>1, <2>2, <2>3, <2>4 DEF Bin, BinElsewhere
<1>4. CASE \E p \in Parsers : Parser(p) \/ ParserWoken(p)
  BY <1>2, <1>4, ParserLeavesFiles DEF SameFiles
<1>5. CASE InitiateShutDown \/ MainThread \/ UNCHANGED vars
  BY <1>2, <1>5, MainLeavesFiles DEF SameFiles
<1>6. CASE Crash
  BY <1>2, <1>6 DEF Crash, disk
<1>7. QED
  BY <1>3, <1>4, <1>5, <1>6 DEF Next

-----------------------------------------------------------------------------
(* Where the pages are                                                     *)

LEMMA StoredAre ==
  /\ \A u : u \in Stored <=>
       \E f \in 1 .. counter : \E h \in 1 .. file[f].count : u = file[f].headers[h].url
  /\ \A u : u \in Stored' <=>
       \E f \in 1 .. counter' : \E h \in 1 .. file'[f].count : u = file'[f].headers[h].url
BY DEF Stored, StoredIn

LEMMA StoredSame ==
  ASSUME SameStored
  PROVE  Stored' = Stored /\ (StoredOnce => StoredOnce')
<1>1. \A u : u \in Stored' <=> u \in Stored
  BY StoredAre DEF SameStored
<1>2. ASSUME StoredOnce PROVE StoredOnce'
  <2> SUFFICES ASSUME NEW f \in 1 .. counter, NEW g \in 1 .. counter,
                      NEW h \in 1 .. file[f].count, NEW k \in 1 .. file[g].count,
                      file'[f].headers[h].url = file'[g].headers[k].url
               PROVE  f = g /\ h = k
    BY DEF SameStored, StoredOnce
  <2>1. file'[f].headers[h] = file[f].headers[h] /\ file'[g].headers[k] = file[g].headers[k]
    BY DEF SameStored
  <2>2. QED
    BY <1>2, <2>1 DEF StoredOnce
<1>3. Stored' = Stored
  BY <1>1
<1>4. QED
  BY <1>2, <1>3

LEMMA StoredOpen ==
  ASSUME Types, NEW b \in Bins, BinOpen(b)
  PROVE  Stored' = Stored /\ (StoredOnce => StoredOnce')
<1>1. /\ counter' = counter + 1 /\ counter \in Nat
      /\ file'[counter + 1] = EmptyFile
      /\ \A g \in 1 .. counter : file'[g] = file[g]
  BY OpenDone, BoundsAssumption DEF Types
<1>2. 1 .. file'[counter + 1].count = {}
  BY <1>1 DEF EmptyFile
<1>3. \A f \in 1 .. counter' : \A h \in 1 .. file'[f].count :
        f \in 1 .. counter /\ file'[f] = file[f]
  <2>1. \A f \in 1 .. counter' : f \in 1 .. counter \/ f = counter + 1
    BY <1>1
  <2>2. QED
    BY <1>1, <1>2, <2>1
<1>4. 1 .. counter \subseteq 1 .. counter'
  BY <1>1
<1>5. \A u : u \in Stored' <=> u \in Stored
  BY <1>1, <1>3, <1>4, StoredAre
<1>6. StoredOnce => StoredOnce'
  BY <1>3 DEF StoredOnce
<1>7. Stored' = Stored
  BY <1>5
<1>8. QED
  BY <1>6, <1>7

LEMMA StoredCount ==
  ASSUME Types, FilesInv, NEW b \in Bins, WriteCount(b)
  PROVE  /\ Stored' = Stored \cup {P[b]}
         /\ StoredOnce /\ P[b] \notin Stored => StoredOnce'
<1>1. PICK f : f = Index[b]
  OBVIOUS
<1>2. PICK n : n = file[f].count
  OBVIOUS
<1>3. /\ f \in 1 .. counter /\ UNCHANGED counter /\ n \in Nat /\ file'[f].count = n + 1
      /\ file'[f].headers = file[f].headers /\ file[f].headers[n + 1].url = P[b]
      /\ \A g \in 1 .. counter : g # f => file'[g] = file[g]
  BY <1>1, <1>2, CountStores
<1>4. \A h : h \in 1 .. n + 1 <=> h \in 1 .. n \/ h = n + 1
  BY <1>3
<1>5. \A u : u \in Stored' <=> u \in Stored \cup {P[b]}
  <2>1. ASSUME NEW u \in Stored' PROVE u \in Stored \cup {P[b]}
    <3>1. PICK g \in 1 .. counter : \E h \in 1 .. file'[g].count : u = file'[g].headers[h].url
      BY <1>3, StoredAre
    <3>2. PICK h \in 1 .. file'[g].count : u = file'[g].headers[h].url
      BY <3>1
    <3>3. (h \in 1 .. file[g].count /\ u = file[g].headers[h].url) \/ u = P[b]
      BY <1>2, <1>3, <1>4, <3>2
    <3>4. QED
      BY <3>3, StoredAre
  <2>2. ASSUME NEW u \in Stored PROVE u \in Stored'
    <3>1. PICK g \in 1 .. counter : \E h \in 1 .. file[g].count : u = file[g].headers[h].url
      BY StoredAre
    <3>2. PICK h \in 1 .. file[g].count : u = file[g].headers[h].url
      BY <3>1
    <3>3. h \in 1 .. file'[g].count /\ u = file'[g].headers[h].url
      BY <1>2, <1>3, <1>4, <3>2
    <3>4. QED
      BY <1>3, <3>3, StoredAre
  <2>3. P[b] \in Stored'
    <3>1. n + 1 \in 1 .. file'[f].count /\ P[b] = file'[f].headers[n + 1].url
      BY <1>3
    <3>2. QED
      BY <1>3, <3>1, StoredAre
  <2>4. QED
    BY <2>1, <2>2, <2>3
<1>6. ASSUME StoredOnce, P[b] \notin Stored PROVE StoredOnce'
  <2>1. \A g \in 1 .. counter : \A h \in 1 .. file[g].count : file[g].headers[h].url # P[b]
    BY <1>6, StoredAre
  <2>2. \A g \in 1 .. counter : \A h \in 1 .. file'[g].count :
          \/ h \in 1 .. file[g].count /\ file'[g].headers[h] = file[g].headers[h]
          \/ g = f /\ h = n + 1 /\ file'[g].headers[h].url = P[b]
    BY <1>2, <1>3, <1>4
  <2> SUFFICES ASSUME NEW g \in 1 .. counter, NEW d \in 1 .. counter,
                      NEW h \in 1 .. file'[g].count, NEW k \in 1 .. file'[d].count,
                      file'[g].headers[h].url = file'[d].headers[k].url
               PROVE  g = d /\ h = k
    BY <1>3 DEF StoredOnce
  <2>3. CASE /\ h \in 1 .. file[g].count /\ file'[g].headers[h] = file[g].headers[h]
             /\ k \in 1 .. file[d].count /\ file'[d].headers[k] = file[d].headers[k]
    BY <1>6, <2>3 DEF StoredOnce
  <2>4. CASE /\ g = f /\ h = n + 1 /\ file'[g].headers[h].url = P[b]
             /\ d = f /\ k = n + 1
    BY <2>4
  <2>5. QED
    BY <2>1, <2>2, <2>3, <2>4
<1>7. Stored' = Stored \cup {P[b]}
  BY <1>5
<1>8. QED
  BY <1>6, <1>7

LEMMA PushedApart ==
  ASSUME NEW S, NEW s \in Seq(S), NEW e \in S, e \notin ToSet(s),
         \A m, n \in DOMAIN s : s[m] = s[n] => m = n
  PROVE  /\ ToSet(Append(s, e)) = ToSet(s) \cup {e}
         /\ \A m, n \in DOMAIN Append(s, e) : Append(s, e)[m] = Append(s, e)[n] => m = n
<1> DEFINE t == Append(s, e)
<1>1. /\ Len(s) \in Nat /\ DOMAIN s = 1 .. Len(s) /\ DOMAIN t = 1 .. Len(s) + 1
      /\ t[Len(s) + 1] = e /\ \A k \in 1 .. Len(s) : t[k] = s[k]
  OBVIOUS
<1>2. \A k \in DOMAIN s : s[k] # e
  BY DEF ToSet
<1> HIDE DEF t
<1>3. \A x : x \in ToSet(t) <=> x \in ToSet(s) \cup {e}
  BY <1>1 DEF ToSet
<1>4. \A m, n \in DOMAIN t : t[m] = t[n] => m = n
  BY <1>1, <1>2
<1>5. QED
  BY <1>3, <1>4 DEF t

LEMMA TakenApart ==
  ASSUME NEW S, NEW s \in Seq(S), s # <<>>, \A m, n \in DOMAIN s : s[m] = s[n] => m = n
  PROVE  /\ Head(s) \in S /\ Tail(s) \in Seq(S)
         /\ ToSet(s) = ToSet(Tail(s)) \cup {Head(s)} /\ Head(s) \notin ToSet(Tail(s))
         /\ \A m, n \in DOMAIN Tail(s) : Tail(s)[m] = Tail(s)[n] => m = n
<1> DEFINE t == Tail(s)
<1>1. /\ Head(s) \in S /\ t \in Seq(S) /\ Len(s) \in Nat \ {0} /\ Head(s) = s[1]
      /\ Len(t) = Len(s) - 1 /\ \A k \in 1 .. Len(s) - 1 : t[k] = s[k + 1]
  OBVIOUS
<1>2. DOMAIN s = 1 .. Len(s) /\ DOMAIN t = 1 .. Len(s) - 1
  BY <1>1
<1> HIDE DEF t
<1>3. \A k \in DOMAIN t : k + 1 \in DOMAIN s /\ t[k] = s[k + 1] /\ k + 1 # 1
  BY <1>1, <1>2
<1>4. \A k \in DOMAIN s : k = 1 \/ (k - 1 \in DOMAIN t /\ t[k - 1] = s[k])
  BY <1>1, <1>2
<1>5. 1 \in DOMAIN s
  BY <1>1, <1>2
<1>6. ASSUME NEW x PROVE x \in ToSet(s) <=> x \in ToSet(t) \cup {Head(s)}
  <2>1. ASSUME NEW k \in DOMAIN s, x = s[k] PROVE x \in ToSet(t) \cup {Head(s)}
    <3>1. CASE k = 1
      BY <1>1, <2>1, <3>1
    <3>2. CASE k - 1 \in DOMAIN t /\ t[k - 1] = s[k]
      BY <2>1, <3>2 DEF ToSet
    <3>3. QED
      BY <1>4, <3>1, <3>2
  <2>2. ASSUME NEW k \in DOMAIN t, x = t[k] PROVE x \in ToSet(s)
    <3>1. k + 1 \in DOMAIN s /\ x = s[k + 1]
      BY <1>3, <2>2
    <3>2. QED
      BY <3>1 DEF ToSet
  <2>3. Head(s) \in ToSet(s)
    BY <1>1, <1>5 DEF ToSet
  <2>4. x \in ToSet(s) => \E k \in DOMAIN s : x = s[k]
    BY DEF ToSet
  <2>5. x \in ToSet(t) => \E k \in DOMAIN t : x = t[k]
    BY DEF ToSet
  <2>6. QED
    BY <2>1, <2>2, <2>3, <2>4, <2>5
<1>7. Head(s) \notin ToSet(t)
  BY <1>1, <1>3, <1>5 DEF ToSet
<1>8. ASSUME NEW m \in DOMAIN t, NEW n \in DOMAIN t, t[m] = t[n] PROVE m = n
  <2>1. m + 1 = n + 1
    BY <1>3, <1>8
  <2>2. m \in Int /\ n \in Int
    BY <1>1, <1>2
  <2>3. QED
    BY <2>1, <2>2
<1>9. ToSet(s) = ToSet(t) \cup {Head(s)}
  BY <1>6
<1>10. QED
  BY <1>1, <1>7, <1>8, <1>9 DEF t

LEMMA InitPages == Init => PagesInv
<1> SUFFICES ASSUME Init PROVE PagesInv
  OBVIOUS
<1>1. /\ PagesToAdd = <<>> /\ counter = 0 /\ parsed = 0 /\ lost = {}
      /\ \A b \in Bins : P[b] = NoPage
  BY DEF Init, MemoryInit
<1>2. ToSet(PagesToAdd) = {} /\ InBins = {} /\ Stored = {} /\ 1 .. parsed = {}
  <2>1. \A u : u \notin Stored
    BY <1>1, StoredAre
  <2>2. QED
    BY <1>1, <2>1 DEF ToSet, InBins
<1>3. Apart
  BY <1>1 DEF Apart, StoredOnce
<1>4. Partition
  BY <1>1, <1>2 DEF Partition
<1>5. QED
  BY <1>3, <1>4 DEF PagesInv

(* A step that moves no page                                               *)
LEMMA PagesSame ==
  ASSUME PagesInv, UNCHANGED <<PagesToAdd, P, lost, parsed>>,
         Stored' = Stored, StoredOnce => StoredOnce'
  PROVE  PagesInv'
<1>1. InBins' = InBins
  BY DEF InBins
<1>2. QED
  BY <1>1 DEF PagesInv, Apart, Partition

LEMMA PagesPush ==
  ASSUME Types, PagesInv, NEW p \in Parsers, AddPush(p), parsed + 1 \in Pages
  PROVE  PagesInv'
<1>1. /\ UNCHANGED <<P, counter, file, lost>> /\ parsed' = parsed + 1
      /\ PagesToAdd' = Append(PagesToAdd, parsed + 1)
  BY DEF AddPush, bins, disk
<1>2. parsed \in Nat /\ PagesToAdd \in Seq(Pages)
  BY BoundsAssumption DEF Types
<1>3. Stored' = Stored /\ InBins' = InBins /\ StoredOnce'
  <2>1. SameStored
    BY <1>1 DEF SameStored
  <2>2. QED
    BY <1>1, <2>1, StoredSame DEF InBins, PagesInv, Apart
<1>4. parsed + 1 \notin 1 .. parsed /\ 1 .. parsed + 1 = 1 .. parsed \cup {parsed + 1}
  BY <1>2
<1>5. parsed + 1 \notin ToSet(PagesToAdd) \cup InBins \cup Stored \cup lost
  BY <1>4 DEF PagesInv, Partition
<1>6. /\ ToSet(PagesToAdd') = ToSet(PagesToAdd) \cup {parsed + 1}
      /\ \A m, n \in DOMAIN PagesToAdd' : PagesToAdd'[m] = PagesToAdd'[n] => m = n
  <2>1. \A m, n \in DOMAIN PagesToAdd : PagesToAdd[m] = PagesToAdd[n] => m = n
    BY DEF PagesInv, Apart
  <2>2. parsed + 1 \notin ToSet(PagesToAdd)
    BY <1>5
  <2>3. QED
    BY <1>1, <1>2, <2>1, <2>2, PushedApart
<1>7. Apart'
  BY <1>1, <1>3, <1>6 DEF PagesInv, Apart
<1>8. Partition'
  BY <1>1, <1>3, <1>4, <1>5, <1>6 DEF PagesInv, Partition
<1>9. QED
  BY <1>7, <1>8 DEF PagesInv

LEMMA PagesTake ==
  ASSUME Types, Owners, PagesInv, NEW b \in Bins, BinTake(b)
  PROVE  PagesInv'
<1>1. PICK u : u = Head(PagesToAdd)
  OBVIOUS
<1>2. /\ UNCHANGED <<counter, file, lost, parsed>> /\ PagesToAdd' = Tail(PagesToAdd)
      /\ PagesToAdd # <<>> /\ P' = [P EXCEPT ![b] = u] /\ bPc[b] = "empty"
  BY <1>1 DEF BinTake, disk, bounds
<1>3. PagesToAdd \in Seq(Pages) /\ P \in [Bins -> Pages \union {NoPage}]
  BY DEF Types
<1>4. /\ u \in Pages /\ ToSet(PagesToAdd) = ToSet(PagesToAdd') \cup {u}
      /\ u \notin ToSet(PagesToAdd')
      /\ \A m, n \in DOMAIN PagesToAdd' : PagesToAdd'[m] = PagesToAdd'[n] => m = n
  <2>1. \A m, n \in DOMAIN PagesToAdd : PagesToAdd[m] = PagesToAdd[n] => m = n
    BY DEF PagesInv, Apart
  <2>2. QED
    BY <1>1, <1>2, <1>3, <2>1, TakenApart
<1>5. u # NoPage /\ P[b] = NoPage /\ u \notin InBins
  <2>1. P[b] = NoPage
    BY <1>2 DEF Owners, Writing
  <2>2. u \in ToSet(PagesToAdd)
    BY <1>4
  <2>3. QED
    BY <1>4, <2>1, <2>2 DEF Pages, NoPage, PagesInv, Partition
<1>6. P'[b] = u /\ \A c \in Bins : c # b => P'[c] = P[c]
  BY <1>2, <1>3
<1>7. InBins' = InBins \cup {u}
  <2>1. ASSUME NEW v PROVE v \in InBins' <=> v \in InBins \cup {u}
    BY <1>5, <1>6 DEF InBins
  <2>2. QED
    BY <2>1
<1>8. Stored' = Stored /\ (StoredOnce => StoredOnce')
  <2>1. SameStored
    BY <1>2 DEF SameStored
  <2>2. QED
    BY <2>1, StoredSame
<1>9. \A c, d \in Bins : P'[c] = P'[d] /\ P'[c] # NoPage => c = d
  <2>1. \A c \in Bins : P[c] # u
    BY <1>5 DEF InBins
  <2>2. QED
    BY <1>6, <2>1 DEF PagesInv, Apart
<1>10. Apart'
  BY <1>4, <1>8, <1>9 DEF PagesInv, Apart
<1>11. Partition'
  BY <1>2, <1>4, <1>5, <1>7, <1>8 DEF PagesInv, Partition
<1>12. QED
  BY <1>10, <1>11 DEF PagesInv

LEMMA PagesCount ==
  ASSUME Types, FilesInv, PagesInv, NEW b \in Bins, WriteCount(b)
  PROVE  PagesInv'
<1>1. PICK u : u = P[b]
  OBVIOUS
<1>2. /\ UNCHANGED <<PagesToAdd, lost, parsed>> /\ P' = [P EXCEPT ![b] = NoPage]
  BY DEF WriteCount, queue, bounds
<1>3. u \in Pages /\ P \in [Bins -> Pages \union {NoPage}]
  BY <1>1, CountStores DEF Types
<1>4. u # NoPage /\ u \in InBins
  BY <1>1, <1>3 DEF Pages, NoPage, InBins
<1>5. P'[b] = NoPage /\ \A c \in Bins : c # b => P'[c] = P[c] /\ P[c] # u
  BY <1>1, <1>2, <1>3, <1>4 DEF PagesInv, Apart
<1>6. InBins' = InBins \ {u}
  <2>1. ASSUME NEW v PROVE v \in InBins' <=> v \in InBins \ {u}
    BY <1>1, <1>4, <1>5 DEF InBins
  <2>2. QED
    BY <2>1
<1>7. u \notin Stored /\ u \notin lost /\ u \notin ToSet(PagesToAdd)
  BY <1>4 DEF PagesInv, Partition
<1>8. Stored' = Stored \cup {u} /\ StoredOnce'
  BY <1>1, <1>7, StoredCount DEF PagesInv, Apart
<1>9. Apart'
  <2>1. \A c, d \in Bins : P'[c] = P'[d] /\ P'[c] # NoPage => c = d
    BY <1>5 DEF PagesInv, Apart
  <2>2. QED
    BY <1>2, <1>8, <2>1 DEF PagesInv, Apart
<1>10. Partition'
  BY <1>2, <1>4, <1>6, <1>7, <1>8 DEF PagesInv, Partition
<1>11. QED
  BY <1>9, <1>10 DEF PagesInv

(* What is not stored is lost.                                             *)
LEMMA PagesCrash ==
  ASSUME PagesInv, Crash
  PROVE  PagesInv'
<1>1. /\ PagesToAdd' = <<>> /\ \A b \in Bins : P'[b] = NoPage
      /\ lost' = 1 .. parsed \ Stored /\ UNCHANGED <<parsed, counter, file>>
  BY DEF Crash, disk
<1>2. ToSet(PagesToAdd') = {} /\ InBins' = {}
  BY <1>1 DEF ToSet, InBins
<1>3. Stored' = Stored /\ (StoredOnce => StoredOnce')
  <2>1. SameStored
    BY <1>1 DEF SameStored
  <2>2. QED
    BY <2>1, StoredSame
<1>4. Apart'
  BY <1>1, <1>3 DEF PagesInv, Apart
<1>5. Partition'
  BY <1>1, <1>2, <1>3 DEF PagesInv, Partition
<1>6. QED
  BY <1>4, <1>5 DEF PagesInv

-----------------------------------------------------------------------------
(* Types and counts                                                        *)

PagesCounted ==
  /\ parsed + Cardinality(At("push")) <= MaxPages
  /\ PagesCounter + Cardinality(At("count")) <= parsed

LEMMA AtFinite ==
  /\ \A l : IsFiniteSet(At(l)) /\ Cardinality(At(l)) \in Nat
  /\ \A l : IsFiniteSet(At(l)') /\ Cardinality(At(l)') \in Nat
<1>1. ASSUME NEW S, S \subseteq Parsers PROVE IsFiniteSet(S) /\ Cardinality(S) \in Nat
  BY <1>1, ParsersAssumption, FS_Subset, FS_CardinalityType
<1>2. \A l : At(l) \subseteq Parsers
  BY DEF At
<1>3. \A l : At(l)' \subseteq Parsers
  BY DEF At
<1>4. QED
  BY <1>1, <1>2, <1>3

(* A parser that goes from one place to another                            *)
LEMMA ParserMoves ==
  ASSUME pPc \in [Parsers -> ParserPcs], NEW p \in Parsers, NEW to, ParserGoto(p, to),
         pPc[p] # to, NEW l
  PROVE  /\ Cardinality(At(l)) \in Nat
         /\ l = to => Cardinality(At(l)') = Cardinality(At(l)) + 1
         /\ l = pPc[p] => Cardinality(At(l)') = Cardinality(At(l)) - 1
         /\ l # to /\ l # pPc[p] => Cardinality(At(l)') = Cardinality(At(l))
<1>1. pPc'[p] = to /\ \A q \in Parsers : q # p => pPc'[q] = pPc[q]
  BY DEF ParserGoto
<1>2. IsFiniteSet(At(l)) /\ Cardinality(At(l)) \in Nat
  BY AtFinite
<1>3. CASE l = to
  <2>1. At(l)' = At(l) \cup {p} /\ p \notin At(l)
    BY <1>1, <1>3 DEF At
  <2>2. QED
    BY <1>2, <1>3, <2>1, FS_AddElement
<1>4. CASE l = pPc[p]
  <2>1. At(l)' = At(l) \ {p} /\ p \in At(l)
    BY <1>1, <1>4 DEF At
  <2>2. QED
    BY <1>2, <1>4, <2>1, FS_RemoveElement
<1>5. CASE l # to /\ l # pPc[p]
  <2>1. At(l)' = At(l)
    BY <1>1, <1>5 DEF At
  <2>2. QED
    BY <1>2, <1>5, <2>1
<1>6. QED
  BY <1>2, <1>3, <1>4, <1>5

LEMMA RoomToPush ==
  ASSUME Types, PagesCounted, NEW p \in Parsers, AddPush(p)
  PROVE  parsed + 1 \in Pages
<1>1. p \in At("push")
  BY DEF AddPush, At
<1>2. Cardinality(At("push")) \in Nat /\ Cardinality(At("push")) # 0
  BY <1>1, AtFinite, FS_EmptySet
<1>3. QED
  BY <1>2, BoundsAssumption DEF Types, PagesCounted, Pages

LEMMA CountedParser ==
  ASSUME Types, PagesCounted, NEW p \in Parsers, Parser(p) \/ ParserWoken(p)
  PROVE  PagesCounted'
<1>1. /\ pPc \in [Parsers -> ParserPcs] /\ parsed \in Nat /\ PagesCounter \in Nat
      /\ MaxPages \in Nat
  BY BoundsAssumption DEF Types
<1>2. Cardinality(At("push")) \in Nat /\ Cardinality(At("count")) \in Nat
  BY AtFinite
<1>3. CASE ParserParses(p)
  <2>1. /\ parsed + Cardinality(At("push")) < MaxPages /\ pPc[p] = "get_url"
        /\ ParserGoto(p, "push") /\ UNCHANGED <<parsed, PagesCounter>>
    BY <1>3 DEF ParserParses, ParserFindsNone, ParserSleeps, ParserWoken, At, bounds
  <2>2. /\ Cardinality(At("push")') = Cardinality(At("push")) + 1
        /\ Cardinality(At("count")') = Cardinality(At("count"))
    BY <1>1, <2>1, ParserMoves
  <2>3. QED
    BY <1>1, <1>2, <2>1, <2>2 DEF PagesCounted
<1>4. CASE AddPush(p)
  <2>1. /\ pPc[p] = "push" /\ ParserGoto(p, "count")
        /\ parsed' = parsed + 1 /\ UNCHANGED PagesCounter
    BY <1>4 DEF AddPush
  <2>2. /\ Cardinality(At("push")') = Cardinality(At("push")) - 1
        /\ Cardinality(At("count")') = Cardinality(At("count")) + 1
    BY <1>1, <2>1, ParserMoves
  <2>3. QED
    BY <1>1, <1>2, <2>1, <2>2 DEF PagesCounted
<1>5. CASE AddCount(p)
  <2>1. /\ pPc[p] = "count" /\ ParserGoto(p, "test")
        /\ PagesCounter' = PagesCounter + 1 /\ UNCHANGED parsed
    BY <1>5 DEF AddCount, bounds
  <2>2. /\ Cardinality(At("push")') = Cardinality(At("push"))
        /\ Cardinality(At("count")') = Cardinality(At("count")) - 1
    BY <1>1, <2>1, ParserMoves
  <2>3. QED
    BY <1>1, <1>2, <2>1, <2>2 DEF PagesCounted
<1>6. CASE \/ ParserEnds(p) \/ ParserFindsNone(p) \/ ParserSleeps(p) \/ ParserWoken(p)
           \/ AddTest(p) \/ AddSpawn(p) \/ AddSignal(p)
  <2>1. PICK to \in {"ended", "sleep", "asleep", "spawn", "signal", "get_url"} :
          ParserGoto(p, to) /\ pPc[p] # to /\ pPc[p] \notin {"push", "count"}
    BY <1>6 DEF ParserEnds, ParserFindsNone, ParserSleeps, ParserWoken, AddTest, AddSpawn,
       AddSignal
  <2>2. UNCHANGED <<parsed, PagesCounter>>
    BY <1>6 DEF ParserEnds, ParserFindsNone, ParserSleeps, ParserWoken, AddTest, AddSpawn,
       AddSignal, bounds
  <2>3. /\ Cardinality(At("push")') = Cardinality(At("push"))
        /\ Cardinality(At("count")') = Cardinality(At("count"))
    BY <1>1, <2>1, ParserMoves
  <2>4. QED
    BY <2>2, <2>3 DEF PagesCounted
<1>7. QED
  BY <1>3, <1>4, <1>5, <1>6 DEF Parser

LEMMA CountedNext ==
  ASSUME Types, PagesCounted, [Next]_vars
  PROVE  PagesCounted'
<1>1. CASE \E p \in Parsers : Parser(p) \/ ParserWoken(p)
  BY <1>1, CountedParser
<1>2. CASE UNCHANGED <<pPc, PagesCounter, parsed>>
  BY <1>2 DEF PagesCounted, At
<1>3. ASSUME NEW b \in Bins, Bin(b) \/ BinSpuriousWakeup(b) PROVE UNCHANGED <<pPc, PagesCounter, parsed>>
  BY <1>3 DEF Bin, BinOpen, BinLock, BinTake, BinTestShutdown, BinWait, WriteText, WriteVec,
     WriteHeader, WriteCount, BinExit, BinSignal, BinSpuriousWakeup, parsers, bounds
<1>4. CASE InitiateShutDown \/ MainThread \/ UNCHANGED vars
  <2>1. CASE ~WakeParsers
    <3>1. UNCHANGED <<pPc, PagesCounter, parsed>>
      BY <1>4, <2>1 DEF InitiateShutDown, MainThread, SetNeedToShutdown, Broadcast,
         TestThreads, WaitThreads, JoinParsers, parsers, bounds, vars
    <3>2. QED
      BY <1>2, <3>1
  <2>2. CASE WakeParsers
    <3>1. UNCHANGED <<PagesCounter, parsed>>
      BY <2>2 DEF WakeParsers, bounds
    <3>2. At("push")' = At("push") /\ At("count")' = At("count")
      BY <2>2 DEF WakeParsers, At
    <3>3. QED
      BY <3>1, <3>2 DEF PagesCounted
  <2>3. QED
    BY <2>1, <2>2
<1>5. CASE Crash
  <2>1. PagesCounter' = 0 /\ parsed' = parsed
        /\ \A p \in Parsers : pPc'[p] \in {"none", "get_url"}
    BY <1>5 DEF Crash
  <2>2. At("push")' = {} /\ At("count")' = {}
    BY <2>1 DEF At
  <2>3. parsed \in 0 .. MaxPages
    BY DEF Types
  <2>4. QED
    BY <2>1, <2>2, <2>3, BoundsAssumption, FS_EmptySet DEF PagesCounted
<1>6. QED
  BY <1>1, <1>2, <1>3, <1>4, <1>5 DEF Next

(* The bins that a step starts or ends                                     *)
ThreadsCounted == NumThreads = Cardinality(Started)

LEMMA StartedFinite ==
  /\ IsFiniteSet(Started) /\ Cardinality(Started) \in Nat
  /\ IsFiniteSet(Started') /\ Cardinality(Started') \in Nat
<1>1. IsFiniteSet(Bins)
  BY FS_Interval, BoundsAssumption DEF Bins
<1>2. Started \subseteq Bins /\ Started' \subseteq Bins
  BY DEF Started
<1>3. QED
  BY <1>1, <1>2, FS_Subset, FS_CardinalityType

LEMMA ThreadsNext ==
  ASSUME Types, ThreadsCounted, [Next]_vars
  PROVE  ThreadsCounted'
<1>1. bPc \in [Bins -> BinPcs]
  BY DEF Types
<1>2. CASE NumThreads' = NumThreads /\ Started' = Started
  BY <1>2 DEF ThreadsCounted
<1>3. ASSUME NEW b \in Bins, NEW l, bPc' = [bPc EXCEPT ![b] = l]
      PROVE  bPc'[b] = l /\ \A c \in Bins : c # b => bPc'[c] = bPc[c]
  BY <1>1, <1>3
<1>4. ASSUME NEW p \in Parsers, Parser(p) \/ ParserWoken(p) PROVE ThreadsCounted'
  <2>1. CASE AddSpawn(p)
    <3>1. PICK b \in Bins : bPc[b] = "none" /\ bPc' = [bPc EXCEPT ![b] = "open"]
      BY <2>1 DEF AddSpawn
    <3>2. bPc'[b] = "open" /\ \A c \in Bins : c # b => bPc'[c] = bPc[c]
      BY <1>3, <3>1
    <3>3. Started' = Started \cup {b} /\ b \notin Started
      BY <3>1, <3>2 DEF Started
    <3>4. Cardinality(Started') = Cardinality(Started) + 1
      BY <3>3, StartedFinite, FS_AddElement
    <3>5. NumThreads' = NumThreads + 1
      BY <2>1 DEF AddSpawn
    <3>6. QED
      BY <3>4, <3>5 DEF ThreadsCounted
  <2>2. CASE AddSignal(p)
    <3>1. NumThreads' = NumThreads
      BY <2>2 DEF AddSignal
    <3>2. CASE UNCHANGED bPc
      BY <1>2, <3>1, <3>2 DEF Started
    <3>3. ASSUME NEW b \in Bins, bPc[b] = "waiting", bPc' = [bPc EXCEPT ![b] = "woken"]
          PROVE  Started' = Started
      BY <1>3, <3>3 DEF Started
    <3>4. QED
      BY <1>2, <2>2, <3>1, <3>2, <3>3 DEF AddSignal
  <2>3. CASE \/ ParserEnds(p) \/ ParserParses(p) \/ ParserFindsNone(p) \/ ParserSleeps(p)
             \/ ParserWoken(p) \/ AddPush(p) \/ AddCount(p) \/ AddTest(p)
    <3>1. UNCHANGED <<bPc, NumThreads>>
      BY <2>3 DEF ParserEnds, ParserParses, ParserFindsNone, ParserSleeps, ParserWoken,
         AddPush, AddCount, AddTest, bins
    <3>2. QED
      BY <1>2, <3>1 DEF Started
  <2>4. QED
    BY <1>4, <2>1, <2>2, <2>3 DEF Parser
<1>5. ASSUME NEW b \in Bins, Bin(b) \/ BinSpuriousWakeup(b) PROVE ThreadsCounted'
  <2> DEFINE Idle == {"none", "signal", "ended"}
  <2>1. CASE BinExit(b)
    <3>1. PICK l \in Idle : bPc[b] = "exit" /\ bPc' = [bPc EXCEPT ![b] = l]
      BY <2>1 DEF BinExit, BinGoto
    <3>2. Started' = Started \ {b} /\ b \in Started
      BY <1>3, <3>1 DEF Started
    <3>3. Cardinality(Started') = Cardinality(Started) - 1
      BY <3>2, StartedFinite, FS_RemoveElement
    <3>4. NumThreads' = NumThreads - 1
      BY <2>1 DEF BinExit
    <3>5. QED
      BY <3>3, <3>4 DEF ThreadsCounted
  <2>2. CASE \/ BinOpen(b) \/ BinLock(b) \/ BinTake(b) \/ BinTestShutdown(b) \/ BinWait(b)
             \/ WriteText(b) \/ WriteVec(b) \/ WriteHeader(b) \/ WriteCount(b)
             \/ BinSpuriousWakeup(b)
    <3>1. /\ bPc[b] \notin Idle /\ UNCHANGED NumThreads
          /\ \E l : l \notin Idle /\ bPc' = [bPc EXCEPT ![b] = l]
      BY <2>2 DEF BinOpen, BinLock, BinTake, BinTestShutdown, BinWait, WriteText, WriteVec,
         WriteHeader, WriteCount, BinSpuriousWakeup, BinGoto
    <3>2. QED
      BY <1>2, <1>3, <3>1 DEF Started
  <2>3. CASE BinSignal(b)
    <3>1. bPc[b] = "signal" /\ bPc' = [bPc EXCEPT ![b] = "ended"] /\ UNCHANGED NumThreads
      BY <2>3 DEF BinSignal, BinGoto
    <3>2. QED
      BY <1>2, <1>3, <3>1 DEF Started
  <2>4. QED
    BY <1>5, <2>1, <2>2, <2>3 DEF Bin
<1>6. CASE InitiateShutDown \/ MainThread \/ UNCHANGED vars
  <2>1. /\ UNCHANGED NumThreads
        /\ \/ UNCHANGED bPc
           \/ bPc' = [b \in Bins |-> IF bPc[b] = "waiting" THEN "woken" ELSE bPc[b]]
    BY <1>6 DEF InitiateShutDown, MainThread, WakeParsers, SetNeedToShutdown, Broadcast,
       TestThreads, WaitThreads, JoinParsers, bins, vars
  <2>2. QED
    BY <1>2, <2>1 DEF Started
<1>7. CASE Crash
  <2>1. NumThreads' = 0 /\ Started' = {}
    BY <1>7 DEF Crash, Started
  <2>2. QED
    BY <2>1, FS_EmptySet DEF ThreadsCounted
<1>8. QED
  BY <1>4, <1>5, <1>6, <1>7 DEF Next

LEMMA CountsAre == Counts <=> PagesCounted /\ ThreadsCounted
BY DEF Counts, PagesCounted, ThreadsCounted

-----------------------------------------------------------------------------
(* Who holds the mutex                                                     *)

LEMMA MutexNext ==
  ASSUME Types, Mutex, [Next]_vars
  PROVE  Mutex'
<1>1. bPc \in [Bins -> BinPcs] /\ NoBin \notin Bins
  BY DEF Types, NoBin, Bins
<1>2. CASE /\ UNCHANGED QueueMtx
           /\ \A b \in Bins : bPc'[b] \in Holding <=> bPc[b] \in Holding
  BY <1>2 DEF Mutex
<1>3. ASSUME NEW b \in Bins, Bin(b) \/ BinSpuriousWakeup(b) PROVE Mutex'
  <2>1. CASE BinLock(b)
    <3>1. /\ QueueMtx = NoBin /\ QueueMtx' = b /\ bPc'[b] \in Holding
          /\ \A c \in Bins : c # b => bPc'[c] = bPc[c]
      BY <1>1, <2>1 DEF BinLock, BinGoto, Holding
    <3>2. QED
      BY <1>1, <3>1 DEF Mutex
  <2>2. CASE /\ bPc[b] \in Holding /\ QueueMtx' = NoBin
             /\ \E l : l \notin Holding /\ bPc' = [bPc EXCEPT ![b] = l]
    <3>1. QueueMtx = b
      BY <2>2 DEF Mutex
    <3>2. bPc'[b] \notin Holding /\ \A c \in Bins : c # b => bPc'[c] = bPc[c]
      BY <1>1, <2>2
    <3>3. QED
      BY <1>1, <2>2, <3>1, <3>2 DEF Mutex
  <2>3. CASE BinTake(b) \/ BinWait(b)
    BY <2>2, <2>3 DEF BinTake, BinWait, BinGoto, Holding
  <2>4. CASE BinTestShutdown(b)
    <3>1. \/ /\ bPc[b] \in Holding /\ QueueMtx' = NoBin
             /\ \E l : l \notin Holding /\ bPc' = [bPc EXCEPT ![b] = l]
          \/ UNCHANGED QueueMtx /\ bPc[b] = "empty" /\ bPc' = [bPc EXCEPT ![b] = "wait"]
      BY <2>4 DEF BinTestShutdown, BinGoto, Holding
    <3>2. QED
      BY <1>1, <1>2, <2>2, <3>1 DEF Holding
  <2>5. CASE \/ BinOpen(b) \/ WriteText(b) \/ WriteVec(b) \/ WriteHeader(b) \/ WriteCount(b)
             \/ BinExit(b) \/ BinSignal(b) \/ BinSpuriousWakeup(b)
    <3>1. /\ bPc[b] \notin Holding /\ UNCHANGED QueueMtx
          /\ \E l : l \notin Holding /\ bPc' = [bPc EXCEPT ![b] = l]
      BY <2>5 DEF BinOpen, WriteText, WriteVec, WriteHeader, WriteCount, BinExit, BinSignal,
         BinSpuriousWakeup, BinGoto, Holding, queue
    <3>2. QED
      BY <1>1, <1>2, <3>1
  <2>6. QED
    BY <1>3, <2>1, <2>3, <2>4, <2>5 DEF Bin
<1>4. CASE \E p \in Parsers : Parser(p) \/ ParserWoken(p)
  <2>1. UNCHANGED QueueMtx
    BY <1>4 DEF Parser, ParserEnds, ParserParses, ParserFindsNone, ParserSleeps, ParserWoken,
       AddPush, AddCount, AddTest, AddSpawn, AddSignal, queue
  <2>2. \/ UNCHANGED bPc
        \/ \E b \in Bins : bPc[b] = "none" /\ bPc' = [bPc EXCEPT ![b] = "open"]
        \/ \E b \in Bins : bPc[b] = "waiting" /\ bPc' = [bPc EXCEPT ![b] = "woken"]
    BY <1>4 DEF Parser, ParserEnds, ParserParses, ParserFindsNone, ParserSleeps, ParserWoken,
       AddPush, AddCount, AddTest, AddSpawn, AddSignal, bins
  <2>3. QED
    BY <1>1, <1>2, <2>1, <2>2 DEF Holding
<1>5. CASE InitiateShutDown \/ MainThread \/ UNCHANGED vars
  <2>1. /\ UNCHANGED QueueMtx
        /\ \/ UNCHANGED bPc
           \/ bPc' = [b \in Bins |-> IF bPc[b] = "waiting" THEN "woken" ELSE bPc[b]]
    BY <1>5 DEF InitiateShutDown, MainThread, WakeParsers, SetNeedToShutdown, Broadcast,
       TestThreads, WaitThreads, JoinParsers, bins, queue, vars
  <2>2. QED
    BY <1>2, <2>1 DEF Holding
<1>6. CASE Crash
  BY <1>1, <1>6 DEF Crash, Mutex, Holding
<1>7. QED
  BY <1>3, <1>4, <1>5, <1>6 DEF Next

-----------------------------------------------------------------------------
(* Types                                                                   *)

LEMMA TypesParser ==
  ASSUME Types, PagesCounted, NEW p \in Parsers, Parser(p) \/ ParserWoken(p)
  PROVE  Types'
<1>1. ASSUME NEW l \in ParserPcs, ParserGoto(p, l) PROVE pPc' \in [Parsers -> ParserPcs]
  BY <1>1 DEF ParserGoto, Types
<1>2. CASE \/ ParserEnds(p) \/ ParserParses(p) \/ ParserFindsNone(p) \/ ParserSleeps(p)
           \/ ParserWoken(p) \/ AddTest(p)
  <2>1. pPc' \in [Parsers -> ParserPcs]
    <3>1. PICK l \in {"ended", "push", "sleep", "asleep", "get_url", "spawn", "signal"} :
            ParserGoto(p, l)
      BY <1>2 DEF ParserEnds, ParserParses, ParserFindsNone, ParserSleeps, ParserWoken, AddTest
    <3>2. QED
      BY <1>1, <3>1 DEF ParserPcs
  <2>2. UNCHANGED <<queue, PagesCounter, bins, NumThreads, flags, mPc, disk, bounds>>
    BY <1>2 DEF ParserEnds, ParserParses, ParserFindsNone, ParserSleeps, ParserWoken, AddTest
  <2>3. QED
    BY <2>1, <2>2 DEF Types, queue, bins, flags, disk, bounds
<1>3. CASE AddPush(p)
  <2>1. parsed + 1 \in Pages
    BY <1>3, RoomToPush
  <2>2. PagesToAdd' \in Seq(Pages) /\ parsed' \in 0 .. MaxPages
    BY <1>3, <2>1 DEF AddPush, Types, Pages
  <2>3. pPc' \in [Parsers -> ParserPcs]
    BY <1>1, <1>3 DEF AddPush, ParserPcs
  <2>4. UNCHANGED <<QueueMtx, PagesCounter, bins, NumThreads, flags, mPc, disk>>
    BY <1>3 DEF AddPush
  <2>5. QED
    BY <2>2, <2>3, <2>4 DEF Types, bins, flags, disk
<1>4. CASE AddCount(p)
  <2>1. PagesCounter' \in Nat
    BY <1>4 DEF AddCount, Types
  <2>2. pPc' \in [Parsers -> ParserPcs]
    BY <1>1, <1>4 DEF AddCount, ParserPcs
  <2>3. UNCHANGED <<queue, bins, NumThreads, flags, mPc, disk, bounds>>
    BY <1>4 DEF AddCount
  <2>4. QED
    BY <2>1, <2>2, <2>3 DEF Types, queue, bins, flags, disk, bounds
<1>5. CASE AddSpawn(p) \/ AddSignal(p)
  <2>1. bPc' \in [Bins -> BinPcs]
    <3>1. \/ UNCHANGED bPc
          \/ \E b \in Bins, l \in {"open", "woken"} : bPc' = [bPc EXCEPT ![b] = l]
      BY <1>5 DEF AddSpawn, AddSignal
    <3>2. bPc \in [Bins -> BinPcs] /\ {"open", "woken"} \subseteq BinPcs
      BY DEF Types, BinPcs
    <3>3. QED
      BY <3>1, <3>2
  <2>2. NumThreads' \in Int
    BY <1>5 DEF AddSpawn, AddSignal, Types
  <2>3. pPc' \in [Parsers -> ParserPcs]
    <3>1. PICK l \in {"signal", "get_url"} : ParserGoto(p, l)
      BY <1>5 DEF AddSpawn, AddSignal
    <3>2. QED
      BY <1>1, <3>1 DEF ParserPcs
  <2>4. UNCHANGED <<queue, PagesCounter, P, Index, i, flags, mPc, disk, bounds>>
    BY <1>5 DEF AddSpawn, AddSignal
  <2>5. QED
    BY <2>1, <2>2, <2>3, <2>4 DEF Types, queue, flags, disk, bounds
<1>6. QED
  BY <1>2, <1>3, <1>4, <1>5 DEF Parser

LEMMA TypesBin ==
  ASSUME Types, FilesInv, NEW b \in Bins, Bin(b) \/ BinSpuriousWakeup(b)
  PROVE  Types'
<1>1. ASSUME NEW l \in BinPcs, BinGoto(b, l) PROVE bPc' \in [Bins -> BinPcs]
  BY <1>1 DEF BinGoto, Types
<1>2. CASE BinOpen(b)
  <2>1. /\ counter' = counter + 1 /\ counter' \in 0 .. MaxBins
        /\ file' \in [1 .. counter + 1 -> File] /\ Index' = [Index EXCEPT ![b] = counter + 1]
    BY <1>2, OpenDone
  <2>2. Index' \in [Bins -> Nat]
    BY <2>1, BoundsAssumption DEF Types
  <2>3. file' \in [1 .. counter' -> File]
    BY <2>1
  <2>4. bPc' \in [Bins -> BinPcs]
    BY <1>1, <1>2 DEF BinOpen, BinPcs
  <2>5. UNCHANGED <<queue, parsers, P, i, NumThreads, flags, mPc, bounds>>
    BY <1>2 DEF BinOpen
  <2>6. QED
    BY <2>1, <2>2, <2>3, <2>4, <2>5 DEF Types, queue, parsers, flags, bounds
<1>3. CASE BinLock(b) \/ BinTestShutdown(b) \/ BinWait(b)
  <2>1. QueueMtx' \in Bins \union {NoBin}
    BY <1>3 DEF BinLock, BinTestShutdown, BinWait, Types
  <2>2. PICK l \in {"empty", "exit", "wait", "waiting"} : BinGoto(b, l)
    BY <1>3 DEF BinLock, BinTestShutdown, BinWait
  <2>3. bPc' \in [Bins -> BinPcs]
    BY <1>1, <2>2 DEF BinPcs, Holding
  <2>4. UNCHANGED <<PagesToAdd, parsers, P, Index, i, NumThreads, flags, mPc, disk, bounds>>
    BY <1>3 DEF BinLock, BinTestShutdown, BinWait
  <2>5. QED
    BY <2>1, <2>3, <2>4 DEF Types, parsers, flags, disk, bounds
<1>4. CASE BinTake(b)
  <2>1. PagesToAdd' \in Seq(Pages) /\ Head(PagesToAdd) \in Pages
    BY <1>4 DEF BinTake, Types
  <2>2. P' \in [Bins -> Pages \union {NoPage}]
    BY <1>4, <2>1 DEF BinTake, Types
  <2>3. bPc' \in [Bins -> BinPcs]
    BY <1>1, <1>4 DEF BinTake, BinPcs, Writing
  <2>4. QueueMtx' \in Bins \union {NoBin}
    BY <1>4 DEF BinTake
  <2>5. UNCHANGED <<parsers, Index, i, NumThreads, flags, mPc, disk, bounds>>
    BY <1>4 DEF BinTake
  <2>6. QED
    BY <2>1, <2>2, <2>3, <2>4, <2>5 DEF Types, parsers, flags, disk, bounds
<1>5. CASE WriteText(b) \/ WriteVec(b) \/ WriteHeader(b)
  <2>1. PICK f : f = Index[b]
    OBVIOUS
  <2>2. PICK l \in Writing : WriteDone(b, f, l)
    BY <1>5, <2>1, TextDone, VecDone, HeaderDone DEF FilesInv, Writing
  <2>3. bPc' \in [Bins -> BinPcs] /\ file' \in [1 .. counter' -> File]
    BY <1>1, <2>2 DEF WriteDone, BinGoto, BinPcs
  <2>4. UNCHANGED <<queue, parsers, P, Index, i, NumThreads, flags, mPc, counter, bounds>>
    BY <1>5 DEF WriteText, WriteVec, WriteHeader
  <2>5. QED
    BY <2>3, <2>4 DEF Types, queue, parsers, flags, bounds
<1>6. CASE WriteCount(b)
  <2>1. PICK f : f = Index[b]
    OBVIOUS
  <2>2. PICK l \in {"loop", "exit"} : WriteDone(b, f, l)
    BY <1>6, <2>1, CountDone DEF FilesInv
  <2>3. bPc' \in [Bins -> BinPcs] /\ file' \in [1 .. counter' -> File]
    BY <1>1, <2>2 DEF WriteDone, BinGoto, BinPcs
  <2>4. P' = [P EXCEPT ![b] = NoPage] /\ i' = [i EXCEPT ![b] = i[b] + 1]
    BY <1>6 DEF WriteCount
  <2>5. P' \in [Bins -> Pages \union {NoPage}] /\ i' \in [Bins -> Nat]
    BY <2>4 DEF Types
  <2>6. UNCHANGED <<queue, parsers, Index, NumThreads, flags, mPc, counter, bounds>>
    BY <1>6 DEF WriteCount
  <2>7. QED
    BY <2>3, <2>5, <2>6 DEF Types, queue, parsers, flags, bounds
<1>7. CASE BinExit(b) \/ BinSignal(b) \/ BinSpuriousWakeup(b)
  <2>1. PICK l \in {"signal", "ended", "woken"} : BinGoto(b, l)
    BY <1>7 DEF BinExit, BinSignal, BinSpuriousWakeup
  <2>2. bPc' \in [Bins -> BinPcs]
    BY <1>1, <2>1 DEF BinPcs
  <2>3. NumThreads' \in Int /\ mPc' \in MainPcs
    BY <1>7 DEF BinExit, BinSignal, BinSpuriousWakeup, Types, MainPcs
  <2>4. UNCHANGED <<queue, parsers, P, Index, i, flags, disk, parsed>>
    BY <1>7 DEF BinExit, BinSignal, BinSpuriousWakeup, bounds
  <2>5. QED
    BY <2>2, <2>3, <2>4 DEF Types, queue, parsers, flags, disk
<1>8. QED
  BY <1>2, <1>3, <1>4, <1>5, <1>6, <1>7 DEF Bin

LEMMA TypesMain ==
  ASSUME Types, InitiateShutDown \/ MainThread
  PROVE  Types'
<1>1. mPc' \in MainPcs
  BY DEF InitiateShutDown, MainThread, WakeParsers, SetNeedToShutdown, Broadcast, TestThreads,
     WaitThreads, JoinParsers, MainGoto, MainPcs
<1>2. need_to_shutdown' \in BOOLEAN /\ shutting_down' \in BOOLEAN
  BY DEF InitiateShutDown, MainThread, WakeParsers, SetNeedToShutdown, Broadcast, TestThreads,
     WaitThreads, JoinParsers, flags, Types
<1>3. bPc' \in [Bins -> BinPcs]
  <2>1. \/ UNCHANGED bPc
        \/ bPc' = [b \in Bins |-> IF bPc[b] = "waiting" THEN "woken" ELSE bPc[b]]
    BY DEF InitiateShutDown, MainThread, WakeParsers, SetNeedToShutdown, Broadcast, TestThreads,
       WaitThreads, JoinParsers, bins
  <2>2. bPc \in [Bins -> BinPcs] /\ "woken" \in BinPcs
    BY DEF Types, BinPcs
  <2>3. QED
    BY <2>1, <2>2
<1>4. UNCHANGED <<queue, PagesCounter, P, Index, i, NumThreads, disk, bounds>>
  BY DEF InitiateShutDown, MainThread, WakeParsers, SetNeedToShutdown, Broadcast, TestThreads,
     WaitThreads, JoinParsers, parsers, bins
<1>5. pPc' \in [Parsers -> ParserPcs]
  <2>1. CASE UNCHANGED pPc
    BY <2>1 DEF Types
  <2>2. CASE WakeParsers
    BY <2>2 DEF WakeParsers, Types, ParserPcs
  <2>3. QED
    BY <2>1, <2>2 DEF InitiateShutDown, MainThread, SetNeedToShutdown, Broadcast, TestThreads,
       WaitThreads, JoinParsers, parsers
<1>6. QED
  BY <1>1, <1>2, <1>3, <1>4, <1>5 DEF Types, queue, disk, bounds

LEMMA TypesNext ==
  ASSUME Types, FilesInv, PagesCounted, [Next]_vars
  PROVE  Types'
<1>1. CASE Crash
  <2>1. /\ PagesToAdd' = <<>> /\ QueueMtx' = NoBin
        /\ PagesCounter' = 0 /\ NumThreads' = 0
        /\ need_to_shutdown' = FALSE /\ shutting_down' = FALSE /\ mPc' = "running"
        /\ UNCHANGED <<disk, parsed>>
    BY <1>1 DEF Crash
  <2>2. /\ pPc' \in [Parsers -> ParserPcs] /\ bPc' \in [Bins -> BinPcs]
        /\ P' \in [Bins -> Pages \union {NoPage}]
        /\ Index' \in [Bins -> Nat] /\ i' \in [Bins -> Nat]
    BY <1>1 DEF Crash, ParserPcs, BinPcs
  <2>3. PagesToAdd' \in Seq(Pages) /\ QueueMtx' \in Bins \union {NoBin}
    BY <2>1
  <2>4. PagesCounter' \in Nat /\ NumThreads' \in Int /\ mPc' \in MainPcs
    BY <2>1 DEF MainPcs
  <2>5. need_to_shutdown' \in BOOLEAN /\ shutting_down' \in BOOLEAN
    BY <2>1
  <2>6. UNCHANGED <<counter, file, parsed>>
    BY <2>1 DEF disk
  <2>7. QED
    BY <2>2, <2>3, <2>4, <2>5, <2>6 DEF Types
<1>2. CASE UNCHANGED vars
  <2>1. /\ UNCHANGED <<PagesToAdd, QueueMtx, PagesCounter, NumThreads, need_to_shutdown>>
        /\ UNCHANGED <<shutting_down, pPc, bPc, P, Index, i, mPc, counter, file, parsed>>
    BY <1>2 DEF vars, queue, parsers, bins, flags, disk, bounds
  <2>2. QED
    BY <2>1 DEF Types
<1>3. QED
  BY <1>1, <1>2, TypesParser, TypesBin, TypesMain DEF Next

LEMMA InitTypes == Init => Types /\ Mutex /\ Counts
<1> SUFFICES ASSUME Init PROVE Types /\ Mutex /\ Counts
  OBVIOUS
<1>1. /\ PagesToAdd = <<>> /\ QueueMtx = NoBin
      /\ PagesCounter = 0 /\ NumThreads = 0
      /\ need_to_shutdown = FALSE /\ shutting_down = FALSE /\ mPc = "running"
      /\ counter = 0 /\ file = <<>> /\ parsed = 0
  BY DEF Init, MemoryInit
<1>2. /\ pPc \in [Parsers -> ParserPcs] /\ bPc \in [Bins -> BinPcs]
      /\ P \in [Bins -> Pages \union {NoPage}]
      /\ Index \in [Bins -> Nat] /\ i \in [Bins -> Nat]
  BY DEF Init, MemoryInit, ParserPcs, BinPcs
<1>3. counter \in 0 .. MaxBins /\ parsed \in 0 .. MaxPages
  BY <1>1, BoundsAssumption
<1>4. file \in [1 .. counter -> File]
  BY <1>1
<1>5. Types
  <2>1. PagesToAdd \in Seq(Pages) /\ QueueMtx \in Bins \union {NoBin}
    BY <1>1
  <2>2. PagesCounter \in Nat /\ NumThreads \in Int /\ mPc \in MainPcs
    BY <1>1 DEF MainPcs
  <2>3. need_to_shutdown \in BOOLEAN /\ shutting_down \in BOOLEAN
    BY <1>1
  <2>4. QED
    BY <1>2, <1>3, <1>4, <2>1, <2>2, <2>3 DEF Types
<1>6. Mutex
  BY <1>1 DEF Init, MemoryInit, Mutex, Holding, NoBin, Bins
<1>7. At("push") = {} /\ At("count") = {} /\ Started = {}
  BY DEF Init, MemoryInit, At, Started
<1>8. Counts
  BY <1>1, <1>7, BoundsAssumption, FS_EmptySet DEF Counts
<1>9. QED
  BY <1>5, <1>6, <1>8

-----------------------------------------------------------------------------
(* The invariant                                                           *)

LEMMA PagesNext ==
  ASSUME Types, FilesInv, PagesInv, PagesCounted, [Next]_vars
  PROVE  PagesInv'
<1>1. CASE UNCHANGED <<PagesToAdd, P, lost, parsed, counter, file>>
  <2>1. SameStored
    BY <1>1 DEF SameStored
  <2>2. QED
    BY <1>1, <2>1, StoredSame, PagesSame
<1>2. ASSUME NEW b \in Bins, Bin(b) \/ BinSpuriousWakeup(b) PROVE PagesInv'
  <2>1. CASE BinElsewhere(b)
    <3>1. UNCHANGED <<P, counter, file>>
      BY <2>1, BinLeavesFiles DEF SameFiles
    <3>2. UNCHANGED <<PagesToAdd, lost, parsed>>
      BY <2>1 DEF BinElsewhere, BinLock, BinTestShutdown, BinWait, BinSpuriousWakeup, BinExit,
         BinSignal, queue, bounds
    <3>3. QED
      BY <1>1, <3>1, <3>2
  <2>2. CASE BinOpen(b)
    <3>1. UNCHANGED <<PagesToAdd, P, lost, parsed>>
      BY <2>2 DEF BinOpen, queue, bounds
    <3>2. QED
      BY <2>2, <3>1, StoredOpen, PagesSame
  <2>3. CASE WriteText(b) \/ WriteVec(b) \/ WriteHeader(b)
    <3>1. UNCHANGED <<PagesToAdd, P, lost, parsed>>
      BY <2>3 DEF WriteText, WriteVec, WriteHeader, queue, bounds
    <3>2. SameStored
      BY <2>3, WritesBefore
    <3>3. QED
      BY <3>1, <3>2, StoredSame, PagesSame
  <2>4. CASE BinTake(b) \/ WriteCount(b)
    BY <2>4, PagesTake, PagesCount DEF FilesInv
  <2>5. QED
    BY <1>2, <2>1, <2>2, <2>3, <2>4 DEF Bin, BinElsewhere
<1>3. ASSUME NEW p \in Parsers, Parser(p) \/ ParserWoken(p) PROVE PagesInv'
  <2>1. CASE AddPush(p)
    BY <2>1, PagesPush, RoomToPush
  <2>2. CASE ~AddPush(p)
    <3>1. UNCHANGED <<PagesToAdd, P, lost, parsed, counter, file>>
      BY <1>3, <2>2 DEF Parser, ParserEnds, ParserParses, ParserFindsNone, ParserSleeps,
         ParserWoken, AddCount, AddTest, AddSpawn, AddSignal, queue, bins, disk, bounds
    <3>2. QED
      BY <1>1, <3>1
  <2>3. QED
    BY <2>1, <2>2
<1>4. CASE InitiateShutDown \/ MainThread \/ UNCHANGED vars
  <2>1. UNCHANGED <<PagesToAdd, P, lost, parsed, counter, file>>
    BY <1>4 DEF InitiateShutDown, MainThread, WakeParsers, SetNeedToShutdown, Broadcast,
       TestThreads, WaitThreads, JoinParsers, queue, bins, disk, bounds, vars
  <2>2. QED
    BY <1>1, <2>1
<1>5. QED
  BY <1>2, <1>3, <1>4, PagesCrash DEF Next

LEMMA Invariance == Spec => []IInv
<1>1. Init => IInv
  BY InitTypes, InitFiles, InitPages DEF IInv
<1>2. IInv /\ [Next]_vars => IInv'
  <2> SUFFICES ASSUME IInv, [Next]_vars PROVE IInv'
    OBVIOUS
  <2>1. Types /\ Mutex /\ FilesInv /\ PagesInv /\ PagesCounted /\ ThreadsCounted
    BY CountsAre DEF IInv
  <2>2. Types' /\ Mutex'
    BY <2>1, TypesNext, MutexNext
  <2>3. FilesInv' /\ PagesInv'
    BY <2>1, FilesNext, PagesNext
  <2>4. PagesCounted' /\ ThreadsCounted'
    BY <2>1, CountedNext, ThreadsNext
  <2>5. Counts'
    BY <2>4 DEF Counts, PagesCounted, ThreadsCounted
  <2>6. QED
    BY <2>2, <2>3, <2>5 DEF IInv
<1>3. QED
  BY <1>1, <1>2, PTL DEF Spec

-----------------------------------------------------------------------------
(* What it says                                                            *)

LEMMA TypesSay ==
  ASSUME IInv
  PROVE  TypeOK
<1>1. Types /\ Mutex /\ Owners /\ PagesCounted /\ ThreadsCounted
  BY CountsAre DEF IInv, FilesInv
<1>2. MaxPages \in Nat /\ MaxBins \in Nat /\ counter \in Nat /\ parsed \in Nat
      /\ parsed <= MaxPages
  BY <1>1, BoundsAssumption DEF Types
<1>3. PagesCounter \in 0 .. MaxPages
  <2>1. PagesCounter \in Nat /\ Cardinality(At("count")) \in Nat
    BY <1>1, AtFinite DEF Types
  <2>2. QED
    BY <1>1, <1>2, <2>1 DEF PagesCounted
<1>4. \A b \in Bins : i[b] \in 0 .. numPages /\ Index[b] \in 0 .. counter
  <2> TAKE b \in Bins
  <2>1. i[b] \in Nat /\ Index[b] \in Nat /\ numPages \in Nat
    BY <1>1, NumPagesAssumption DEF Types
  <2>2. CASE ~Opened(b)
    BY <1>1, <1>2, <2>1, <2>2 DEF Owners
  <2>3. CASE Opened(b)
    <3>1. PICK f \in 1 .. counter : f = Index[b]
      BY <1>1, <2>3 DEF Owners
    <3>2. FileOf(b, file[f]) /\ CompleteFile(f)
      BY <2>3, <3>1 DEF IInv, FilesInv, Progress, Complete
    <3>3. file[f] \in File
      BY <1>1 DEF Types
    <3>4. /\ Len(file[f].headers) \in Nat /\ i[b] <= Len(file[f].headers)
          /\ Len(file[f].headers) <= numPages
      <4>1. file[f].headers \in Seq(Header)
        BY <3>3 DEF File
      <4>2. Len(file[f].headers) \in Nat
        BY <4>1
      <4>3. QED
        BY <3>2, <4>2 DEF FileOf, CompleteFile
    <3>5. QED
      BY <1>2, <2>1, <3>1, <3>4
  <2>4. QED
    BY <2>2, <2>3
<1>5. Len(file) = counter
  BY <1>1, <1>2 DEF Types
<1>6. i \in [Bins -> 0 .. numPages] /\ Index \in [Bins -> 0 .. counter]
  <2>1. i \in [Bins -> Nat] /\ Index \in [Bins -> Nat]
    BY <1>1 DEF Types
  <2>2. QED
    BY <1>4, <2>1
<1>7. /\ \A b \in Bins : bPc[b] \in Holding <=> QueueMtx = b
      /\ \A b \in Bins : P[b] # NoPage <=> bPc[b] \in Writing
      /\ NumThreads = Cardinality({b \in Bins : bPc[b] \notin {"none", "signal", "ended"}})
  BY <1>1 DEF Mutex, Owners, ThreadsCounted, Started
<1>8. QED
  BY <1>1, <1>3, <1>5, <1>6, <1>7 DEF Types, TypeOK

(* A set with at most one element                                          *)
LEMMA CountsOne ==
  ASSUME NEW S, \A x, y \in S : x = y
  PROVE  Cardinality(S) = IF S = {} THEN 0 ELSE 1
<1>1. CASE S = {}
  BY <1>1, FS_EmptySet
<1>2. CASE S # {}
  <2>1. PICK x : S = {x}
    BY <1>2
  <2>2. QED
    BY <1>2, <2>1, FS_Singleton
<1>3. QED
  BY <1>1, <1>2

LEMMA OnePlace ==
  ASSUME Types, PagesInv
  PROVE  OneCopy
<1> SUFFICES ASSUME NEW u \in 1 .. parsed
             PROVE  Copies(u) = IF u \in lost THEN 0 ELSE 1
  BY DEF OneCopy
<1> DEFINE Q == {n \in DOMAIN PagesToAdd : PagesToAdd[n] = u}
           B == {b \in Bins : P[b] = u}
           C == UNION {{<<f, h>> : h \in {k \in 1 .. file[f].count :
                                            file[f].headers[k].url = u}} :
                       f \in 1 .. counter}
<1>1. u # NoPage
  BY DEF NoPage
<1>2. Cardinality(Q) = IF u \in ToSet(PagesToAdd) THEN 1 ELSE 0
  <2>1. \A m, n \in Q : m = n
    BY DEF PagesInv, Apart
  <2>2. Q # {} <=> u \in ToSet(PagesToAdd)
    BY DEF ToSet
  <2> HIDE DEF Q
  <2>3. QED
    BY <2>1, <2>2, CountsOne
<1>3. Cardinality(B) = IF u \in InBins THEN 1 ELSE 0
  <2>1. \A b, c \in B : b = c
    BY <1>1 DEF PagesInv, Apart
  <2>2. B # {} <=> u \in InBins
    BY <1>1 DEF InBins
  <2> HIDE DEF B
  <2>3. QED
    BY <2>1, <2>2, CountsOne
<1>4. Cardinality(C) = IF u \in Stored THEN 1 ELSE 0
  <2>1. \A x : x \in C <=> \E f \in 1 .. counter : \E h \in 1 .. file[f].count :
                             x = <<f, h>> /\ file[f].headers[h].url = u
    OBVIOUS
  <2> HIDE DEF C
  <2>2. ASSUME NEW x \in C, NEW y \in C PROVE x = y
    <3>1. PICK f \in 1 .. counter : \E h \in 1 .. file[f].count :
            x = <<f, h>> /\ file[f].headers[h].url = u
      BY <2>1
    <3>2. PICK h \in 1 .. file[f].count : x = <<f, h>> /\ file[f].headers[h].url = u
      BY <3>1
    <3>3. PICK g \in 1 .. counter : \E k \in 1 .. file[g].count :
            y = <<g, k>> /\ file[g].headers[k].url = u
      BY <2>1
    <3>4. PICK k \in 1 .. file[g].count : y = <<g, k>> /\ file[g].headers[k].url = u
      BY <3>3
    <3>5. f = g /\ h = k
      BY <3>2, <3>4 DEF PagesInv, Apart, StoredOnce
    <3>6. QED
      BY <3>2, <3>4, <3>5
  <2>3. C # {} => u \in Stored
    <3>1. (\E x : x \in C) => u \in Stored
      BY <2>1, StoredAre
    <3>2. QED
      BY <3>1
  <2>4. ASSUME u \in Stored PROVE C # {}
    <3>1. PICK f \in 1 .. counter : \E h \in 1 .. file[f].count : u = file[f].headers[h].url
      BY <2>4, StoredAre
    <3>2. PICK h \in 1 .. file[f].count : u = file[f].headers[h].url
      BY <3>1
    <3>3. <<f, h>> \in C
      BY <2>1, <3>2
    <3>4. QED
      BY <3>3
  <2>5. QED
    BY <2>2, <2>3, <2>4, CountsOne
<1>5. Copies(u) = Cardinality(Q) + Cardinality(B) + Cardinality(C)
  BY DEF Copies
<1> HIDE DEF Q, B, C
<1>6. u \in ToSet(PagesToAdd) \cup InBins \cup Stored \cup lost
  BY DEF PagesInv, Partition
<1>7. /\ u \in ToSet(PagesToAdd) => u \notin InBins /\ u \notin Stored /\ u \notin lost
      /\ u \in InBins => u \notin Stored /\ u \notin lost
      /\ u \in Stored => u \notin lost
  BY DEF PagesInv, Partition
<1>8. QED
  BY <1>2, <1>3, <1>4, <1>5, <1>6, <1>7

(* The program counters say what they should of the rest of the state.     *)
THEOREM TypesHold == Spec => []TypeOK
<1>1. IInv => TypeOK
  BY TypesSay
<1>2. QED
  BY <1>1, Invariance, PTL

(* addPage counts a page only when its text, its descriptors and its       *)
(* header are written, so a reader of the file never sees a page without   *)
(* them, whenever the process dies.                                        *)
THEOREM CountedIsComplete == Spec => []CountIsCrashSafe
<1>1. IInv => CountIsCrashSafe
  <2> SUFFICES ASSUME IInv, NEW f \in 1 .. counter
               PROVE  /\ file[f].count <= Len(file[f].headers)
                      /\ \A h \in 1 .. file[f].count :
                           LET hdr == file[f].headers[h] IN
                             /\ hdr.text <= Len(file[f].text) /\ file[f].text[hdr.text] = hdr.url
                             /\ hdr.vec <= Len(file[f].vec) /\ file[f].vec[hdr.vec] = hdr.url
    BY DEF CountIsCrashSafe
  <2>1. CompleteFile(f) /\ file[f] \in File
    BY DEF IInv, FilesInv, Complete, Types
  <2>2. file[f].count \in Nat /\ Len(file[f].headers) \in Nat
        /\ Len(file[f].text) \in Nat /\ Len(file[f].vec) \in Nat
    BY <2>1 DEF File
  <2>3. file[f].count <= Len(file[f].headers)
    BY <2>1 DEF CompleteFile
  <2>4. ASSUME NEW h \in 1 .. file[f].count, NEW hdr, hdr = file[f].headers[h]
        PROVE  /\ hdr.text <= Len(file[f].text) /\ file[f].text[hdr.text] = hdr.url
               /\ hdr.vec <= Len(file[f].vec) /\ file[f].vec[hdr.vec] = hdr.url
    <3>1. h \in 1 .. Len(file[f].headers)
      BY <2>2, <2>3
    <3>2. Names(f, h)
      BY <2>1, <3>1 DEF CompleteFile
    <3>3. /\ hdr.text \in 1 .. Len(file[f].text) /\ file[f].text[hdr.text] = hdr.url
          /\ hdr.vec \in 1 .. Len(file[f].vec) /\ file[f].vec[hdr.vec] = hdr.url
      BY <2>4, <3>2 DEF Names
    <3>4. QED
      BY <2>2, <3>3
  <2>5. QED
    BY <2>3, <2>4
<1>2. QED
  BY <1>1, Invariance, PTL

(* Every page that addPage was given is in one place and in it once: in    *)
(* the queue, with a bin or in one file, unless a crash took it.  No file  *)
(* has more headers than PageBin reserved room for.                        *)
THEOREM PagesKept == Spec => []PagesPlaced
<1>1. IInv => PagesPlaced
  <2> SUFFICES ASSUME IInv PROVE HeadersFit /\ OneCopy
    BY DEF PagesPlaced
  <2>1. HeadersFit
    BY DEF IInv, FilesInv, Complete, CompleteFile, HeadersFit
  <2>2. OneCopy
    BY OnePlace DEF IInv
  <2>3. QED
    BY <2>1, <2>2
<1>2. QED
  BY <1>1, Invariance, PTL

(* A page that is stored stays where it is: a process that starts again    *)
(* after a crash takes new files, and a bin writes past the counted pages. *)
THEOREM StoredIsKept == Spec => StoredStays
<1> DEFINE Stays == \A f \in 1 .. counter :
                      /\ file'[f].count >= file[f].count
                      /\ \A h \in 1 .. file[f].count :
                           file'[f].headers[h] = file[f].headers[h]
<1>1. IInv /\ [Next]_vars => Stays
  BY FilesGrow DEF IInv
<1>2. IInv /\ [Next]_vars => [Stays]_vars
  BY <1>1
<1>3. QED
  BY <1>2, Invariance, PTL DEF Spec, StoredStays

=============================================================================
