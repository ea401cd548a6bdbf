-------------------------- MODULE ScanAndUiProofs ---------------------------
(***************************************************************************)
(* Accepted scans are whole and contiguous, no import is lost and no old   *)
(* delete is executed, for any number of scan processes, paths, contents,  *)
(* edits and crashes; a confirmation of the control page has the effect    *)
(* its preview showed, once.                                               *)
(***************************************************************************)
EXTENDS FileScan, UiConfirmations, FiniteSetTheorems, WellFoundedInduction, TLAPS

-----------------------------------------------------------------------------
(* Numbers.                                                                *)

LEMMA LeastNatural ==
    ASSUME NEW S, S \subseteq Nat, S # {}
    PROVE  \E n \in S : \A m \in S : n <= m
<1>1. PICK x \in S : \A y \in S : ~ (<<y, x>> \in OpToRel(<, Nat))
  BY NatLessThanWellFounded, WFMin, Zenon 
<1>2. \A y \in S : ~ (y < x)
  BY <1>1, Zenon DEF OpToRel
<1> QED
  BY <1>2

LEMMA GreatestNatural ==
    ASSUME NEW S, S \subseteq Nat, S # {}, NEW top \in Nat, \A m \in S : m <= top
    PROVE  \E n \in S : \A m \in S : m <= n
<1> DEFINE D == {x \in Nat : top - x \in S}
<1>1. PICK m \in S : TRUE
  OBVIOUS
<1>2. top - m \in D
  BY <1>1
<1>3. PICK d \in D : \A e \in D : d <= e
  BY <1>2, LeastNatural, Zenon 
<1>4. \A k \in S : top - k \in D
  OBVIOUS
<1> QED
  BY <1>3, <1>4

-----------------------------------------------------------------------------
(* Scans and their pages.                                                  *)

Scans == [changes : SUBSET Changes, base : Nat]
Epochs == [after : Nat, scan : Scans]
PageRow == [epoch : Epochs, offset : Nat, changes : SUBSET Changes, complete : BOOLEAN]

\* A scan says one thing of a path.
OnePerPath(changes) == \A c, d \in changes : c.path = d.path => c = d

\* Every file of the baseline is in the scan again, or is deleted by it.
TakesUp(changes, entries) ==
    \A c \in Upserts(entries) :
        \/ \E d \in Upserts(changes) : d.path = c.path
        \/ [c EXCEPT !.kind = "delete"] \in changes

LEMMA DeletedChange ==
    ASSUME NEW c \in Changes
    PROVE  LET d == [c EXCEPT !.kind = "delete"]
           IN  d \in Changes /\ d.path = c.path /\ d.kind = "delete" /\ d.content = c.content
BY Zenon DEF Changes

LEMMA ScansAreFinite ==
    ASSUME NEW changes \in SUBSET Changes, OnePerPath(changes)
    PROVE  IsFiniteSet(changes)
<1>1. PICK f : f = [c \in changes |-> c.path]
  BY Zenon 
<1>2. \A c \in changes : f[c] \in Paths /\ f[c] = c.path
  BY <1>1, Zenon DEF Changes
<1>3. f \in [changes -> Paths]
  BY <1>1, <1>2, Zenon 
<1>4. f \in Injection(changes, Paths)
  BY <1>2, <1>3, Zenon DEF Injection, IsInjective, OnePerPath
<1> QED
  BY <1>4, FS_Injection, ScanConstantsAssumption, Zenon 

\* A change has its place in the order of the paths.
LEMMA RankIsSmall ==
    ASSUME NEW changes \in SUBSET Changes, OnePerPath(changes), NEW c \in changes
    PROVE  /\ Cardinality({d \in changes : d.path < c.path}) \in Nat
           /\ Cardinality(changes) \in Nat
           /\ Cardinality({d \in changes : d.path < c.path}) < Cardinality(changes)
<1>1. PICK below : below = {d \in changes : d.path < c.path}
  BY Zenon 
<1>2. IsFiniteSet(changes)
  BY ScansAreFinite, Zenon 
<1>3. below \subseteq changes
  BY <1>1, Zenon 
<1>4. c.path \in Nat
  BY ScanConstantsAssumption, Zenon DEF Changes
<1>5. c \notin below
  BY <1>1, <1>4
<1>6. IsFiniteSet(below) /\ Cardinality(below) <= Cardinality(changes)
      /\ (Cardinality(below) = Cardinality(changes) => below = changes)
  BY <1>2, <1>3, FS_Subset, Zenon 
<1>7. Cardinality(below) \in Nat /\ Cardinality(changes) \in Nat
  BY <1>2, <1>6, FS_CardinalityType, Zenon 
<1> QED
  BY <1>1, <1>5, <1>6, <1>7

-----------------------------------------------------------------------------
(* The log.                                                                *)

ScanIsSound(scan) ==
    /\ scan \in Scans
    /\ OnePerPath(scan.changes)
    /\ scan.base \in 0 .. Len(pages)
    /\ scan.base # 0 => pages[scan.base].complete
    /\ TakesUp(scan.changes, Entries(scan.base))

\* The pages of a scan up to one of them are the pages just before it.
InOneRun(i) ==
    /\ pages[i].offset < i
    /\ \A o \in 0 .. pages[i].offset :
          pages[i - o].epoch = pages[i].epoch /\ pages[i - o].offset = pages[i].offset - o
    /\ IF pages[i].offset = 0
       THEN \A j \in 1 .. i - 1 : pages[j].epoch # pages[i].epoch
       ELSE ~ pages[i - 1].complete

PageIsSound(i) ==
    /\ ScanIsSound(pages[i].epoch.scan)
    /\ pages[i].epoch.scan.base < i
    /\ pages[i].changes = Selected(pages[i].epoch.scan.changes, pages[i].offset)
    /\ pages[i].complete = EndsScan(pages[i].epoch.scan.changes, pages[i].offset)
    /\ \A k \in 1 .. i - 1 : pages[k].complete => k <= pages[i].epoch.scan.base
    /\ InOneRun(i)

LogIsSound ==
    /\ pages \in Seq(PageRow)
    /\ \A i \in 1 .. Len(pages) : PageIsSound(i)

LEMMA PageParts ==
    ASSUME LogIsSound, NEW i \in 1 .. Len(pages)
    PROVE  /\ pages[i] \in PageRow /\ Len(pages) \in Nat /\ i \in Nat
           /\ pages[i].epoch \in Epochs /\ pages[i].epoch.scan \in Scans
           /\ pages[i].epoch.scan.changes \in SUBSET Changes
           /\ pages[i].epoch.scan.base \in Nat /\ pages[i].offset \in Nat
           /\ pages[i].epoch.after \in Nat /\ pages[i].complete \in BOOLEAN
<1>1. pages[i] \in PageRow /\ Len(pages) \in Nat /\ i \in Nat
  BY DEF LogIsSound
<1>2. pages[i].epoch \in Epochs /\ pages[i].offset \in Nat /\ pages[i].complete \in BOOLEAN
  BY <1>1, Zenon DEF PageRow
<1>3. pages[i].epoch.scan \in Scans /\ pages[i].epoch.after \in Nat
  BY <1>2, Zenon DEF Epochs
<1> QED
  BY <1>1, <1>2, <1>3, Zenon DEF Scans

\* A complete scan is on its pages.
LEMMA EntriesOfComplete ==
    ASSUME LogIsSound, NEW i \in CompletePages
    PROVE  Entries(i) = pages[i].epoch.scan.changes
<1>1. i \in 1 .. Len(pages) /\ pages[i].complete /\ i # 0
  BY DEF CompletePages
<1>2. PICK epoch, changes, last :
         /\ epoch = pages[i].epoch /\ changes = epoch.scan.changes /\ last = pages[i].offset
  BY Zenon 
<1>3. /\ changes \in SUBSET Changes /\ last \in Nat /\ OnePerPath(changes)
      /\ EndsScan(changes, last)
      /\ last < i
      /\ \A o \in 0 .. last : pages[i - o].epoch = epoch /\ pages[i - o].offset = last - o
  BY <1>1, <1>2, PageParts DEF LogIsSound, PageIsSound, ScanIsSound, InOneRun
<1>4. ASSUME NEW c \in Entries(i)
      PROVE  c \in changes
  <2>1. PICK j \in 1 .. Len(pages) : pages[j].epoch = epoch /\ c \in pages[j].changes
    BY <1>1, <1>2, Zenon DEF Entries, PagesOf
  <2> QED
    BY <1>2, <2>1, Zenon DEF LogIsSound, PageIsSound, Selected
<1>5. ASSUME NEW c \in changes
      PROVE  c \in Entries(i)
  <2>1. PICK rank \in Nat :
           /\ rank = Cardinality({d \in changes : d.path < c.path})
           /\ rank < Cardinality(changes) /\ Cardinality(changes) \in Nat
    BY <1>3, RankIsSmall, Zenon 
  <2>2. rank \in 0 .. last
    BY <1>3, <2>1 DEF EndsScan
  <2>3. PICK o \in 0 .. last : o = last - rank
    BY <1>3, <2>2
  <2>4. PICK j \in 1 .. Len(pages) : j = i - o
    BY <1>1, <1>3, <2>3
  <2>5. pages[j].epoch = epoch /\ pages[j].offset = rank
    BY <1>3, <2>1, <2>3, <2>4
  <2>6. pages[j].changes = Selected(changes, rank)
    BY <1>2, <2>5, Zenon DEF LogIsSound, PageIsSound
  <2>7. c \in pages[j].changes
    BY <2>1, <2>6, Zenon DEF Selected
  <2> QED
    BY <1>1, <1>2, <2>5, <2>7, Zenon DEF Entries, PagesOf
<1> QED
  BY <1>2, <1>4, <1>5, Zenon 

LEMMA LatestIsGreatest ==
    ASSUME LogIsSound
    PROVE  /\ LatestComplete \in 0 .. Len(pages)
           /\ LatestComplete # 0 => LatestComplete \in CompletePages
           /\ \A i \in CompletePages : i <= LatestComplete
<1>1. Len(pages) \in Nat /\ CompletePages \subseteq 1 .. Len(pages)
  BY DEF LogIsSound, CompletePages
<1>2. CASE CompletePages = {}
  BY <1>1, <1>2 DEF LatestComplete
<1>3. CASE CompletePages # {}
  <2>0. PICK top \in Nat : top = Len(pages)
    BY <1>1, Zenon 
  <2>1. PICK S : S = CompletePages
    BY Zenon 
  <2>2. S \subseteq Nat /\ S # {} /\ \A m \in S : m <= top
    BY <1>1, <1>3, <2>0, <2>1
  <2>3. \E n \in S : \A m \in S : m <= n
    BY <2>2, GreatestNatural, Zenon 
  <2>4. LatestComplete \in S /\ \A m \in S : m <= LatestComplete
    BY <1>3, <2>1, <2>3, Zenon DEF LatestComplete
  <2> QED
    BY <1>1, <2>1, <2>4
<1> QED
  BY <1>2, <1>3, Zenon 

-----------------------------------------------------------------------------
(* The log grows.                                                          *)

\* What a step does to the accepted pages and to the scheduled ones.
LogExtends ==
    /\ Len(pages) \in Nat /\ Len(pages') \in Nat /\ Len(pages) <= Len(pages')
    /\ \A i \in 1 .. Len(pages) : pages'[i] = pages[i]
    /\ \A b \in CompletePages \cup {0} : Entries(b)' = Entries(b)
    /\ scheduled \subseteq scheduled'

LEMMA ScansStaySound ==
    ASSUME LogExtends, NEW scan, ScanIsSound(scan)
    PROVE  ScanIsSound(scan)'
<1>1. scan \in Scans /\ scan.base \in 0 .. Len(pages)
  BY Zenon DEF ScanIsSound
<1>2. scan.base \in 0 .. Len(pages')
  BY <1>1 DEF LogExtends
<1>3. scan.base # 0 => pages'[scan.base].complete
  BY <1>1 DEF ScanIsSound, LogExtends
<1>4. scan.base \in CompletePages \cup {0}
  BY <1>1 DEF ScanIsSound, CompletePages
<1>5. PICK b : b = scan.base
  BY Zenon 
<1>6. Entries(b)' = Entries(b)
  BY <1>4, <1>5, Zenon DEF LogExtends
<1>7. TakesUp(scan.changes, Entries(b))
  BY <1>5, Zenon DEF ScanIsSound
<1>8. TakesUp(scan.changes, Entries(b)')
  BY <1>6, <1>7, Zenon 
<1> QED
  BY <1>1, <1>2, <1>3, <1>5, <1>8, Zenon DEF ScanIsSound

LEMMA PagesStaySound ==
    ASSUME LogExtends, LogIsSound, NEW i \in 1 .. Len(pages)
    PROVE  PageIsSound(i)'
<1>1. pages'[i] = pages[i] /\ i \in Nat /\ pages[i].offset \in Nat
  BY PageParts, Zenon DEF LogExtends
<1>2. PageIsSound(i)
  BY Zenon DEF LogIsSound
<1>3. ScanIsSound(pages[i].epoch.scan)'
  <2>1. PICK scan : scan = pages[i].epoch.scan
    BY Zenon 
  <2>2. ScanIsSound(scan)'
    BY <1>2, <2>1, ScansStaySound, Zenon DEF PageIsSound
  <2> QED
    BY <1>1, <2>1, <2>2, Zenon 
<1>4. \A k \in 1 .. i - 1 : pages'[k] = pages[k]
  BY DEF LogExtends
<1>5. InOneRun(i)'
  <2>1. InOneRun(i)
    BY <1>2, Zenon DEF PageIsSound
  <2>2. pages'[i].offset < i
    BY <1>1, <2>1, Zenon DEF InOneRun
  <2>3. ASSUME NEW o \in 0 .. pages'[i].offset
        PROVE  pages'[i - o].epoch = pages'[i].epoch /\ pages'[i - o].offset = pages'[i].offset - o
    <3>1. i - o \in 1 .. Len(pages)
      BY <1>1, <2>2
    <3>2. pages'[i - o] = pages[i - o]
      BY <3>1, Zenon DEF LogExtends
    <3> QED
      BY <1>1, <2>1, <3>2, Zenon DEF InOneRun
  <2>4. IF pages'[i].offset = 0
        THEN \A j \in 1 .. i - 1 : pages'[j].epoch # pages'[i].epoch
        ELSE ~ pages'[i - 1].complete
    <3>1. CASE pages[i].offset = 0
      BY <1>1, <1>4, <2>1, <3>1, Zenon DEF InOneRun
    <3>2. CASE pages[i].offset # 0
      <4>1. i - 1 \in 1 .. i - 1
        BY <1>1, <2>1, <3>2 DEF InOneRun
      <4> QED
        BY <1>1, <1>4, <2>1, <3>2, <4>1, Zenon DEF InOneRun
    <3> QED
      BY <3>1, <3>2, Zenon 
  <2> QED
    BY <2>2, <2>3, <2>4, Zenon DEF InOneRun
<1> QED
  BY <1>1, <1>2, <1>3, <1>4, <1>5, Zenon DEF PageIsSound

LEMMA LogStays ==
    ASSUME LogIsSound, UNCHANGED pages, scheduled \subseteq scheduled'
    PROVE  LogExtends /\ LogIsSound'
<1>1. LogExtends
  BY DEF LogExtends, LogIsSound, Entries, PagesOf
<1>2. \A i \in 1 .. Len(pages) : PageIsSound(i)'
  BY <1>1, PagesStaySound, Zenon 
<1> QED
  BY <1>1, <1>2, Zenon DEF LogIsSound

\* A page that opens a scan, or goes on with the scan of the head.
Opening(row) ==
    row.offset = 0 /\ row.epoch.scan.base = LatestComplete /\ PagesOf(row.epoch) = {}

Continuing(row) ==
    /\ Len(pages) # 0
    /\ pages[Len(pages)].epoch = row.epoch
    /\ row.offset = pages[Len(pages)].offset + 1
    /\ PagesOf(row.epoch) \cap CompletePages = {}

LEMMA LaterPageFollows ==
    ASSUME NEW i \in Nat, pages'[i].offset < i, pages'[i].offset # 0, ~ pages'[i - 1].complete,
           \A o \in 0 .. pages'[i].offset :
              pages'[i - o].epoch = pages'[i].epoch /\ pages'[i - o].offset = pages'[i].offset - o
    PROVE  InOneRun(i)'
BY Zenon DEF InOneRun

LEMMA NextPageFollows ==
    ASSUME LogIsSound, NEW row \in PageRow, NEW n \in Nat, n = Len(pages), Continuing(row),
           \A i \in 1 .. n : pages'[i] = pages[i], pages'[n + 1] = row
    PROVE  InOneRun(n + 1)'
<1>1. /\ n \in 1 .. n /\ pages[n].epoch = row.epoch /\ pages[n].offset \in Nat
      /\ row.offset = pages[n].offset + 1
  BY PageParts DEF Continuing
<1>2. InOneRun(n)
  BY <1>1, Zenon DEF LogIsSound, PageIsSound
<1>3. ~ pages[n].complete
  BY <1>1, Zenon DEF Continuing, PagesOf, CompletePages
<1>4. row.offset < n + 1
  BY <1>1, <1>2 DEF InOneRun
<1>5. ASSUME NEW o \in 0 .. row.offset
      PROVE  pages'[n + 1 - o].epoch = row.epoch /\ pages'[n + 1 - o].offset = row.offset - o
  <2>1. CASE o = 0
    BY <1>1, <2>1
  <2>2. CASE o # 0
    <3>1. PICK q \in 0 .. pages[n].offset : q = o - 1
      BY <1>1, <2>2
    <3>2. n + 1 - o = n - q /\ n - q \in 1 .. n
      BY <1>1, <1>2, <3>1 DEF InOneRun
    <3>3. pages[n - q].epoch = row.epoch /\ pages[n - q].offset = pages[n].offset - q
      BY <1>1, <1>2, Zenon DEF InOneRun
    <3> QED
      BY <1>1, <3>1, <3>2, <3>3
  <2> QED
    BY <2>1, <2>2, Zenon 
<1>6. row.offset # 0 /\ ~ pages'[n + 1 - 1].complete
  BY <1>1, <1>3
<1>7. PICK i \in Nat : i = n + 1
  OBVIOUS
<1>8. pages'[i].offset < i /\ pages'[i].offset # 0 /\ ~ pages'[i - 1].complete
  BY <1>4, <1>6, <1>7
<1>9. \A o \in 0 .. pages'[i].offset :
         pages'[i - o].epoch = pages'[i].epoch /\ pages'[i - o].offset = pages'[i].offset - o
  BY <1>5, <1>7
<1>10. InOneRun(i)'
  BY <1>8, <1>9, LaterPageFollows, Zenon 
<1> QED
  BY <1>7, <1>10, Zenon 

LEMMA LogGrows ==
    ASSUME LogIsSound, NEW row \in PageRow, pages' = Append(pages, row), UNCHANGED scheduled,
           ScanIsSound(row.epoch.scan),
           row.changes = Selected(row.epoch.scan.changes, row.offset),
           row.complete = EndsScan(row.epoch.scan.changes, row.offset),
           Opening(row) \/ Continuing(row)
    PROVE  LogExtends /\ LogIsSound'
<1>1. PICK n \in Nat : n = Len(pages)
  BY DEF LogIsSound
<1>2. /\ pages' \in Seq(PageRow) /\ Len(pages') = n + 1
      /\ \A i \in 1 .. n : pages'[i] = pages[i]
      /\ pages'[n + 1] = row
  BY <1>1 DEF LogIsSound
<1>3. ASSUME NEW b \in CompletePages
      PROVE  Entries(b)' = Entries(b)
  <2>1. b \in 1 .. n /\ pages[b].complete /\ b # 0
    BY <1>1 DEF CompletePages
  <2>2. row.epoch # pages[b].epoch
    BY <1>1, <2>1, Zenon DEF Opening, Continuing, PagesOf, CompletePages
  <2>3. PICK epoch : epoch = pages[b].epoch
    BY Zenon 
  <2>4. PagesOf(epoch)' = PagesOf(epoch)
    BY <1>1, <1>2, <2>2, <2>3 DEF PagesOf
  <2>5. \A i \in PagesOf(epoch) : pages'[i] = pages[i]
    BY <1>1, <1>2, Zenon DEF PagesOf
  <2>6. Entries(b) = UNION {pages[i].changes : i \in PagesOf(epoch)}
    BY <2>1, <2>3, Zenon DEF Entries
  <2>7. Entries(b)' = UNION {pages'[i].changes : i \in PagesOf(epoch)}
    BY <1>2, <2>1, <2>3, <2>4, Zenon DEF Entries
  <2> QED
    BY <2>5, <2>6, <2>7, Zenon 
<1>4. Entries(0)' = Entries(0)
  BY Zenon DEF Entries
<1>5. LogExtends
  BY <1>1, <1>2, <1>3, <1>4 DEF LogExtends
<1>6. \A i \in 1 .. n : PageIsSound(i)'
  BY <1>1, <1>5, PagesStaySound, Zenon 
<1>7. ScanIsSound(row.epoch.scan)'
  BY <1>5, ScansStaySound, Zenon 
<1>8. row.epoch.scan.base \in 0 .. n
  BY <1>1, Zenon DEF ScanIsSound
<1>9. CompletePages \subseteq 1 .. n
  BY <1>1, Zenon DEF CompletePages
<1>10. ASSUME NEW k \in 1 .. n, pages[k].complete
       PROVE  k <= row.epoch.scan.base
  <2>1. k \in CompletePages
    BY <1>1, <1>10, Zenon DEF CompletePages
  <2>2. CASE Opening(row)
    BY <2>1, <2>2, LatestIsGreatest, Zenon DEF Opening
  <2>3. CASE Continuing(row)
    <3>1. n \in 1 .. n /\ k # n
      BY <1>1, <1>10, <2>1, <2>3 DEF Continuing, PagesOf
    <3>2. PageIsSound(n) /\ pages[n].epoch = row.epoch
      BY <1>1, <2>3, <3>1, Zenon DEF LogIsSound, Continuing
    <3>3. k \in 1 .. n - 1
      BY <1>1, <1>10, <3>1
    <3> QED
      BY <1>10, <3>2, <3>3, Zenon DEF PageIsSound
  <2> QED
    BY <2>2, <2>3, Zenon 
<1>11. InOneRun(n + 1)'
  <2>1. CASE Opening(row)
    <3>1. row.offset = 0 /\ \A j \in 1 .. n : pages[j].epoch # row.epoch
      BY <1>1, <2>1, Zenon DEF Opening, PagesOf
    <3> QED
      BY <1>1, <1>2, <3>1 DEF InOneRun
  <2>2. CASE Continuing(row)
    BY <1>1, <1>2, <2>2, NextPageFollows, Zenon 
  <2> QED
    BY <2>1, <2>2, Zenon 
<1>12. PageIsSound(n + 1)'
  <2>1. \A k \in 1 .. n + 1 - 1 : pages'[k].complete => k <= row.epoch.scan.base
    BY <1>1, <1>2, <1>10
  <2>2. row.epoch.scan.base < n + 1
    BY <1>1, <1>8
  <2> QED
    BY <1>2, <1>7, <1>11, <2>1, <2>2 DEF PageIsSound
<1>13. \A i \in 1 .. Len(pages') : PageIsSound(i)'
  <2> TAKE i \in 1 .. Len(pages')
  <2>1. CASE i = n + 1
    BY <1>12, <2>1, Zenon 
  <2>2. CASE i # n + 1
    BY <1>1, <1>2, <1>6, <2>2
  <2> QED
    BY <2>1, <2>2, Zenon 
<1> QED
  BY <1>2, <1>5, <1>13, Zenon DEF LogIsSound

-----------------------------------------------------------------------------
(* What the provider proposes.                                             *)

RootIsTyped == disk \in [Paths -> Contents \cup {Absent}]

LEMMA ObservedChanges ==
    ASSUME RootIsTyped
    PROVE  \A c \in Observed : /\ c \in Changes /\ c.kind = "upsert"
                               /\ c.content = disk[c.path] /\ disk[c.path] # Absent
BY ScanConstantsAssumption DEF Observed, RootIsTyped, Changes

LEMMA ObservedPaths ==
    ASSUME RootIsTyped, NEW p \in Paths, disk[p] # Absent
    PROVE  \E d \in Observed : d.kind = "upsert" /\ d.path = p
<1>1. PICK d : d = [kind |-> "upsert", path |-> p, content |-> disk[p]]
  BY Zenon 
<1>2. p \in {q \in Paths : disk[q] # Absent}
  OBVIOUS
<1>3. d \in Observed
  BY <1>1, <1>2, Zenon DEF Observed
<1> QED
  BY <1>1, <1>3, Zenon 

\* The entries of a complete baseline, or of none.
LEMMA BaselineEntries ==
    ASSUME LogIsSound, NEW base \in 0 .. Len(pages), base # 0 => pages[base].complete
    PROVE  /\ Entries(base) \in SUBSET Changes /\ OnePerPath(Entries(base))
           /\ base # 0 => Entries(base) = pages[base].epoch.scan.changes
<1>1. CASE base = 0
  BY <1>1, Zenon DEF Entries, OnePerPath
<1>2. CASE base # 0
  <2>1. base \in CompletePages /\ base \in 1 .. Len(pages)
    BY <1>2 DEF CompletePages, LogIsSound
  <2>2. Entries(base) = pages[base].epoch.scan.changes
    BY <2>1, EntriesOfComplete, Zenon 
  <2> QED
    BY <2>1, <2>2, PageParts DEF LogIsSound, PageIsSound, ScanIsSound
<1> QED
  BY <1>1, <1>2, Zenon 

LEMMA ProposedScanIsSound ==
    ASSUME LogIsSound, RootIsTyped, NEW head \in 0 .. Len(pages),
           NEW base \in 0 .. Len(pages), base # 0 => pages[base].complete
    PROVE  ScanIsSound(ScanOf(head, base)) /\ ScanOf(head, base).base <= base
<1>1. PICK entries : entries = Entries(base)
  BY Zenon 
<1>2. entries \in SUBSET Changes /\ OnePerPath(entries) /\ base \in Nat /\ Len(pages) \in Nat
  BY <1>1, BaselineEntries DEF LogIsSound
<1>3. CASE base # 0 /\ Observed = Upserts(entries)
  <2>1. base \in 1 .. Len(pages)
    BY <1>2, <1>3
  <2>2. /\ entries = pages[base].epoch.scan.changes
        /\ ScanIsSound(pages[base].epoch.scan)
        /\ pages[base].epoch.scan.base < base /\ pages[base].epoch.scan.base \in Nat
    BY <1>1, <1>3, <2>1, BaselineEntries, PageParts, Zenon DEF LogIsSound, PageIsSound
  <2>3. CASE head = base
    <3>1. PICK b \in Nat : b = pages[base].epoch.scan.base
      BY <2>2, Zenon 
    <3>2. ScanOf(head, base) = [changes |-> entries, base |-> b]
      BY <1>1, <1>3, <2>3, <3>1, Zenon DEF ScanOf
    <3>3. ScanOf(head, base) = pages[base].epoch.scan
      BY <2>1, <2>2, <3>1, <3>2, PageParts, Zenon DEF Scans
    <3> QED
      BY <1>2, <2>2, <3>3
  <2>4. CASE head # base
    <3>1. PICK scan : scan = [changes |-> entries, base |-> base]
      BY Zenon 
    <3>2. scan = ScanOf(head, base)
      BY <1>1, <1>3, <2>4, <3>1, Zenon DEF ScanOf
    <3>3. TakesUp(entries, entries)
      BY Zenon DEF TakesUp, Upserts
    <3>4. scan \in Scans /\ scan.changes = entries /\ scan.base = base
      BY <1>2, <3>1, Zenon DEF Scans
    <3>5. ScanIsSound(scan)
      BY <1>1, <1>2, <3>3, <3>4, Zenon DEF ScanIsSound
    <3> QED
      BY <1>2, <3>2, <3>4, <3>5
  <2> QED
    BY <2>3, <2>4, Zenon 
<1>4. CASE ~ (base # 0 /\ Observed = Upserts(entries))
  <2>1. PICK gone : gone = {[c EXCEPT !.kind = "delete"] : c \in
                              {d \in Upserts(entries) : disk[d.path] = Absent}}
    BY Zenon 
  <2>2. PICK changes, scan : changes = Observed \cup gone /\ scan = [changes |-> changes, base |-> base]
    BY Zenon 
  <2>3. scan = ScanOf(head, base)
    BY <1>1, <1>4, <2>1, <2>2, Zenon DEF ScanOf
  <2>4. ASSUME NEW c \in gone
        PROVE  /\ c \in Changes /\ c.kind = "delete" /\ disk[c.path] = Absent
               /\ \E d \in entries : d.path = c.path /\ c = [d EXCEPT !.kind = "delete"]
    <3>1. PICK d \in {e \in Upserts(entries) : disk[e.path] = Absent} : c = [d EXCEPT !.kind = "delete"]
      BY <2>1, Zenon 
    <3>2. d \in entries /\ d \in Changes /\ disk[d.path] = Absent
      BY <1>2, <3>1, Zenon DEF Upserts
    <3>3. c \in Changes /\ c.path = d.path /\ c.kind = "delete"
      BY <3>1, <3>2, DeletedChange, Zenon 
    <3> QED
      BY <3>1, <3>2, <3>3, Zenon 
  <2>5. changes \in SUBSET Changes
    BY <2>2, <2>4, ObservedChanges, Zenon 
  <2>6. OnePerPath(changes)
    <3> SUFFICES ASSUME NEW c \in changes, NEW d \in changes, c.path = d.path
                 PROVE  c = d
      BY Zenon DEF OnePerPath
    <3>1. CASE c \in Observed /\ d \in Observed
      <4>1. c.content = d.content /\ c.kind = d.kind /\ c \in Changes /\ d \in Changes
        BY <3>1, ObservedChanges, Zenon 
      <4> QED
        BY <4>1 DEF Changes
    <3>2. CASE c \in gone /\ d \in gone
      <4>1. PICK e \in entries : e.path = c.path /\ c = [e EXCEPT !.kind = "delete"]
        BY <2>4, <3>2, Zenon 
      <4>2. PICK f \in entries : f.path = d.path /\ d = [f EXCEPT !.kind = "delete"]
        BY <2>4, <3>2, Zenon 
      <4>3. e = f
        BY <1>2, <4>1, <4>2, Zenon DEF OnePerPath
      <4> QED
        BY <4>1, <4>2, <4>3, Zenon 
    <3>3. ~ (c \in Observed /\ d \in gone) /\ ~ (c \in gone /\ d \in Observed)
      BY <2>4, ObservedChanges, Zenon 
    <3> QED
      BY <2>2, <3>1, <3>2, <3>3, Zenon 
  <2>7. TakesUp(changes, entries)
    <3> SUFFICES ASSUME NEW c \in Upserts(entries)
                 PROVE  \/ \E d \in Upserts(changes) : d.path = c.path
                        \/ [c EXCEPT !.kind = "delete"] \in changes
      BY Zenon DEF TakesUp
    <3>1. c \in Changes /\ c.path \in Paths
      BY <1>2, Zenon DEF Upserts, Changes
    <3>2. CASE disk[c.path] = Absent
      <4>1. c \in {d \in Upserts(entries) : disk[d.path] = Absent}
        BY <3>2, Zenon 
      <4>2. [c EXCEPT !.kind = "delete"] \in gone
        BY <2>1, <4>1, Zenon 
      <4> QED
        BY <2>2, <4>2, Zenon 
    <3>3. CASE disk[c.path] # Absent
      <4>1. PICK d \in Observed : d.kind = "upsert" /\ d.path = c.path
        BY <3>1, <3>3, ObservedPaths, Zenon 
      <4> QED
        BY <2>2, <4>1, Zenon DEF Upserts
    <3> QED
      BY <3>2, <3>3, Zenon 
  <2>8. scan \in Scans /\ scan.changes = changes /\ scan.base = base
    BY <1>2, <2>2, <2>5, Zenon DEF Scans
  <2>9. ScanIsSound(scan)
    BY <1>1, <2>6, <2>7, <2>8, Zenon DEF ScanIsSound
  <2> QED
    BY <1>2, <2>3, <2>8, <2>9
<1> QED
  BY <1>3, <1>4, Zenon 

\* The epoch proposed with a scan is that of the head or is derived from it.
LEMMA ProposedEpochIsSound ==
    ASSUME LogIsSound, NEW head \in 0 .. Len(pages), NEW scan, ScanIsSound(scan)
    PROVE  /\ EpochOf(head, scan) \in Epochs /\ EpochOf(head, scan).scan = scan
           /\ EpochOf(head, scan).after = head \/ PagesOf(EpochOf(head, scan)) # {}
<1>1. scan \in Scans /\ head \in Nat
  BY DEF ScanIsSound, LogIsSound
<1>2. CASE head # 0 /\ pages[head].epoch.scan = scan
  <2>1. head \in 1 .. Len(pages)
    BY <1>1, <1>2
  <2>2. EpochOf(head, scan) = pages[head].epoch
    BY <1>2, Zenon DEF EpochOf
  <2>3. head \in PagesOf(pages[head].epoch)
    BY <2>1, Zenon DEF PagesOf
  <2> QED
    BY <1>2, <2>1, <2>2, <2>3, PageParts, Zenon 
<1>3. CASE ~ (head # 0 /\ pages[head].epoch.scan = scan)
  BY <1>1, <1>3, Zenon DEF EpochOf, Epochs
<1> QED
  BY <1>2, <1>3, Zenon 

-----------------------------------------------------------------------------
(* The scan processes.                                                     *)

Fields(row, pc, head, base, todo, done, cursor, epoch, offset, at) ==
    row \in [pc : {pc}, head : {head}, base : {base}, todo : {todo}, done : {done},
             cursor : {cursor}, epoch : {epoch}, offset : {offset}, at : {at}]

IsLocal(me) ==
    Fields(me, me.pc, me.head, me.base, me.todo, me.done, me.cursor, me.epoch, me.offset, me.at)

WithPc(me, pc1) == [me EXCEPT !.pc = pc1]
Started(idle, head1, base1, todo1) ==
    [idle EXCEPT !.pc = "reconcile", !.head = head1, !.base = base1, !.todo = todo1]
Reconciling(me, i) ==
    [me EXCEPT !.pc = "recheck", !.at = i, !.todo = me.todo \ {i}, !.done = me.done \cup {i}]
Proposing(me, epoch1) == [me EXCEPT !.pc = "accept", !.epoch = epoch1]
AtOffset(me, offset1) == [me EXCEPT !.offset = offset1]
Advancing(me, i) == [me EXCEPT !.pc = "propose", !.cursor = i, !.head = i]
Noting(me, i) == [me EXCEPT !.pc = "schedule", !.at = i]

LEMMA FieldValues ==
    ASSUME NEW row, NEW pc, NEW head, NEW base, NEW todo, NEW done, NEW cursor, NEW epoch,
           NEW offset, NEW at, Fields(row, pc, head, base, todo, done, cursor, epoch, offset, at)
    PROVE  /\ row.pc = pc /\ row.head = head /\ row.base = base /\ row.todo = todo
           /\ row.done = done /\ row.cursor = cursor /\ row.epoch = epoch
           /\ row.offset = offset /\ row.at = at
           /\ IsLocal(row)
BY Zenon DEF Fields, IsLocal

LEMMA WithPcRow ==
    ASSUME NEW me, IsLocal(me), NEW pc1
    PROVE  Fields(WithPc(me, pc1), pc1, me.head, me.base, me.todo, me.done, me.cursor,
                  me.epoch, me.offset, me.at)
BY Zenon DEF WithPc, IsLocal, Fields

LEMMA StartedRow ==
    ASSUME NEW me, IsLocal(me), NEW head1, NEW base1, NEW todo1
    PROVE  Fields(Started(me, head1, base1, todo1), "reconcile", head1, base1, todo1, me.done,
                  me.cursor, me.epoch, me.offset, me.at)
BY Zenon DEF Started, IsLocal, Fields

LEMMA ReconcilingRow ==
    ASSUME NEW me, IsLocal(me), NEW i
    PROVE  Fields(Reconciling(me, i), "recheck", me.head, me.base, me.todo \ {i},
                  me.done \cup {i}, me.cursor, me.epoch, me.offset, i)
BY Zenon DEF Reconciling, IsLocal, Fields

LEMMA ProposingRow ==
    ASSUME NEW me, IsLocal(me), NEW epoch1
    PROVE  Fields(Proposing(me, epoch1), "accept", me.head, me.base, me.todo, me.done,
                  me.cursor, epoch1, me.offset, me.at)
BY Zenon DEF Proposing, IsLocal, Fields

LEMMA AtOffsetRow ==
    ASSUME NEW me, IsLocal(me), NEW offset1
    PROVE  Fields(AtOffset(me, offset1), me.pc, me.head, me.base, me.todo, me.done,
                  me.cursor, me.epoch, offset1, me.at)
BY Zenon DEF AtOffset, IsLocal, Fields

LEMMA AdvancingRow ==
    ASSUME NEW me, IsLocal(me), NEW i
    PROVE  Fields(Advancing(me, i), "propose", i, me.base, me.todo, me.done, i,
                  me.epoch, me.offset, me.at)
BY Zenon DEF Advancing, IsLocal, Fields

LEMMA NotingRow ==
    ASSUME NEW me, IsLocal(me), NEW i
    PROVE  Fields(Noting(me, i), "schedule", me.head, me.base, me.todo, me.done, me.cursor,
                  me.epoch, me.offset, i)
BY Zenon DEF Noting, IsLocal, Fields

\* The import of page i is scheduled, or there is none.
Settled(i) ==
    \/ NovelAgainst(pages[i].epoch.scan.base, pages[i].changes) = {}
    \/ i \in scheduled

\* Of the scan of the head a cycle read, only the pages in todo are pending.
HeadIsSettled(head, todo) ==
    \A i \in 1 .. head : pages[i].epoch = pages[head].epoch => Settled(i) \/ i \in todo

ProposalIsSound(me) ==
    /\ me.epoch \in Epochs /\ me.offset \in Nat
    /\ ScanIsSound(me.epoch.scan)
    /\ me.cursor = 0 => /\ me.offset = 0
                        /\ me.epoch.after = me.head \/ PagesOf(me.epoch) # {}
                        /\ me.epoch.scan.base <= me.base
    /\ me.cursor # 0 => /\ me.epoch = pages[me.cursor].epoch
                        /\ me.offset = pages[me.cursor].offset + 1

ScannerIsSound(me) ==
    /\ IsLocal(me)
    /\ me.head \in 0 .. Len(pages) /\ me.base \in 0 .. Len(pages) /\ me.cursor \in 0 .. Len(pages)
    /\ me.base # 0 => pages[me.base].complete
    /\ me.cursor = 0 => me.base <= me.head
    /\ me.pc \in {"reconcile", "recheck"} => me.cursor = 0 /\ me.todo \subseteq 1 .. Len(pages)
    /\ me.pc \in {"propose", "accept"} /\ me.cursor = 0 => me.todo = {}
    /\ me.pc \in {"reconcile", "recheck", "propose", "accept"} /\ me.cursor = 0
          => HeadIsSettled(me.head, me.todo)
    /\ me.pc = "accept" => ProposalIsSound(me)
    /\ me.pc \in {"schedule", "check", "recheck"} => me.at \in 1 .. Len(pages)

ScannersAreSound ==
    /\ scanner = [s \in Scanners |-> scanner[s]]
    /\ \A s \in Scanners : ScannerIsSound(scanner[s])

\* The import of page i is in the scan of the head, settled or overtaken.
Accounted(i) ==
    \/ pages[i].epoch = pages[Len(pages)].epoch
    \/ Settled(i)
    \/ \E j \in i + 1 .. Len(pages) : Overtakes(j, i)

ImportsAreAccounted == \A i \in 1 .. Len(pages) : Accounted(i)

ScanInv ==
    RootIsTyped /\ LogIsSound /\ ImportsAreAccounted /\ ScannersAreSound

LEMMA SettledStays ==
    ASSUME LogIsSound, LogExtends, NEW i \in 1 .. Len(pages), Settled(i)
    PROVE  Settled(i)'
<1>1. pages'[i] = pages[i] /\ scheduled \subseteq scheduled'
  BY Zenon DEF LogExtends
<1>2. PICK b, changes : b = pages[i].epoch.scan.base /\ changes = pages[i].changes
  BY ZenonT(60) 
<1>3. b \in CompletePages \cup {0}
  <2>1. ScanIsSound(pages[i].epoch.scan)
    BY Zenon DEF LogIsSound, PageIsSound
  <2> QED
    BY <1>2, <2>1 DEF ScanIsSound, CompletePages
<1>4. Entries(b)' = Entries(b)
  BY <1>3, Zenon DEF LogExtends
<1>5. NovelAgainst(b, changes)' = NovelAgainst(b, changes)
  BY <1>4, Zenon DEF NovelAgainst
<1> QED
  BY <1>1, <1>2, <1>5, Zenon DEF Settled

LEMMA HeadStaysSettled ==
    ASSUME LogIsSound, LogExtends, NEW head \in 0 .. Len(pages), NEW todo,
           HeadIsSettled(head, todo)
    PROVE  HeadIsSettled(head, todo)'
<1> SUFFICES ASSUME NEW i \in 1 .. head, pages'[i].epoch = pages'[head].epoch
             PROVE  Settled(i)' \/ i \in todo
  BY Zenon DEF HeadIsSettled
<1>1. i \in 1 .. Len(pages) /\ head \in 1 .. Len(pages)
  BY DEF LogIsSound
<1>2. pages[i].epoch = pages[head].epoch
  BY <1>1, Zenon DEF LogExtends
<1>3. Settled(i) \/ i \in todo
  BY <1>2, Zenon DEF HeadIsSettled
<1> QED
  BY <1>1, <1>3, SettledStays, Zenon 

LEMMA ProposalStays ==
    ASSUME LogIsSound, LogExtends, NEW me, me.cursor \in 0 .. Len(pages), ProposalIsSound(me)
    PROVE  ProposalIsSound(me)'
<1>1. PICK epoch : epoch = me.epoch
  BY Zenon 
<1>2. ScanIsSound(epoch.scan)'
  BY <1>1, ScansStaySound, Zenon DEF ProposalIsSound
<1>3. PagesOf(epoch) # {} => PagesOf(epoch)' # {}
  BY DEF PagesOf, LogExtends
<1>4. me.cursor # 0 => pages'[me.cursor] = pages[me.cursor]
  BY DEF LogExtends
<1> QED
  BY <1>1, <1>2, <1>3, <1>4, Zenon DEF ProposalIsSound

LEMMA ScannerStays ==
    ASSUME LogIsSound, LogExtends, NEW me, ScannerIsSound(me)
    PROVE  ScannerIsSound(me)'
<1>1. /\ me.head \in 0 .. Len(pages) /\ me.base \in 0 .. Len(pages) /\ me.cursor \in 0 .. Len(pages)
      /\ Len(pages) \in Nat /\ Len(pages') \in Nat /\ Len(pages) <= Len(pages')
  BY Zenon DEF ScannerIsSound, LogExtends
<1>2. /\ me.head \in 0 .. Len(pages') /\ me.base \in 0 .. Len(pages')
      /\ me.cursor \in 0 .. Len(pages')
  BY <1>1, SMTT(60) 
<1>3. me.base # 0 => pages'[me.base].complete
  BY <1>1 DEF ScannerIsSound, LogExtends
<1>4. PICK head, todo : head = me.head /\ todo = me.todo
  BY Zenon 
<1>5. HeadIsSettled(head, todo) => HeadIsSettled(head, todo)'
  BY <1>1, <1>4, HeadStaysSettled, Zenon 
<1>6. ProposalIsSound(me) => ProposalIsSound(me)'
  BY <1>1, ProposalStays, Zenon 
<1>7. 1 .. Len(pages) \subseteq 1 .. Len(pages')
  BY <1>1
<1> QED
  BY <1>2, <1>3, <1>4, <1>5, <1>6, <1>7, Zenon DEF ScannerIsSound

LEMMA ScannersStep ==
    ASSUME ScannersAreSound, LogIsSound, LogExtends, NEW s \in Scanners, NEW row,
           scanner' = [scanner EXCEPT ![s] = row], ScannerIsSound(row)'
    PROVE  ScannersAreSound'
<1>1. scanner = [t \in Scanners |-> scanner[t]]
  BY Zenon DEF ScannersAreSound
<1>2. /\ scanner' = [t \in Scanners |-> scanner'[t]] /\ scanner'[s] = row
      /\ \A t \in Scanners \ {s} : scanner'[t] = scanner[t]
  BY <1>1, Zenon 
<1>3. ASSUME NEW t \in Scanners
      PROVE  ScannerIsSound(scanner[t])'
  <2>1. CASE t = s
    BY <1>2, <2>1, Zenon 
  <2>2. CASE t # s
    <3>1. PICK me : me = scanner[t]
      BY Zenon 
    <3>2. ScannerIsSound(me)'
      BY <3>1, ScannerStays, Zenon DEF ScannersAreSound
    <3> QED
      BY <1>2, <2>2, <3>1, <3>2, Zenon 
  <2> QED
    BY <2>1, <2>2, Zenon 
<1> QED
  BY <1>2, <1>3, Zenon DEF ScannersAreSound

LEMMA ScannersStay ==
    ASSUME ScannersAreSound, LogIsSound, LogExtends, UNCHANGED scanner
    PROVE  ScannersAreSound'
<1>1. ASSUME NEW t \in Scanners
      PROVE  ScannerIsSound(scanner[t])'
  <2>1. PICK me : me = scanner[t]
    BY Zenon 
  <2>2. ScannerIsSound(me)'
    BY <2>1, ScannerStays, Zenon DEF ScannersAreSound
  <2> QED
    BY <2>1, <2>2, Zenon 
<1> QED
  BY <1>1, Zenon DEF ScannersAreSound

\* Steps that add no page.
LEMMA ImportsStay ==
    ASSUME LogIsSound, LogExtends, ImportsAreAccounted, UNCHANGED pages
    PROVE  ImportsAreAccounted'
<1> SUFFICES ASSUME NEW i \in 1 .. Len(pages)
             PROVE  Accounted(i)'
  BY Zenon DEF ImportsAreAccounted
<1>1. Accounted(i)
  BY Zenon DEF ImportsAreAccounted
<1>2. Settled(i) => Settled(i)'
  BY SettledStays, Zenon 
<1>3. \A j : Overtakes(j, i) => Overtakes(j, i)'
  BY Zenon DEF Overtakes
<1> QED
  BY <1>1, <1>2, <1>3, Zenon DEF Accounted

LEMMA IdleRow == Fields(Idle, "idle", 0, 0, {}, {}, 0, <<>>, 0, 0)
BY ZenonT(60) DEF Idle, Fields

\* A process that is in none of the stages with something at stake.
LEMMA QuietRow ==
    ASSUME LogIsSound, NEW me, IsLocal(me), me.pc \in {"idle", "down", "report", "clear"},
           me.head \in 0 .. Len(pages), me.base \in 0 .. Len(pages), me.cursor \in 0 .. Len(pages),
           me.base # 0 => pages[me.base].complete, me.cursor = 0 => me.base <= me.head
    PROVE  ScannerIsSound(me)
BY Zenon DEF ScannerIsSound

LEMMA IdleIsSound ==
    ASSUME LogIsSound
    PROVE  ScannerIsSound(Idle) /\ IsLocal(Idle)
<1>1. PICK idle : idle = Idle
  BY Zenon 
<1>2. Fields(idle, "idle", 0, 0, {}, {}, 0, <<>>, 0, 0)
  BY <1>1, IdleRow, Zenon 
<1>3. idle.pc = "idle" /\ idle.head = 0 /\ idle.base = 0 /\ idle.cursor = 0 /\ IsLocal(idle)
  BY <1>2, FieldValues
<1>4. 0 \in 0 .. Len(pages)
  BY DEF LogIsSound
<1>5. ScannerIsSound(idle)
  BY <1>3, <1>4, QuietRow
<1> QED
  BY <1>1, <1>3, <1>5, Zenon 

-----------------------------------------------------------------------------
(* Every action keeps the invariant.                                       *)

LEMMA ScannerMoves ==
    ASSUME ScanInv, NEW s \in Scanners, NEW row, scanner' = [scanner EXCEPT ![s] = row],
           UNCHANGED <<disk, pages>>, scheduled \subseteq scheduled', ScannerIsSound(row)'
    PROVE  ScanInv'
<1>1. LogIsSound /\ ScannersAreSound /\ ImportsAreAccounted /\ RootIsTyped
  BY Zenon DEF ScanInv
<1>2. LogExtends /\ LogIsSound'
  BY <1>1, LogStays, Zenon 
<1>3. ScannersAreSound'
  BY <1>1, <1>2, ScannersStep, Zenon 
<1>4. ImportsAreAccounted'
  BY <1>1, <1>2, ImportsStay, Zenon 
<1> QED
  BY <1>1, <1>2, <1>3, <1>4, Zenon DEF ScanInv, RootIsTyped

LEMMA QuietMove ==
    ASSUME ScanInv, NEW s \in Scanners, NEW row, scanner' = [scanner EXCEPT ![s] = row],
           UNCHANGED <<disk, pages>>, scheduled \subseteq scheduled', ScannerIsSound(row)
    PROVE  ScanInv'
<1>1. LogIsSound
  BY Zenon DEF ScanInv
<1>2. LogExtends
  BY <1>1, LogStays, Zenon 
<1>3. ScannerIsSound(row)'
  BY <1>1, <1>2, ScannerStays, Zenon 
<1> QED
  BY <1>3, ScannerMoves, Zenon 

LEMMA StopMoves ==
    ASSUME ScanInv, NEW s \in Scanners, Stop(s), UNCHANGED <<disk, pages>>,
           scheduled \subseteq scheduled'
    PROVE  ScanInv'
<1>1. PICK idle : idle = Idle
  BY Zenon 
<1>2. ScannerIsSound(idle)
  BY <1>1, IdleIsSound, Zenon DEF ScanInv
<1>3. scanner' = [scanner EXCEPT ![s] = idle]
  BY <1>1, Zenon DEF Stop, Set
<1> QED
  BY <1>2, <1>3, QuietMove, Zenon 

LEMMA EditStep ==
    ASSUME ScanInv, Edit
    PROVE  ScanInv'
<1>1. UNCHANGED <<pages, scheduled, scanner>>
  BY Zenon DEF Edit
<1>2. LogIsSound /\ ScannersAreSound /\ ImportsAreAccounted /\ RootIsTyped
  BY Zenon DEF ScanInv
<1>3. LogExtends /\ LogIsSound'
  BY <1>1, <1>2, LogStays, Zenon 
<1>4. RootIsTyped'
  BY <1>2, Zenon DEF Edit, RootIsTyped
<1> QED
  BY <1>1, <1>2, <1>3, <1>4, ImportsStay, ScannersStay, Zenon DEF ScanInv

LEMMA CrashStep ==
    ASSUME ScanInv, NEW s \in Scanners, Crash(s)
    PROVE  ScanInv'
<1>1. PICK idle, row : idle = Idle /\ row = WithPc(idle, "down")
  BY Zenon 
<1>2. scanner' = [scanner EXCEPT ![s] = row]
  BY <1>1, Zenon DEF Crash, Set, WithPc
<1>3. UNCHANGED <<disk, pages>> /\ scheduled \subseteq scheduled'
  BY Zenon DEF Crash, root
<1>4. LogIsSound /\ 0 \in 0 .. Len(pages)
  BY DEF ScanInv, LogIsSound
<1>5. Fields(idle, "idle", 0, 0, {}, {}, 0, <<>>, 0, 0)
  BY <1>1, IdleRow, Zenon 
<1>6. IsLocal(idle) /\ idle.head = 0 /\ idle.base = 0 /\ idle.cursor = 0
  BY <1>5, FieldValues
<1>7. Fields(row, "down", 0, 0, idle.todo, idle.done, 0, idle.epoch, idle.offset, idle.at)
  BY <1>1, <1>6, WithPcRow, Zenon 
<1>8. IsLocal(row) /\ row.pc = "down" /\ row.head = 0 /\ row.base = 0 /\ row.cursor = 0
  BY <1>7, FieldValues
<1>9. ScannerIsSound(row)
  BY <1>4, <1>8, QuietRow
<1> QED
  BY <1>2, <1>3, <1>9, QuietMove, Zenon 

LEMMA StartScanStep ==
    ASSUME ScanInv, NEW s \in Scanners, StartScan(s)
    PROVE  ScanInv'
<1>1. PICK idle, head, base, todo : /\ idle = Idle /\ head = ScanHead
                                    /\ base = LatestComplete /\ todo = PendingSchedules
  BY Zenon 
<1>2. PICK row : row = Started(idle, head, base, todo)
  BY Zenon 
<1>3. scanner' = [scanner EXCEPT ![s] = row]
  BY <1>1, <1>2, Zenon DEF StartScan, Set, Started
<1>4. UNCHANGED <<disk, pages>> /\ scheduled \subseteq scheduled'
  BY Zenon DEF StartScan, root
<1>5. LogIsSound /\ Len(pages) \in Nat
  BY DEF ScanInv, LogIsSound
<1>6. Fields(idle, "idle", 0, 0, {}, {}, 0, <<>>, 0, 0)
  BY <1>1, IdleRow, Zenon 
<1>7. IsLocal(idle) /\ idle.cursor = 0
  BY <1>6, FieldValues, Zenon 
<1>8. Fields(row, "reconcile", head, base, todo, idle.done, 0, idle.epoch, idle.offset, idle.at)
  BY <1>2, <1>7, StartedRow, Zenon 
<1>9. /\ IsLocal(row) /\ row.pc = "reconcile" /\ row.head = head /\ row.base = base
      /\ row.todo = todo /\ row.cursor = 0
  BY <1>8, FieldValues
<1>10. /\ base \in 0 .. Len(pages) /\ head = Len(pages)
       /\ base # 0 => pages[base].complete
  BY <1>1, <1>5, LatestIsGreatest, Zenon DEF CompletePages, ScanHead
<1>11. todo \subseteq 1 .. Len(pages)
  BY <1>1, Zenon DEF PendingSchedules
<1>12. HeadIsSettled(head, todo)
  BY <1>1, <1>10, Zenon DEF HeadIsSettled, Settled, PendingSchedules, ScanHeadEpoch, ScanHead
<1>13. ScannerIsSound(row)
  BY <1>5, <1>9, <1>10, <1>11, <1>12 DEF ScannerIsSound
<1> QED
  BY <1>3, <1>4, <1>13, QuietMove, Zenon 

LEMMA ReconcileStep ==
    ASSUME ScanInv, NEW s \in Scanners, Reconcile(s)
    PROVE  ScanInv'
<1>1. PICK me : me = scanner[s]
  BY Zenon 
<1>2. PICK i \in me.todo : SchedulePage(s, i, Reconciling(me, i))
  BY <1>1, Zenon DEF Reconcile, Reconciling
<1>3. UNCHANGED <<disk, pages>>
  BY Zenon DEF Reconcile, root
<1>4. CASE ~ Schedulable(i)
  <2>1. Stop(s) /\ scheduled \subseteq scheduled'
    BY <1>2, <1>4, Zenon DEF SchedulePage
  <2> QED
    BY <1>3, <2>1, StopMoves, Zenon 
<1>5. CASE Schedulable(i)
  <2>1. scheduled' = scheduled \cup {i} /\ Set(s, Reconciling(me, i))
    BY <1>2, <1>5, Zenon DEF SchedulePage
  <2>2. PICK row : row = Reconciling(me, i)
    BY Zenon 
  <2>3. scanner' = [scanner EXCEPT ![s] = row]
    BY <2>1, <2>2, Zenon DEF Set
  <2>4. ScannerIsSound(me) /\ me.pc = "reconcile" /\ LogIsSound
    BY <1>1, Zenon DEF ScanInv, ScannersAreSound, Reconcile, At
  <2>5. LogExtends
    BY <1>3, <2>1, <2>4, LogStays, Zenon 
  <2>6. ScannerIsSound(me)' /\ IsLocal(me)
    BY <2>4, <2>5, ScannerStays, Zenon DEF ScannerIsSound
  <2>7. Fields(row, "recheck", me.head, me.base, me.todo \ {i}, me.done \cup {i}, me.cursor,
               me.epoch, me.offset, i)
    BY <2>2, <2>6, ReconcilingRow, Zenon 
  <2>8. /\ IsLocal(row) /\ row.pc = "recheck" /\ row.head = me.head /\ row.base = me.base
        /\ row.todo = me.todo \ {i} /\ row.cursor = me.cursor /\ row.at = i
    BY <2>7, FieldValues
  <2>9. PICK head, todo : head = me.head /\ todo = me.todo
    BY ZenonT(60) 
  <2>10. HeadIsSettled(head, todo)' /\ Settled(i)'
    BY <2>1, <2>4, <2>6, <2>9, Zenon DEF ScannerIsSound, Settled
  <2>11. HeadIsSettled(head, todo \ {i})'
    BY <2>10, Zenon DEF HeadIsSettled
  <2>12. /\ row.head \in 0 .. Len(pages') /\ row.base \in 0 .. Len(pages')
         /\ row.cursor \in 0 .. Len(pages')
         /\ row.base # 0 => pages'[row.base].complete
         /\ row.cursor = 0 => row.base <= row.head
         /\ row.cursor = 0 /\ row.todo \subseteq 1 .. Len(pages') /\ row.at \in 1 .. Len(pages')
    BY <1>2, <2>4, <2>6, <2>8, Zenon DEF ScannerIsSound
  <2>13. ScannerIsSound(row)'
    BY <2>8, <2>9, <2>11, <2>12, Zenon DEF ScannerIsSound
  <2> QED
    BY <1>3, <2>1, <2>3, <2>13, ScannerMoves, ZenonT(60) 
<1> QED
  BY <1>4, <1>5, Zenon 

LEMMA PcMoves ==
    ASSUME ScanInv, NEW s \in Scanners, NEW me, me = scanner[s], NEW row, NEW pc1,
           row = WithPc(me, pc1)
    PROVE  /\ LogIsSound /\ RootIsTyped /\ ScannerIsSound(me) /\ IsLocal(me) /\ IsLocal(row)
           /\ row.pc = pc1 /\ row.head = me.head /\ row.base = me.base /\ row.todo = me.todo
           /\ row.cursor = me.cursor /\ row.at = me.at
<1>1. LogIsSound /\ RootIsTyped /\ ScannerIsSound(me) /\ IsLocal(me)
  BY Zenon DEF ScanInv, ScannersAreSound, ScannerIsSound
<1>2. Fields(row, pc1, me.head, me.base, me.todo, me.done, me.cursor, me.epoch, me.offset, me.at)
  BY <1>1, WithPcRow, Zenon 
<1> QED
  BY <1>1, <1>2, FieldValues

LEMMA ReconciledStep ==
    ASSUME ScanInv, NEW s \in Scanners, Reconciled(s)
    PROVE  ScanInv'
<1>1. PICK me, row : me = scanner[s] /\ row = WithPc(me, "propose")
  BY Zenon 
<1>2. scanner' = [scanner EXCEPT ![s] = row]
  BY <1>1, Zenon DEF Reconciled, Set, WithPc
<1>3. UNCHANGED <<disk, pages>> /\ scheduled \subseteq scheduled'
  BY Zenon DEF Reconciled, root
<1>4. /\ LogIsSound /\ ScannerIsSound(me) /\ IsLocal(row) /\ row.pc = "propose"
      /\ row.head = me.head /\ row.base = me.base /\ row.todo = me.todo /\ row.cursor = me.cursor
  BY <1>1, PcMoves
<1>5. me.pc = "reconcile" /\ me.todo = {}
  BY <1>1, Zenon DEF Reconciled, At
<1>6. ScannerIsSound(row)
  BY <1>4, <1>5, Zenon DEF ScannerIsSound
<1> QED
  BY <1>2, <1>3, <1>6, QuietMove, Zenon 

LEMMA ProposingIsSound ==
    ASSUME LogIsSound, NEW me, ScannerIsSound(me), me.pc = "propose", NEW epoch1 \in Epochs,
           NEW offset1 \in Nat, NEW row, row = AtOffset(Proposing(me, epoch1), offset1),
           ScanIsSound(epoch1.scan),
           me.cursor = 0 => /\ offset1 = 0
                            /\ epoch1.after = me.head \/ PagesOf(epoch1) # {}
                            /\ epoch1.scan.base <= me.base,
           me.cursor # 0 => /\ epoch1 = pages[me.cursor].epoch
                            /\ offset1 = pages[me.cursor].offset + 1
    PROVE  ScannerIsSound(row)
<1>1. PICK half : half = Proposing(me, epoch1)
  BY ZenonT(60) 
<1>2. IsLocal(me)
  BY Zenon DEF ScannerIsSound
<1>3. Fields(half, "accept", me.head, me.base, me.todo, me.done, me.cursor, epoch1, me.offset, me.at)
  BY <1>1, <1>2, ProposingRow, Zenon 
<1>4. /\ IsLocal(half) /\ half.pc = "accept" /\ half.head = me.head /\ half.base = me.base
      /\ half.todo = me.todo /\ half.cursor = me.cursor /\ half.epoch = epoch1
  BY <1>3, FieldValues
<1>5. row = AtOffset(half, offset1)
  BY <1>1, Zenon 
<1>6. Fields(row, half.pc, half.head, half.base, half.todo, half.done, half.cursor, half.epoch,
             offset1, half.at)
  BY <1>4, <1>5, AtOffsetRow, Zenon 
<1>7. /\ IsLocal(row) /\ row.pc = half.pc /\ row.head = half.head /\ row.base = half.base
      /\ row.todo = half.todo /\ row.cursor = half.cursor /\ row.epoch = half.epoch
      /\ row.offset = offset1
  BY <1>6, FieldValues, SMTT(60) 
<1>8. /\ row.pc = "accept" /\ row.head = me.head /\ row.base = me.base
      /\ row.todo = me.todo /\ row.cursor = me.cursor /\ row.epoch = epoch1
  BY <1>4, <1>7, Zenon 
<1>9. ProposalIsSound(row)
  BY <1>7, <1>8, Zenon DEF ProposalIsSound
<1> QED
  BY <1>7, <1>8, <1>9, Zenon DEF ScannerIsSound

LEMMA ProposeStep ==
    ASSUME ScanInv, NEW s \in Scanners, Propose(s)
    PROVE  ScanInv'
<1>1. PICK me : me = scanner[s]
  BY Zenon 
<1>2. PICK scan : scan = ScanOf(me.head, me.base)
  BY Zenon 
<1>3. PICK epoch : epoch = EpochOf(me.head, scan)
  BY Zenon 
<1>4. /\ me.pc = "propose"
      /\ Set(s, IF Cardinality(scan.changes) > ScanBound THEN WithPc(me, "report")
                ELSE IF me.cursor # 0
                THEN IF pages[me.cursor].epoch = epoch
                     THEN AtOffset(Proposing(me, epoch), pages[me.cursor].offset + 1)
                     ELSE Idle
                ELSE IF me.base # 0 /\ me.base = me.head /\ epoch = pages[me.base].epoch
                THEN WithPc(me, "clear")
                ELSE AtOffset(Proposing(me, epoch), 0))
      /\ UNCHANGED <<root, pages, scheduled, jobs, refused>>
  BY <1>1, <1>2, <1>3, ZenonT(60) DEF Propose, At, WithPc, AtOffset, Proposing
<1>5. UNCHANGED <<disk, pages>> /\ scheduled \subseteq scheduled'
  BY <1>4, Zenon DEF root
<1>6. LogIsSound /\ RootIsTyped /\ ScannerIsSound(me)
  BY <1>1, Zenon DEF ScanInv, ScannersAreSound
<1>7. /\ me.head \in 0 .. Len(pages) /\ me.base \in 0 .. Len(pages)
      /\ me.cursor \in 0 .. Len(pages)
      /\ me.base # 0 => pages[me.base].complete
      /\ me.cursor = 0 => me.base <= me.head
  BY <1>6, Zenon DEF ScannerIsSound
<1>8. ScanIsSound(scan) /\ scan.base <= me.base
  BY <1>2, <1>6, <1>7, ProposedScanIsSound, Zenon 
<1>9. epoch \in Epochs /\ epoch.scan = scan /\ (epoch.after = me.head \/ PagesOf(epoch) # {})
  BY <1>3, <1>6, <1>7, <1>8, ProposedEpochIsSound, Zenon 
<1>10. ASSUME NEW pc1 \in {"report", "clear"}, Set(s, WithPc(me, pc1))
       PROVE  ScanInv'
  <2>1. PICK row : row = WithPc(me, pc1)
    BY Zenon 
  <2>2. scanner' = [scanner EXCEPT ![s] = row]
    BY <1>10, <2>1, Zenon DEF Set
  <2>3. /\ IsLocal(row) /\ row.pc = pc1
        /\ row.head = me.head /\ row.base = me.base /\ row.cursor = me.cursor
    BY <1>1, <2>1, PcMoves
  <2>4. ScannerIsSound(row)
    BY <1>6, <1>7, <2>3, QuietRow, Zenon 
  <2> QED
    BY <1>5, <2>2, <2>4, QuietMove, Zenon 
<1>11. ASSUME NEW offset \in Nat, Set(s, AtOffset(Proposing(me, epoch), offset)),
              me.cursor = 0 => offset = 0,
              me.cursor # 0 => /\ epoch = pages[me.cursor].epoch
                               /\ offset = pages[me.cursor].offset + 1
       PROVE  ScanInv'
  <2>1. PICK row : row = AtOffset(Proposing(me, epoch), offset)
    BY Zenon 
  <2>2. scanner' = [scanner EXCEPT ![s] = row]
    BY <1>11, <2>1, Zenon DEF Set
  <2>3. ScannerIsSound(row)
    BY <1>4, <1>6, <1>8, <1>9, <1>11, <2>1, ProposingIsSound, Zenon 
  <2> QED
    BY <1>5, <2>2, <2>3, QuietMove, ZenonT(60) 
<1>12. CASE Cardinality(scan.changes) > ScanBound
  BY <1>4, <1>10, <1>12, Zenon 
<1>13. CASE ~ (Cardinality(scan.changes) > ScanBound) /\ me.cursor # 0
  <2>1. CASE pages[me.cursor].epoch # epoch
    <3>1. Stop(s)
      BY <1>4, <1>13, <2>1, ZenonT(60) DEF Stop
    <3> QED
      BY <1>5, <3>1, StopMoves, Zenon 
  <2>2. CASE pages[me.cursor].epoch = epoch
    <3>1. me.cursor \in 1 .. Len(pages)
      BY <1>6, <1>7, <1>13 DEF LogIsSound
    <3>2. PICK offset \in Nat : offset = pages[me.cursor].offset + 1
      BY <1>6, <3>1, PageParts, SMTT(60) 
    <3>3. Set(s, AtOffset(Proposing(me, epoch), offset))
      BY <1>4, <1>13, <2>2, <3>2, Zenon 
    <3> QED
      BY <1>11, <1>13, <2>2, <3>2, <3>3, Zenon 
  <2> QED
    BY <2>1, <2>2, Zenon 
<1>14. CASE ~ (Cardinality(scan.changes) > ScanBound) /\ me.cursor = 0
  <2>1. CASE me.base # 0 /\ me.base = me.head /\ epoch = pages[me.base].epoch
    BY <1>4, <1>10, <1>14, <2>1, Zenon 
  <2>2. CASE ~ (me.base # 0 /\ me.base = me.head /\ epoch = pages[me.base].epoch)
    <3>1. Set(s, AtOffset(Proposing(me, epoch), 0))
      BY <1>4, <1>14, <2>2, Zenon 
    <3> QED
      BY <1>11, <1>14, <3>1, SMTT(60) 
  <2> QED
    BY <2>1, <2>2, Zenon 
<1> QED
  BY <1>12, <1>13, <1>14, Zenon 

\* A scan that supersedes an unfinished one overtakes the pages of it that its
\* cycle did not see, and is of the same baseline.
LEMMA ImportsGrow ==
    ASSUME LogIsSound, LogExtends, ImportsAreAccounted, NEW row \in PageRow,
           NEW n \in Nat, n = Len(pages), Len(pages') = n + 1, pages'[n + 1] = row,
           NEW head \in 0 .. n, NEW base \in 0 .. n, base <= head, HeadIsSettled(head, {}),
           \/ Continuing(row)
           \/ /\ Opening(row) /\ row.epoch.after = head /\ row.epoch.scan.base <= base
              /\ n # 0 => head # 0 /\ pages[head].epoch = pages[n].epoch
    PROVE  ImportsAreAccounted'
<1>1. \A i \in 1 .. n : pages'[i] = pages[i]
  BY Zenon DEF LogExtends
<1>2. Accounted(n + 1)'
  BY Zenon DEF Accounted
<1>3. ASSUME NEW i \in 1 .. n
      PROVE  Accounted(i)'
  <2>1. Accounted(i)
    BY Zenon DEF ImportsAreAccounted
  <2>2. CASE Settled(i)
    BY <2>2, SettledStays, Zenon DEF Accounted
  <2>3. CASE \E j \in i + 1 .. n : Overtakes(j, i)
    <3>1. PICK j \in i + 1 .. n : Overtakes(j, i)
      BY <2>3, Zenon 
    <3>2. j \in 1 .. n /\ j - 1 \in 1 .. n /\ j \in i + 1 .. n + 1
      OBVIOUS
    <3>3. Overtakes(j, i)'
      BY <1>1, <3>1, <3>2, Zenon DEF Overtakes
    <3> QED
      BY <3>2, <3>3, Zenon DEF Accounted
  <2>4. CASE pages[i].epoch = pages[n].epoch /\ Continuing(row)
    BY <1>1, <2>4, Zenon DEF Accounted, Continuing
  <2>5. CASE pages[i].epoch = pages[n].epoch /\ ~ Continuing(row) /\ ~ Settled(i)
    <3>1. /\ Opening(row) /\ row.epoch.after = head /\ row.epoch.scan.base <= base
          /\ head # 0 /\ pages[head].epoch = pages[n].epoch
      BY <2>5, SMTT(60) 
    <3>2. ~ (i <= head)
      BY <2>5, <3>1 DEF HeadIsSettled
    <3>3. row.epoch # pages[i].epoch
      BY <3>1, Zenon DEF Opening, PagesOf
    <3>4. PICK latest \in 0 .. n : /\ latest = LatestComplete
                                   /\ latest # 0 => latest \in CompletePages
                                   /\ \A k \in CompletePages : k <= latest
      BY LatestIsGreatest, Zenon 
    <3>5. row.epoch.scan.base = latest /\ latest < n /\ n \in 1 .. n
      BY <3>1, <3>2, <3>4, SMTT(60) DEF Opening
    <3>6. PICK b \in 0 .. n : b = pages[n].epoch.scan.base
      BY <3>5, Zenon DEF LogIsSound, PageIsSound, ScanIsSound
    <3>7. b # 0 => b \in CompletePages
      BY <3>5, <3>6, SMTT(60) DEF LogIsSound, PageIsSound, ScanIsSound, CompletePages
    <3>8. latest # 0 => latest <= b
      BY <3>4, <3>5, <3>6, SMTT(60) DEF LogIsSound, PageIsSound, CompletePages
    <3>9. b = latest
      BY <3>4, <3>7, <3>8, SMTT(60) 
    <3>10. PICK j \in i + 1 .. n + 1 : j = n + 1 /\ j - 1 = n
      OBVIOUS
    <3>11. pages'[j] = row /\ pages'[j - 1] = pages[n] /\ pages'[i] = pages[i]
      BY <1>1, <3>5, <3>10, Zenon 
    <3>12. row.epoch.after < i /\ pages[i].epoch.scan.base = row.epoch.scan.base
      BY <2>5, <3>1, <3>2, <3>5, <3>6, <3>9, SMTT(60) 
    <3>13. Overtakes(j, i)'
      BY <2>5, <3>3, <3>11, <3>12, Zenon DEF Overtakes
    <3> QED
      BY <3>10, <3>13, Zenon DEF Accounted
  <2> QED
    BY <2>1, <2>2, <2>3, <2>4, <2>5, Zenon DEF Accounted
<1> QED
  BY <1>2, <1>3 DEF ImportsAreAccounted

LEMMA AdvancingIsSound ==
    ASSUME NEW me, ScannerIsSound(me)', Len(pages') \in Nat, NEW i \in 1 .. Len(pages'),
           NEW row, row = Advancing(me, i)
    PROVE  ScannerIsSound(row)'
<1>1. IsLocal(me)
  BY Zenon DEF ScannerIsSound
<1>2. Fields(row, "propose", i, me.base, me.todo, me.done, i, me.epoch, me.offset, me.at)
  BY <1>1, AdvancingRow, Zenon 
<1>3. IsLocal(row) /\ row.pc = "propose" /\ row.head = i /\ row.base = me.base /\ row.cursor = i
  BY <1>2, FieldValues, SMTT(60) 
<1> QED
  BY <1>3, SMTT(60) DEF ScannerIsSound

LEMMA NotingIsSound ==
    ASSUME NEW me, ScannerIsSound(me)', Len(pages') \in Nat, NEW i \in 1 .. Len(pages'),
           NEW row, row = Noting(me, i)
    PROVE  ScannerIsSound(row)'
<1>1. IsLocal(me)
  BY Zenon DEF ScannerIsSound
<1>2. Fields(row, "schedule", me.head, me.base, me.todo, me.done, me.cursor, me.epoch,
             me.offset, i)
  BY <1>1, NotingRow, Zenon 
<1>3. /\ IsLocal(row) /\ row.pc = "schedule" /\ row.head = me.head /\ row.base = me.base
      /\ row.cursor = me.cursor /\ row.at = i
  BY <1>2, FieldValues
<1> QED
  BY <1>3, Zenon DEF ScannerIsSound

LEMMA IdleStaysSound ==
    ASSUME LogIsSound, LogExtends
    PROVE  ScannerIsSound(Idle)'
<1>1. PICK idle : idle = Idle
  BY Zenon 
<1>2. ScannerIsSound(idle)'
  BY <1>1, IdleIsSound, ScannerStays, Zenon 
<1> QED
  BY <1>1, <1>2, Zenon 

\* Where a process goes from an accepted page.
LEMMA AdvanceIsSound ==
    ASSUME LogIsSound, LogExtends, NEW me, ScannerIsSound(me), NEW i \in 1 .. Len(pages'),
           NEW complete, NEW row, row = Advance(me, i, complete)
    PROVE  ScannerIsSound(row)'
<1>1. row = IF complete THEN Idle ELSE Advancing(me, i)
  BY ZenonT(60) DEF Advance, Advancing
<1>2. ScannerIsSound(me)' /\ Len(pages') \in Nat
  BY ScannerStays, Zenon DEF LogExtends
<1>3. CASE complete
  BY <1>1, <1>3, IdleStaysSound, Zenon 
<1>4. CASE ~ complete
  <2>1. row = Advancing(me, i)
    BY <1>1, <1>4, Zenon 
  <2> QED
    BY <1>2, <2>1, AdvancingIsSound, Zenon 
<1> QED
  BY <1>3, <1>4, Zenon 

LEMMA AfterAcceptIsSound ==
    ASSUME LogIsSound, LogExtends, NEW me, ScannerIsSound(me), NEW i \in 1 .. Len(pages'),
           NEW changes, NEW complete, NEW row, row = AfterAccept(me, i, changes, complete)
    PROVE  ScannerIsSound(row)'
<1>1. row = Noting(me, i) \/ row = Advance(me, i, complete)
  BY ZenonT(60) DEF AfterAccept, Noting
<1>2. ScannerIsSound(me)' /\ Len(pages') \in Nat
  BY ScannerStays, Zenon DEF LogExtends
<1> QED
  BY <1>1, <1>2, NotingIsSound, AdvanceIsSound, Zenon 

LEMMA AcceptStep ==
    ASSUME ScanInv, NEW s \in Scanners, Accept(s)
    PROVE  ScanInv'
<1>1. PICK me : me = scanner[s]
  BY Zenon 
<1>2. PICK changes, complete :
         /\ changes = Selected(me.epoch.scan.changes, me.offset)
         /\ complete = EndsScan(me.epoch.scan.changes, me.offset)
  BY Zenon 
<1>3. /\ me.pc = "accept" /\ Acceptable(me)
      /\ \/ /\ \E i \in AcceptedAs(me.epoch, me.offset) :
                  Set(s, AfterAccept(me, i, changes, complete))
            /\ UNCHANGED pages
         \/ /\ AcceptedAs(me.epoch, me.offset) = {}
            /\ pages' = Append(pages, [epoch |-> me.epoch, offset |-> me.offset,
                                       changes |-> changes, complete |-> complete])
            /\ Set(s, AfterAccept(me, ScanHead + 1, changes, complete))
      /\ UNCHANGED <<disk, scheduled>>
  BY <1>1, <1>2, Zenon DEF Accept, At, root
<1>4. RootIsTyped /\ LogIsSound /\ ImportsAreAccounted /\ ScannersAreSound /\ ScannerIsSound(me)
  BY <1>1, Zenon DEF ScanInv, ScannersAreSound
<1>5. ProposalIsSound(me)
  BY <1>3, <1>4, Zenon DEF ScannerIsSound
<1>6. CASE UNCHANGED pages /\ \E i \in AcceptedAs(me.epoch, me.offset) :
                                 Set(s, AfterAccept(me, i, changes, complete))
  <2>1. PICK i \in AcceptedAs(me.epoch, me.offset) : Set(s, AfterAccept(me, i, changes, complete))
    BY <1>6, Zenon 
  <2>2. i \in 1 .. Len(pages')
    BY <1>6, Zenon DEF AcceptedAs
  <2>3. PICK row : row = AfterAccept(me, i, changes, complete)
    BY Zenon 
  <2>4. scanner' = [scanner EXCEPT ![s] = row]
    BY <2>1, <2>3, ZenonT(60) DEF Set
  <2>5. LogExtends
    BY <1>3, <1>4, <1>6, LogStays, Zenon 
  <2>6. ScannerIsSound(row)'
    BY <1>4, <2>2, <2>3, <2>5, AfterAcceptIsSound, Zenon 
  <2> QED
    BY <1>3, <1>6, <2>4, <2>6, ScannerMoves, Zenon 
<1>7. CASE /\ AcceptedAs(me.epoch, me.offset) = {}
           /\ pages' = Append(pages, [epoch |-> me.epoch, offset |-> me.offset,
                                      changes |-> changes, complete |-> complete])
           /\ Set(s, AfterAccept(me, ScanHead + 1, changes, complete))
  <2>1. PICK row : row = [epoch |-> me.epoch, offset |-> me.offset,
                          changes |-> changes, complete |-> complete]
    BY Zenon 
  <2>2. PICK n \in Nat : n = Len(pages)
    BY <1>4 DEF LogIsSound
  <2>3. /\ me.epoch \in Epochs /\ me.offset \in Nat /\ changes \in SUBSET Changes
        /\ complete \in BOOLEAN /\ ScanIsSound(me.epoch.scan)
    <3>1. me.epoch \in Epochs /\ me.offset \in Nat /\ ScanIsSound(me.epoch.scan)
      BY <1>5, Zenon DEF ProposalIsSound
    <3>2. me.epoch.scan.changes \in SUBSET Changes
      BY <3>1, Zenon DEF ScanIsSound, Scans
    <3> QED
      BY <1>2, <3>1, <3>2, SMTT(60) DEF Selected, EndsScan
  <2>4. row \in PageRow /\ row.epoch = me.epoch /\ row.offset = me.offset
        /\ row.changes = changes /\ row.complete = complete
    BY <2>1, <2>3, Zenon DEF PageRow
  <2>5. pages' = Append(pages, row)
    BY <1>7, <2>1, Zenon 
  <2>6. me.cursor = 0 \/ me.cursor # 0
    OBVIOUS
  <2>7. /\ me.cursor = 0 => Opens(me.epoch)
        /\ me.cursor # 0 => Continues(me.epoch, me.cursor)
    BY <1>3, <1>7, Zenon DEF Acceptable
  <2>8. me.cursor = 0 =>
           /\ Opening(row) /\ row.epoch.after = me.head /\ row.epoch.scan.base <= me.base
           /\ n # 0 => me.head # 0 /\ pages[me.head].epoch = pages[n].epoch
    <3>1. ASSUME me.cursor = 0
          PROVE  /\ me.offset = 0 /\ me.epoch.after = me.head /\ me.epoch.scan.base <= me.base
                 /\ me.epoch.scan.base = LatestComplete /\ PagesOf(me.epoch) = {}
      BY <1>5, <2>7, <3>1, Zenon DEF ProposalIsSound, Opens
    <3>2. ASSUME me.cursor = 0, n # 0
          PROVE  me.head # 0 /\ pages[me.head].epoch = pages[n].epoch
      BY <2>2, <2>7, <3>1, <3>2, Zenon DEF Opens, ScanHead, ScanHeadEpoch
    <3> QED
      BY <2>4, <3>1, <3>2, Zenon DEF Opening
  <2>9. me.cursor # 0 => Continuing(row)
    BY <1>5, <2>2, <2>4, <2>7, Zenon DEF ProposalIsSound, Continues, Continuing, ScanHead, ScanHeadEpoch
  <2>10. Opening(row) \/ Continuing(row)
    BY <2>6, <2>8, <2>9, Zenon 
  <2>11. LogExtends /\ LogIsSound'
    BY <1>2, <1>3, <1>4, <2>3, <2>4, <2>5, <2>10, LogGrows, ZenonT(60) 
  <2>12. Len(pages') = n + 1 /\ pages'[n + 1] = row
    BY <1>4, <2>2, <2>4, <2>5 DEF LogIsSound
  <2>13. PICK local : local = AfterAccept(me, n + 1, changes, complete)
    BY Zenon 
  <2>14. scanner' = [scanner EXCEPT ![s] = local]
    BY <1>7, <2>2, <2>13, ZenonT(60) DEF Set, ScanHead
  <2>15. n + 1 \in 1 .. Len(pages')
    BY <2>2, <2>12, SMTT(60) 
  <2>16. ScannerIsSound(local)'
    BY <1>4, <2>11, <2>13, <2>15, AfterAcceptIsSound, Zenon 
  <2>17. ScannersAreSound'
    BY <1>4, <2>11, <2>14, <2>16, ScannersStep, Zenon 
  <2>18. ImportsAreAccounted'
    <3>1. CASE me.cursor = 0
      <4>1. PICK head, base : head = me.head /\ base = me.base
        BY ZenonT(60) 
      <4>2. head \in 0 .. n /\ base \in 0 .. n /\ base <= head /\ HeadIsSettled(head, {})
        BY <1>3, <1>4, <2>2, <3>1, <4>1, ZenonT(60) DEF ScannerIsSound
      <4> QED
        BY <1>4, <2>2, <2>4, <2>8, <2>11, <2>12, <3>1, <4>1, <4>2, ImportsGrow, Zenon 
    <3>2. CASE me.cursor # 0
      <4>1. 0 \in 0 .. n /\ HeadIsSettled(0, {})
        BY <2>2 DEF HeadIsSettled
      <4> QED
        BY <1>4, <2>2, <2>4, <2>9, <2>11, <2>12, <3>2, <4>1, ImportsGrow, SMTT(60) 
    <3> QED
      BY <3>1, <3>2, Zenon 
  <2>19. RootIsTyped'
    BY <1>3, <1>4, Zenon DEF RootIsTyped
  <2> QED
    BY <2>11, <2>17, <2>18, <2>19, Zenon DEF ScanInv
<1> QED
  BY <1>3, <1>6, <1>7, Zenon 

LEMMA ScheduleStep ==
    ASSUME ScanInv, NEW s \in Scanners, Schedule(s)
    PROVE  ScanInv'
<1>1. PICK me, row : me = scanner[s] /\ row = WithPc(me, "check")
  BY Zenon 
<1>2. SchedulePage(s, me.at, row) /\ UNCHANGED <<disk, pages>> /\ me.pc = "schedule"
  BY <1>1, Zenon DEF Schedule, WithPc, root, At
<1>3. scheduled \subseteq scheduled' /\ (Stop(s) \/ Set(s, row))
  BY <1>2, Zenon DEF SchedulePage
<1>4. CASE Stop(s)
  BY <1>2, <1>3, <1>4, StopMoves, Zenon 
<1>5. CASE Set(s, row)
  <2>1. scanner' = [scanner EXCEPT ![s] = row]
    BY <1>5, Zenon DEF Set
  <2>2. /\ LogIsSound /\ ScannerIsSound(me) /\ IsLocal(row) /\ row.pc = "check"
        /\ row.head = me.head /\ row.base = me.base /\ row.cursor = me.cursor /\ row.at = me.at
    BY <1>1, PcMoves
  <2>3. ScannerIsSound(row)
    BY <1>2, <2>2, Zenon DEF ScannerIsSound
  <2> QED
    BY <1>2, <1>3, <2>1, <2>3, QuietMove, ZenonT(60) 
<1> QED
  BY <1>3, <1>4, <1>5, Zenon 

LEMMA CheckStep ==
    ASSUME ScanInv, NEW s \in Scanners, Check(s)
    PROVE  ScanInv'
<1>1. PICK me : me = scanner[s]
  BY Zenon 
<1>2. /\ \/ me.pc = "check" /\ Set(s, Advance(me, me.at, pages[me.at].complete))
         \/ me.pc = "recheck" /\ Set(s, WithPc(me, "reconcile"))
         \/ Stop(s)
      /\ UNCHANGED <<disk, pages, scheduled>>
  BY <1>1, ZenonT(60) DEF Check, At, WithPc, Stop, Set, root
<1>3. UNCHANGED <<disk, pages>> /\ scheduled \subseteq scheduled'
  BY <1>2, Zenon 
<1>4. CASE Stop(s)
  BY <1>3, <1>4, StopMoves, Zenon 
<1>5. CASE me.pc = "check" /\ Set(s, Advance(me, me.at, pages[me.at].complete))
  <2>1. PICK i, complete : i = me.at /\ complete = pages[me.at].complete
    BY Zenon 
  <2>2. PICK row : row = Advance(me, i, complete)
    BY Zenon 
  <2>3. scanner' = [scanner EXCEPT ![s] = row]
    BY <1>5, <2>1, <2>2, Zenon DEF Set
  <2>4. LogIsSound /\ ScannerIsSound(me)
    BY <1>1, Zenon DEF ScanInv, ScannersAreSound
  <2>5. LogExtends /\ i \in 1 .. Len(pages')
    BY <1>3, <1>5, <2>1, <2>4, LogStays, Zenon DEF ScannerIsSound
  <2>6. ScannerIsSound(row)'
    BY <2>2, <2>4, <2>5, AdvanceIsSound, Zenon 
  <2> QED
    BY <1>3, <2>3, <2>6, ScannerMoves, ZenonT(60) 
<1>6. CASE me.pc = "recheck" /\ Set(s, WithPc(me, "reconcile"))
  <2>1. PICK row : row = WithPc(me, "reconcile")
    BY Zenon 
  <2>2. scanner' = [scanner EXCEPT ![s] = row]
    BY <1>6, <2>1, Zenon DEF Set
  <2>3. /\ LogIsSound /\ ScannerIsSound(me) /\ IsLocal(row) /\ row.pc = "reconcile"
        /\ row.head = me.head /\ row.base = me.base /\ row.todo = me.todo /\ row.cursor = me.cursor
    BY <1>1, <2>1, PcMoves
  <2>4. ScannerIsSound(row)
    BY <1>6, <2>3, Zenon DEF ScannerIsSound
  <2> QED
    BY <1>3, <2>2, <2>4, QuietMove, ZenonT(60) 
<1> QED
  BY <1>2, <1>4, <1>5, <1>6, Zenon 

LEMMA StoppingStep ==
    ASSUME ScanInv, NEW s \in Scanners,
           ReportBoundRefusal(s) \/ ClearBoundRefusal(s) \/ AcceptRefused(s)
    PROVE  ScanInv'
<1>1. Stop(s) /\ UNCHANGED <<disk, pages>> /\ scheduled \subseteq scheduled'
  BY Zenon DEF ReportBoundRefusal, ClearBoundRefusal, AcceptRefused, root
<1> QED
  BY <1>1, StopMoves, Zenon 

LEMMA OutsideStep ==
    ASSUME ScanInv, UNCHANGED <<disk, pages, scheduled, scanner>>
    PROVE  ScanInv'
<1>1. LogIsSound /\ ScannersAreSound /\ ImportsAreAccounted /\ RootIsTyped
  BY Zenon DEF ScanInv
<1>2. LogExtends /\ LogIsSound'
  BY <1>1, LogStays, Zenon 
<1> QED
  BY <1>1, <1>2, ImportsStay, ScannersStay, Zenon DEF ScanInv, RootIsTyped

LEMMA ScanInit ==
    ASSUME Init
    PROVE  ScanInv
<1>1. pages = <<>> /\ scanner = [s \in Scanners |-> Idle]
  BY Zenon DEF Init
<1>2. LogIsSound
  BY <1>1 DEF LogIsSound
<1>3. ImportsAreAccounted
  BY <1>1 DEF ImportsAreAccounted
<1>4. PICK idle : idle = Idle
  BY Zenon 
<1>5. ScannerIsSound(idle)
  BY <1>2, <1>4, IdleIsSound, Zenon 
<1>6. scanner = [s \in Scanners |-> idle]
  BY <1>1, <1>4, Zenon 
<1>7. ScannersAreSound
  BY <1>5, <1>6, Zenon DEF ScannersAreSound
<1> QED
  BY <1>2, <1>3, <1>7, Zenon DEF ScanInv, RootIsTyped, Init

LEMMA ScanStepKeeps ==
    ASSUME ScanInv, [Next]_vars
    PROVE  ScanInv'
<1>1. CASE Edit
  BY <1>1, EditStep, Zenon 
<1>2. ASSUME NEW s \in Scanners, ScanStep(s) \/ Crash(s)
      PROVE  ScanInv'
  BY <1>2, CrashStep, StartScanStep, ReconcileStep, ReconciledStep, ProposeStep, StoppingStep,
     AcceptStep, ScheduleStep, CheckStep, Zenon DEF ScanStep
<1>3. ASSUME NEW i \in 1 .. Len(pages), RunJob(i) \/ ExecuteDelete(i)
      PROVE  ScanInv'
  <2>1. UNCHANGED <<disk, pages, scheduled, scanner>>
    BY <1>3, Zenon DEF RunJob, ExecuteDelete, root
  <2> QED
    BY <2>1, OutsideStep, Zenon 
<1>4. CASE UNCHANGED vars
  <2>1. UNCHANGED <<disk, pages, scheduled, scanner>>
    BY <1>4, Zenon DEF vars
  <2> QED
    BY <2>1, OutsideStep, Zenon 
<1> QED
  BY <1>1, <1>2, <1>3, <1>4, Zenon DEF Next, ScanNext

\* The inductive invariant of the scan cycle: every accepted page carries its
\* part of a scan that is sound against its baseline, right after the page
\* before it; every import is scheduled, pending at the head or overtaken; and
\* every scan process, wherever it stopped, holds a cursor and a proposal that
\* agree with the log.
THEOREM ScanInvariant == Spec => []ScanInv
BY ScanInit, ScanStepKeeps, PTL DEF Spec

LEMMA PagesAreContiguous ==
    ASSUME LogIsSound
    PROVE  ScansAreContiguous
<1> SUFFICES ASSUME NEW i \in 1 .. Len(pages)
             PROVE  IF pages[i].offset = 0
                    THEN \A j \in 1 .. i - 1 : pages[j].epoch # pages[i].epoch
                    ELSE /\ i > 1
                         /\ pages[i - 1].epoch = pages[i].epoch
                         /\ pages[i - 1].offset = pages[i].offset - 1
                         /\ ~ pages[i - 1].complete
  BY ZenonT(60) DEF ScansAreContiguous
<1>1. InOneRun(i) /\ pages[i].offset \in Nat /\ i \in Nat
  BY PageParts, Zenon DEF LogIsSound, PageIsSound
<1>2. CASE pages[i].offset = 0
  BY <1>1, <1>2, Zenon DEF InOneRun
<1>3. CASE pages[i].offset # 0
  <2>1. 1 \in 0 .. pages[i].offset /\ i > 1
    BY <1>1, <1>3, SMTT(60) DEF InOneRun
  <2> QED
    BY <1>1, <1>3, <2>1, Zenon DEF InOneRun
<1> QED
  BY <1>2, <1>3, Zenon 

LEMMA CompleteScansAreWhole ==
    ASSUME LogIsSound
    PROVE  CompleteScansLoseNothing
<1> SUFFICES ASSUME NEW i \in CompletePages
             PROVE  /\ Entries(i) = pages[i].epoch.scan.changes
                    /\ TakesUp(Entries(i), Entries(pages[i].epoch.scan.base))
  BY Zenon DEF CompleteScansLoseNothing, TakesUp
<1>1. Entries(i) = pages[i].epoch.scan.changes
  BY EntriesOfComplete, Zenon 
<1>2. ScanIsSound(pages[i].epoch.scan)
  BY Zenon DEF CompletePages, LogIsSound, PageIsSound
<1> QED
  BY <1>1, <1>2, Zenon DEF ScanIsSound

\* The log of accepted pages is whole scans one after the other, and a complete
\* scan lost nothing of its baseline, for any number of scan processes, files,
\* edits and crashes (context_control_accept_file_delete_change_page).
THEOREM ScansAreWhole == Spec => []AcceptedScansAreWhole
<1>1. ScanInv => AcceptedScansAreWhole
  BY PagesAreContiguous, CompleteScansAreWhole, Zenon DEF ScanInv, AcceptedScansAreWhole
<1> QED
  BY <1>1, ScanInvariant, PTL

\* No import of an accepted page is lost to a crash or to a second process
\* between acceptance and scheduling (scan_file_source and
\* context_control_read_pending_file_change_schedules).
THEOREM ImportsAreScheduled == Spec => []SupersededScansAreScheduled
<1>1. ScanInv => SupersededScansAreScheduled
  BY Zenon DEF ScanInv, ImportsAreAccounted, Accounted, Settled, SupersededScansAreScheduled,
     ScanHeadEpoch, ScanHead
<1> QED
  BY <1>1, ScanInvariant, PTL

LEMMA DeletesAreOfTheHead ==
    ASSUME ScanInv, [Next]_vars
    PROVE  \A p \in tombstoned' \ tombstoned :
              /\ pages[ScanHead].complete
              /\ \A c \in Upserts(Entries(ScanHead)) : c.path # p
<1> SUFFICES ASSUME NEW p \in tombstoned' \ tombstoned
             PROVE  /\ pages[ScanHead].complete
                    /\ \A c \in Upserts(Entries(ScanHead)) : c.path # p
  OBVIOUS
<1>1. ASSUME NEW s \in Scanners, ScanStep(s) \/ Crash(s)
      PROVE  UNCHANGED tombstoned
  BY <1>1, ZenonT(60) DEF ScanStep, Crash, StartScan, Reconcile, Reconciled, Propose, ReportBoundRefusal,
     ClearBoundRefusal, Accept, AcceptRefused, Schedule, Check, jobs
<1>2. PICK i \in 1 .. Len(pages) : ExecuteDelete(i)
  BY <1>1, Zenon DEF Next, ScanNext, Edit, RunJob, jobs, vars
<1>3. PICK d \in Deletes(pages[i].changes) : p = d.path
  BY <1>2, Zenon DEF ExecuteDelete
<1>4. PICK n \in 1 .. Len(pages) : /\ n = ScanHead /\ pages[n].complete
                                   /\ pages[i].epoch = pages[n].epoch
  BY <1>2 DEF ExecuteDelete, Executable, ScanHead, ScanHeadEpoch, ScanInv, LogIsSound
<1>5. LogIsSound /\ n \in CompletePages
  BY <1>4, Zenon DEF ScanInv, CompletePages
<1>6. PICK entries : entries = Entries(n)
  BY ZenonT(60) 
<1>7. OnePerPath(entries)
  BY <1>4, <1>5, <1>6, BaselineEntries DEF LogIsSound
<1>8. d \in entries /\ d.kind = "delete"
  <2>1. n # 0 /\ i \in PagesOf(pages[n].epoch)
    BY <1>4 DEF PagesOf
  <2> QED
    BY <1>3, <1>6, <2>1, Zenon DEF Entries, Deletes
<1>9. \A c \in Upserts(entries) : c.path # p
  BY <1>3, <1>7, <1>8, Zenon DEF Upserts, OnePerPath
<1> QED
  BY <1>4, <1>6, <1>9, Zenon 

\* A delete is executed only for the complete scan that is the durable head,
\* and that scan does not hold the file: no old delete is executed after the
\* file came back (context_control_execute_file_delete_observation).
THEOREM DeletesAreCurrent == Spec => WithdrawnPathsAreGone
<1>1. ScanInv /\ [Next]_vars => [\A p \in tombstoned' \ tombstoned :
                                    /\ pages[ScanHead].complete
                                    /\ \A c \in Upserts(Entries(ScanHead)) : c.path # p]_vars
  BY DeletesAreOfTheHead, Zenon 
<1> QED
  BY <1>1, ScanInvariant, PTL DEF Spec, WithdrawnPathsAreGone

-----------------------------------------------------------------------------
(* Confirmations of the control page.                                      *)

\* Rows and tokens have the fields they are made with.
TabShape ==
    tab = [b \in Tabs |-> [pc |-> tab[b].pc, token |-> tab[b].token,
                           shown |-> tab[b].shown]]
ArticleShape ==
    /\ uiArticle = [policy |-> uiArticle.policy, version |-> uiArticle.version,
                    epoch |-> uiArticle.epoch, live |-> uiArticle.live]
    /\ uiArticle.epoch \in Nat
IsImport(t) ==
    t = [kind |-> "file_import", actor |-> t.actor, issued |-> t.issued,
         payload |-> <<t.payload[1]>>]

\* A token in some tab: an import token names one file; a policy token names
\* an epoch that is past, or it was shown the policy the Article still has.
TokenStands(b) ==
    LET t == tab[b].token
    IN  /\ t.kind = "file_import" => IsImport(t)
        /\ t.kind = "article_policy" =>
             /\ t.payload[2] \in Nat /\ t.payload[2] <= uiArticle.epoch
             /\ t.payload[2] = uiArticle.epoch => tab[b].shown = <<uiArticle.policy>>

\* The row of a confirmed import expects the file its token names.
AcquisitionStands(a) ==
    /\ IsImport(a.token)
    /\ a = [token |-> a.token, expected |-> a.token.payload[1], state |-> a.state]

\* A token that changed a policy names an epoch that is past.
ChangeStands(x) ==
    /\ x.token.payload[2] \in Nat /\ x.token.payload[2] < uiArticle.epoch
    /\ <<x.from.policy>> = x.shown

UiInv ==
    /\ TabShape /\ ArticleShape
    /\ \A b \in Tabs : TokenStands(b)
    /\ \A a \in uiAcquisitions : AcquisitionStands(a)
    /\ \A x \in policyChanges : ChangeStands(x)
    /\ UiEffectsWerePreviewed

AcquisitionsOnce == \A a, c \in uiAcquisitions : a.token = c.token => a = c
RevisionShown ==
    uiRevision # Unconfirmed =>
      \E a \in uiAcquisitions : a.state = "published" /\ a.token = uiRevision
ChangesOnce == \A x, y \in policyChanges : x.token = y.token => x = y
FeedbackOnce == \A f, g \in uiFeedback : f.member = g.member => f = g

LEMMA UiParts ==
    ASSUME UiInv
    PROVE  /\ TabShape /\ ArticleShape /\ AcquisitionsOnce /\ RevisionShown
           /\ ChangesOnce /\ FeedbackOnce
           /\ \A b \in Tabs : TokenStands(b)
           /\ \A a \in uiAcquisitions : AcquisitionStands(a)
           /\ \A x \in policyChanges : ChangeStands(x)
BY Zenon DEF UiInv, UiEffectsWerePreviewed, AcquisitionsOnce, RevisionShown, ChangesOnce,
   FeedbackOnce

LEMMA UiWhole ==
    ASSUME TabShape', ArticleShape', AcquisitionsOnce', RevisionShown', ChangesOnce',
           FeedbackOnce', \A b \in Tabs : TokenStands(b)',
           \A a \in uiAcquisitions' : AcquisitionStands(a)',
           \A x \in policyChanges' : ChangeStands(x)'
    PROVE  UiInv'
BY Zenon DEF UiInv, UiEffectsWerePreviewed, AcquisitionsOnce, RevisionShown, ChangesOnce,
   FeedbackOnce, ChangeStands

-----------------------------------------------------------------------------
(* Steps that have no effect beyond a tab.                                 *)

LEMMA EffectsStay ==
    ASSUME UiInv, UNCHANGED uiEffects
    PROVE  /\ ArticleShape' /\ AcquisitionsOnce' /\ RevisionShown' /\ ChangesOnce'
           /\ FeedbackOnce'
           /\ \A a \in uiAcquisitions' : AcquisitionStands(a)'
           /\ \A x \in policyChanges' : ChangeStands(x)'
<1>1. /\ uiArticle' = uiArticle /\ uiAcquisitions' = uiAcquisitions
      /\ uiRevision' = uiRevision /\ uiFeedback' = uiFeedback
      /\ policyChanges' = policyChanges
  BY Zenon DEF uiEffects
<1> QED
  BY <1>1, UiParts, Zenon DEF ArticleShape, AcquisitionsOnce, RevisionShown, ChangesOnce,
     FeedbackOnce, AcquisitionStands, ChangeStands

\* Setting one tab.
LEMMA TabSet ==
    ASSUME TabShape, NEW b \in Tabs, NEW pc, NEW token, NEW seen,
           tab' = [tab EXCEPT ![b] = [pc |-> pc, token |-> token, shown |-> seen]]
    PROVE  /\ TabShape' /\ \A d \in Tabs \ {b} : tab'[d] = tab[d]
           /\ tab'[b].token = token /\ tab'[b].shown = seen /\ tab'[b].pc = pc
BY Zenon DEF TabShape

LEMMA TabMoves ==
    ASSUME TabShape, NEW b \in Tabs, NEW pc, tab' = [tab EXCEPT ![b].pc = pc]
    PROVE  /\ TabShape' /\ \A c \in Tabs \ {b} : tab'[c] = tab[c]
           /\ tab'[b].token = tab[b].token /\ tab'[b].shown = tab[b].shown
BY SMTT(60) DEF TabShape

LEMMA TokenKept ==
    ASSUME NEW b \in Tabs, NEW c \in Tabs, TokenStands(b), uiArticle' = uiArticle,
           tab'[c].token = tab[b].token, tab'[c].shown = tab[b].shown
    PROVE  TokenStands(c)'
BY Zenon DEF TokenStands, IsImport

LEMMA NoTokenStands ==
    ASSUME NEW b \in Tabs, tab'[b].token = Unconfirmed
    PROVE  TokenStands(b)'
BY DEF TokenStands, Unconfirmed

LEMMA PreviewSteps ==
    ASSUME UiInv, NEW b \in Tabs,
           PreviewImport(b) \/ \E p \in UiPolicies : PreviewArticlePolicy(b, p)
    PROVE  UiInv'
<1>0. UNCHANGED uiEffects /\ TabShape /\ ArticleShape /\ uiArticle' = uiArticle
  BY UiParts, Zenon DEF PreviewImport, PreviewArticlePolicy, uiEffects
<1>1. ASSUME NEW c \in Tabs \ {b}, tab'[c] = tab[c]
      PROVE  TokenStands(c)'
  BY <1>0, <1>1, UiParts, TokenKept, Zenon 
<1>2. CASE PreviewImport(b)
  <2>1. PICK t, seen :
             /\ tab' = [tab EXCEPT ![b] = [pc |-> "idle", token |-> t, shown |-> seen]]
             /\ IsImport(t) /\ t.kind = "file_import"
    <3> DEFINE t == [kind |-> "file_import", actor |-> uiLogin, issued |-> uiNow,
                     payload |-> <<uiFile>>]
    <3>1. tab' = [tab EXCEPT ![b] = [pc |-> "idle", token |-> t, shown |-> <<uiFile>>]]
      BY <1>2, Zenon DEF PreviewImport, IssueToken
    <3>2. IsImport(t) /\ t.kind = "file_import"
      BY Zenon DEF IsImport
    <3> QED
      BY <3>1, <3>2, Zenon 
  <2>2. /\ TabShape' /\ \A c \in Tabs \ {b} : tab'[c] = tab[c]
        /\ tab'[b].token = t
    BY <1>0, <2>1, TabSet, Zenon 
  <2>3. IsImport(t)'
    BY <2>1, Zenon DEF IsImport
  <2>4. TokenStands(b)'
    BY <2>1, <2>2, <2>3, Zenon DEF TokenStands
  <2> QED
    BY <1>0, <1>1, <2>2, <2>4, EffectsStay, UiWhole, Zenon 
<1>3. ASSUME NEW p \in UiPolicies, PreviewArticlePolicy(b, p)
      PROVE  UiInv'
  <2>1. PICK t, seen :
             /\ tab' = [tab EXCEPT ![b] = [pc |-> "idle", token |-> t, shown |-> seen]]
             /\ t.kind = "article_policy" /\ t.payload[2] = uiArticle.epoch
             /\ seen = <<uiArticle.policy>>
    <3> DEFINE t == [kind |-> "article_policy", actor |-> uiLogin, issued |-> uiNow,
                     payload |-> <<uiArticle.version, uiArticle.epoch, p>>]
    <3>1. tab' = [tab EXCEPT ![b] = [pc |-> "idle", token |-> t,
                                     shown |-> <<uiArticle.policy>>]]
      BY <1>3, Zenon DEF PreviewArticlePolicy, IssueToken
    <3>2. t.kind = "article_policy" /\ t.payload[2] = uiArticle.epoch
      OBVIOUS
    <3> QED
      BY <3>1, <3>2, Zenon 
  <2>3. /\ TabShape' /\ \A c \in Tabs \ {b} : tab'[c] = tab[c]
        /\ tab'[b].token = t /\ tab'[b].shown = seen
    BY <1>0, <2>1, TabSet, ZenonT(60) 
  <2>4. TokenStands(b)'
    BY <1>0, <2>1, <2>3 DEF TokenStands, ArticleShape
  <2> QED
    BY <1>0, <1>1, <2>3, <2>4, EffectsStay, UiWhole, Zenon 
<1> QED
  BY <1>2, <1>3, Zenon 


LEMMA TabSteps ==
    ASSUME UiInv, NEW b \in Tabs,
           (\E c \in Tabs \ {b} : CopyToken(b, c)) \/ VerifyToken(b) \/ DropRequest(b)
    PROVE  UiInv'
<1>0. UNCHANGED uiEffects /\ TabShape /\ uiArticle' = uiArticle
  BY UiParts, Zenon DEF CopyToken, VerifyToken, DropRequest, uiEffects
<1>1. ASSUME NEW c \in Tabs, tab'[c] = tab[c]
      PROVE  TokenStands(c)'
  BY <1>0, <1>1, UiParts, TokenKept, Zenon 
<1>2. ASSUME NEW c \in Tabs \ {b}, CopyToken(b, c)
      PROVE  UiInv'
  <2>1. PICK t, seen :
             /\ tab' = [tab EXCEPT ![c] = [pc |-> "idle", token |-> t, shown |-> seen]]
             /\ t = tab[b].token /\ seen = tab[b].shown
    <3>1. tab[b] = [pc |-> tab[b].pc, token |-> tab[b].token, shown |-> tab[b].shown]
      BY <1>0, Zenon DEF TabShape
    <3>2. [tab[b] EXCEPT !.pc = "idle"]
            = [pc |-> "idle", token |-> tab[b].token, shown |-> tab[b].shown]
      BY <3>1
    <3>3. tab' = [tab EXCEPT ![c] = [tab[b] EXCEPT !.pc = "idle"]]
      BY <1>2, Zenon DEF CopyToken
    <3>4. tab' = [tab EXCEPT ![c] = [pc |-> "idle", token |-> tab[b].token,
                                     shown |-> tab[b].shown]]
      BY <3>2, <3>3, Zenon 
    <3> WITNESS tab[b].token, tab[b].shown
    <3> QED
      BY <3>4, Zenon 
  <2>2. /\ TabShape' /\ \A d \in Tabs \ {c} : tab'[d] = tab[d]
        /\ tab'[c].token = tab[b].token /\ tab'[c].shown = tab[b].shown
    <3>1. /\ c \in Tabs /\ TabShape
          /\ tab' = [tab EXCEPT ![c] = [pc |-> "idle", token |-> t, shown |-> seen]]
      BY <1>0, <2>1, Zenon 
    <3>2. /\ TabShape' /\ \A d \in Tabs \ {c} : tab'[d] = tab[d]
          /\ tab'[c].token = t /\ tab'[c].shown = seen
      BY <3>1, Zenon DEF TabShape
    <3> QED
      BY <2>1, <3>2, Zenon 
  <2>3. TokenStands(c)'
    BY <1>0, <2>2, UiParts, TokenKept, Zenon 
  <2>4. \A d \in Tabs : TokenStands(d)'
    BY <1>1, <2>2, <2>3, Zenon 
  <2> QED
    BY <1>0, <2>2, <2>4, EffectsStay, UiWhole, Zenon 
<1>3. ASSUME VerifyToken(b) \/ DropRequest(b)
      PROVE  UiInv'
  <2>1. PICK pc \in {"idle", "verified"} : tab' = [tab EXCEPT ![b].pc = pc]
    BY <1>3, Zenon DEF VerifyToken, DropRequest
  <2>2. /\ TabShape' /\ \A d \in Tabs \ {b} : tab'[d] = tab[d]
        /\ tab'[b].token = tab[b].token /\ tab'[b].shown = tab[b].shown
    BY <1>0, <2>1, TabMoves, ZenonT(60) 
  <2>3. TokenStands(b)'
    BY <1>0, <2>2, UiParts, TokenKept, Zenon 
  <2>4. \A d \in Tabs : TokenStands(d)'
    BY <1>1, <2>2, <2>3, Zenon 
  <2> QED
    BY <1>0, <2>2, <2>4, EffectsStay, UiWhole, Zenon 
<1> QED
  BY <1>2, <1>3, Zenon 

\* What a reply does to the tab of a request.
LEMMA ReplyKeeps ==
    ASSUME UiInv, NEW b \in Tabs, Replied(b)
    PROVE  /\ TabShape' /\ \A c \in Tabs \ {b} : tab'[c] = tab[c]
           /\ \/ tab'[b].token = Unconfirmed
              \/ tab'[b].token = tab[b].token /\ tab'[b].shown = tab[b].shown
<1>1. TabShape
  BY UiParts, Zenon 
<1>2. CASE tab' = [tab EXCEPT ![b] = NewTab]
  <2>1. tab' = [tab EXCEPT ![b] = [pc |-> "idle", token |-> Unconfirmed, shown |-> <<>>]]
    BY <1>2, Zenon DEF NewTab
  <2> QED
    BY <1>1, <2>1, TabSet, ZenonT(60) 
<1>3. CASE tab' = [tab EXCEPT ![b].pc = "idle"]
  BY <1>1, <1>3, TabMoves, Zenon 
<1> QED
  BY <1>2, <1>3, Zenon DEF Replied

-----------------------------------------------------------------------------
(* Imports.                                                                *)

LEMMA ImportStep ==
    ASSUME UiInv, NEW b \in Tabs, PrepareExactFileImport(b)
    PROVE  UiInv'
<1> DEFINE token == tab[b].token
           row == [token |-> token, expected |-> ExpectedContent(token),
                   state |-> "available"]
<1>0. /\ token.kind = "file_import" /\ Replied(b) /\ uiArticle' = uiArticle
      /\ uiRevision' = uiRevision /\ uiFeedback' = uiFeedback
      /\ policyChanges' = policyChanges
      /\ \/ uiAcquisitions' = uiAcquisitions
         \/ /\ uiAcquisitions' = uiAcquisitions \cup {row}
            /\ \A a \in uiAcquisitions : a.token # token
  BY ZenonT(60) DEF PrepareExactFileImport
<1>1. /\ TabShape' /\ \A c \in Tabs \ {b} : tab'[c] = tab[c]
      /\ \/ tab'[b].token = Unconfirmed
         \/ tab'[b].token = tab[b].token /\ tab'[b].shown = tab[b].shown
  BY <1>0, ReplyKeeps, Zenon 
<1>2. \A c \in Tabs : TokenStands(c)'
  <2>1. TokenStands(b)'
    BY <1>0, <1>1, UiParts, TokenKept, NoTokenStands, Zenon 
  <2>2. ASSUME NEW c \in Tabs \ {b}
        PROVE  TokenStands(c)'
    BY <1>0, <1>1, UiParts, TokenKept, Zenon 
  <2> QED
    BY <2>1, <2>2, Zenon 
<1>3. row.token = token /\ row.state = "available" /\ AcquisitionStands(row)
  <2>1. IsImport(token)
    BY <1>0, UiParts, Zenon DEF TokenStands
  <2> QED
    BY <2>1, ZenonT(60) DEF AcquisitionStands, ExpectedContent
<1> HIDE DEF row, token
<1>4. \A a \in uiAcquisitions' : AcquisitionStands(a)'
  BY <1>0, <1>3, UiParts, Zenon DEF AcquisitionStands
<1>5. AcquisitionsOnce'
  BY <1>0, <1>3, UiParts, Zenon DEF AcquisitionsOnce
<1>6. RevisionShown'
  BY <1>0, UiParts, Zenon DEF RevisionShown
<1>7. ArticleShape' /\ ChangesOnce' /\ FeedbackOnce' /\ \A x \in policyChanges' : ChangeStands(x)'
  BY <1>0, UiParts, Zenon DEF ArticleShape, ChangesOnce, FeedbackOnce, ChangeStands
<1> QED
  BY <1>1, <1>2, <1>4, <1>5, <1>6, <1>7, UiWhole, Zenon 

LEMMA RunStep ==
    ASSUME UiInv, NEW a \in uiAcquisitions, RunExactImport(a)
    PROVE  UiInv'
<1>0. /\ a.state = "available" /\ tab' = tab /\ uiArticle' = uiArticle
      /\ uiFeedback' = uiFeedback /\ policyChanges' = policyChanges
  BY Zenon DEF RunExactImport
<1>1. PICK end \in {"failed"} \cup {"published" : e \in {a.expected} \cap {uiFile}} :
          /\ uiAcquisitions' = (uiAcquisitions \ {a}) \cup {[a EXCEPT !.state = end]}
          /\ uiRevision' = IF end = "published" THEN [a.token EXCEPT !.payload = <<uiFile>>]
                           ELSE uiRevision
  BY Zenon DEF RunExactImport
<1>2. AcquisitionStands(a)
  BY UiParts, Zenon 
<1> DEFINE new == [a EXCEPT !.state = end]
<1>3. new = [token |-> a.token, expected |-> a.token.payload[1], state |-> end]
  BY <1>2 DEF AcquisitionStands
<1>4. new.token = a.token /\ new.state = end /\ AcquisitionStands(new)
  BY <1>2, <1>3, Zenon DEF AcquisitionStands
<1>5. end = "published" => [a.token EXCEPT !.payload = <<uiFile>>] = a.token
  <2> SUFFICES ASSUME end = "published"
               PROVE  [a.token EXCEPT !.payload = <<uiFile>>] = a.token
    OBVIOUS
  <2>1. a.expected = uiFile
    BY <1>1, Zenon 
  <2>2. a.token.payload[1] = uiFile
    BY <1>2, <2>1 DEF AcquisitionStands
  <2> QED
    BY <1>2, <2>2 DEF AcquisitionStands, IsImport
<1> HIDE DEF new
<1>6. uiAcquisitions' = (uiAcquisitions \ {a}) \cup {new}
  BY <1>1, Zenon DEF new
<1>7. AcquisitionsOnce'
  BY <1>4, <1>6, UiParts, ZenonT(60) DEF AcquisitionsOnce
<1>8. \A c \in uiAcquisitions' : AcquisitionStands(c)'
  BY <1>4, <1>6, UiParts, Zenon DEF AcquisitionStands
<1>9. RevisionShown'
  <2>1. CASE end = "published"
    BY <1>1, <1>4, <1>5, <1>6, <2>1, Zenon DEF RevisionShown
  <2>2. CASE end # "published"
    BY <1>0, <1>1, <1>6, <2>2, UiParts, Zenon DEF RevisionShown
  <2> QED
    BY <2>1, <2>2, Zenon 
<1>10. /\ TabShape' /\ ArticleShape' /\ ChangesOnce' /\ FeedbackOnce'
       /\ \A x \in policyChanges' : ChangeStands(x)'
  BY <1>0, UiParts, ZenonT(60) DEF TabShape, ArticleShape, ChangesOnce, FeedbackOnce, ChangeStands
<1>11. \A c \in Tabs : TokenStands(c)'
  BY <1>0, UiParts, TokenKept, Zenon 
<1> QED
  BY <1>7, <1>8, <1>9, <1>10, <1>11, UiWhole, Zenon 


-----------------------------------------------------------------------------
(* Policies, feedback and the surroundings.                                *)

\* The Article moves on: no token is of its epoch any more.
LEMMA LaterEpoch ==
    ASSUME UiInv, ArticleShape', uiArticle'.epoch = uiArticle.epoch + 1
    PROVE  /\ \A x \in policyChanges : ChangeStands(x)'
           /\ \A b, c \in Tabs : tab'[c].token = tab[b].token => TokenStands(c)'
<1>0. uiArticle.epoch \in Nat
  BY UiParts, Zenon DEF ArticleShape
<1>1. ASSUME NEW x \in policyChanges
      PROVE  ChangeStands(x)'
  <2>1. ChangeStands(x)
    BY UiParts, Zenon 
  <2> QED
    BY <1>0, <2>1 DEF ChangeStands
<1>2. ASSUME NEW b \in Tabs, NEW c \in Tabs, tab'[c].token = tab[b].token
      PROVE  TokenStands(c)'
  <2>1. TokenStands(b)
    BY UiParts, Zenon 
  <2>2. IsImport(tab[b].token) => IsImport(tab[c].token)'
    BY <1>2, Zenon DEF IsImport
  <2> QED
    BY <1>0, <1>2, <2>1, <2>2 DEF TokenStands
<1> QED
  BY <1>1, <1>2, Zenon 

LEMMA PolicyStep ==
    ASSUME UiInv, NEW b \in Tabs, ChangeArticlePolicyByUi(b)
    PROVE  UiInv'
<1> DEFINE token == tab[b].token
           change == [token |-> token, shown |-> tab[b].shown, from |-> uiArticle]
<1>0. /\ token.kind = "article_policy" /\ Replied(b)
      /\ uiAcquisitions' = uiAcquisitions /\ uiRevision' = uiRevision
      /\ uiFeedback' = uiFeedback
  BY ZenonT(60) DEF ChangeArticlePolicyByUi
<1>1. /\ TabShape' /\ \A c \in Tabs \ {b} : tab'[c] = tab[c]
      /\ \/ tab'[b].token = Unconfirmed
         \/ tab'[b].token = tab[b].token /\ tab'[b].shown = tab[b].shown
  BY <1>0, ReplyKeeps, Zenon 
<1>2. /\ AcquisitionsOnce' /\ RevisionShown' /\ FeedbackOnce'
      /\ \A a \in uiAcquisitions' : AcquisitionStands(a)'
  BY <1>0, UiParts, Zenon DEF AcquisitionsOnce, RevisionShown, FeedbackOnce,
     AcquisitionStands
<1>3. CASE UNCHANGED <<uiArticle, policyChanges>>
  <2>1. \A c \in Tabs : TokenStands(c)'
    <3>1. TokenStands(b)'
      BY <1>1, <1>3, UiParts, TokenKept, NoTokenStands, ZenonT(60) 
    <3>2. ASSUME NEW c \in Tabs \ {b}
          PROVE  TokenStands(c)'
      BY <1>1, <1>3, UiParts, TokenKept, Zenon 
    <3> QED
      BY <3>1, <3>2, Zenon 
  <2>2. ArticleShape' /\ ChangesOnce' /\ \A x \in policyChanges' : ChangeStands(x)'
    BY <1>3, UiParts, Zenon DEF ArticleShape, ChangesOnce, ChangeStands
  <2> QED
    BY <1>1, <1>2, <2>1, <2>2, UiWhole, ZenonT(60) 
<1>4. CASE /\ StandsAsPreviewed(token)
           /\ uiArticle' = [uiArticle EXCEPT !.policy = token.payload[3],
                                             !.version = @ + 1, !.epoch = @ + 1]
           /\ policyChanges' = policyChanges \cup {change}
  <2>1. ArticleShape /\ token.payload[2] = uiArticle.epoch /\ TokenStands(b)
    BY <1>4, UiParts, Zenon DEF StandsAsPreviewed
  <2>2. ArticleShape' /\ uiArticle'.epoch = uiArticle.epoch + 1
    <3>1. PICK p, v, e, l : /\ uiArticle = [policy |-> p, version |-> v, epoch |-> e, live |-> l]
                            /\ e \in Nat
      BY <2>1, Zenon DEF ArticleShape
    <3>2. uiArticle' = [policy |-> token.payload[3], version |-> v + 1, epoch |-> e + 1,
                        live |-> l]
      BY <1>4, <3>1, Zenon 
    <3> QED
      BY <3>1, <3>2 DEF ArticleShape
  <2>3. /\ \A x \in policyChanges : ChangeStands(x)'
        /\ \A c, d \in Tabs : tab'[d].token = tab[c].token => TokenStands(d)'
    BY <2>2, LaterEpoch, Zenon 
  <2>4. \A c \in Tabs : TokenStands(c)'
    BY <1>1, <2>3, NoTokenStands, Zenon 
  <2>5. PICK made : /\ made = change
                    /\ made.token = token /\ made.from = uiArticle
                    /\ made.shown = <<uiArticle.policy>>
    <3>1. /\ change.token = token /\ change.from = uiArticle
          /\ change.shown = <<uiArticle.policy>>
      BY <1>0, <2>1, Zenon DEF TokenStands
    <3> HIDE DEF change
    <3> QED
      BY <3>1, ZenonT(60) 
  <2> HIDE DEF change
  <2>6. ChangeStands(made)'
    BY <2>1, <2>2, <2>5 DEF ChangeStands, ArticleShape
  <2>7. \A x \in policyChanges : x.token # token
    <3> SUFFICES ASSUME NEW x \in policyChanges, x.token = token PROVE FALSE
      OBVIOUS
    <3>1. ChangeStands(x)
      BY UiParts, Zenon 
    <3> QED
      BY <2>1, <3>1 DEF ChangeStands
  <2>8. ChangesOnce'
    BY <1>4, <2>5, <2>7, UiParts, ZenonT(60) DEF ChangesOnce
  <2>9. \A x \in policyChanges' : ChangeStands(x)'
    BY <1>4, <2>3, <2>5, <2>6, Zenon 
  <2> QED
    BY <1>1, <1>2, <2>2, <2>4, <2>8, <2>9, UiWhole, ZenonT(60) 
<1> QED
  BY <1>3, <1>4, Zenon DEF ChangeArticlePolicyByUi

LEMMA FeedbackStep ==
    ASSUME UiInv, NEW b \in Tabs, NEW rating, CaptureFeedback(b, rating)
    PROVE  UiInv'
<1> DEFINE f == [member |-> uiLogin, rating |-> rating]
<1>0. /\ tab' = tab /\ uiArticle' = uiArticle /\ uiAcquisitions' = uiAcquisitions
      /\ uiRevision' = uiRevision /\ policyChanges' = policyChanges
      /\ \/ uiFeedback' = uiFeedback
         \/ /\ uiFeedback' = uiFeedback \cup {f}
            /\ \A g \in uiFeedback : g.member # uiLogin
  BY Zenon DEF CaptureFeedback, FeedbackOf
<1>1. f.member = uiLogin
  OBVIOUS
<1> HIDE DEF f
<1>2. FeedbackOnce'
  BY <1>0, <1>1, UiParts, Zenon DEF FeedbackOnce
<1>3. /\ TabShape' /\ ArticleShape' /\ AcquisitionsOnce' /\ RevisionShown' /\ ChangesOnce'
      /\ \A a \in uiAcquisitions' : AcquisitionStands(a)'
      /\ \A x \in policyChanges' : ChangeStands(x)'
  BY <1>0, UiParts, Zenon DEF TabShape, ArticleShape, AcquisitionsOnce, RevisionShown,
     ChangesOnce, AcquisitionStands, ChangeStands
<1>4. \A c \in Tabs : TokenStands(c)'
  BY <1>0, UiParts, TokenKept, Zenon 
<1> QED
  BY <1>2, <1>3, <1>4, UiWhole, ZenonT(60) 

LEMMA ElsewhereStep ==
    ASSUME UiInv, ChangePolicyElsewhere
    PROVE  UiInv'
<1>0. /\ tab' = tab /\ uiAcquisitions' = uiAcquisitions /\ uiRevision' = uiRevision
      /\ uiFeedback' = uiFeedback /\ policyChanges' = policyChanges
  BY Zenon DEF ChangePolicyElsewhere
<1>1. ArticleShape' /\ uiArticle'.epoch = uiArticle.epoch + 1
  <2>1. PICK p, v, e, l : /\ uiArticle = [policy |-> p, version |-> v, epoch |-> e, live |-> l]
                          /\ e \in Nat
    BY UiParts, ZenonT(60) DEF ArticleShape
  <2>2. \E q, w, m : uiArticle' = [policy |-> q, version |-> w, epoch |-> e + 1, live |-> m]
    BY <2>1, Zenon DEF ChangePolicyElsewhere
  <2> QED
    BY <2>1, <2>2 DEF ArticleShape
<1>2. /\ \A x \in policyChanges : ChangeStands(x)'
      /\ \A b \in Tabs : TokenStands(b)'
  BY <1>0, <1>1, LaterEpoch, Zenon 
<1>3. /\ TabShape' /\ AcquisitionsOnce' /\ RevisionShown' /\ ChangesOnce' /\ FeedbackOnce'
      /\ \A a \in uiAcquisitions' : AcquisitionStands(a)'
  BY <1>0, UiParts, Zenon DEF TabShape, AcquisitionsOnce, RevisionShown, ChangesOnce,
     FeedbackOnce, AcquisitionStands
<1> QED
  BY <1>0, <1>1, <1>2, <1>3, UiWhole, Zenon 

LEMMA SurroundingsStep ==
    ASSUME UiInv, tab' = tab, UNCHANGED uiEffects
    PROVE  UiInv'
<1>1. TabShape' /\ uiArticle' = uiArticle
  BY UiParts, Zenon DEF TabShape, uiEffects
<1>2. \A b \in Tabs : TokenStands(b)'
  BY <1>1, UiParts, TokenKept, Zenon 
<1> QED
  BY <1>1, <1>2, EffectsStay, UiWhole, ZenonT(60) 

LEMMA UiStep ==
    ASSUME UiInv, [UiNext]_uiVars
    PROVE  UiInv'
<1>1. ASSUME \/ UiTick \/ ChangeMembership \/ SignIn \/ EditUiFile \/ ChangeSource
             \/ UNCHANGED uiVars
      PROVE  UiInv'
  <2>1. tab' = tab /\ UNCHANGED uiEffects
    BY <1>1, Zenon DEF UiTick, ChangeMembership, SignIn, EditUiFile, ChangeSource, uiVars, uiEffects
  <2> QED
    BY <2>1, SurroundingsStep, Zenon 
<1> QED
  BY <1>1, PreviewSteps, TabSteps, ImportStep, RunStep, PolicyStep, FeedbackStep,
     ElsewhereStep, ZenonT(60) DEF UiNext

LEMMA UiStarts == UiInit => UiInv
<1> SUFFICES ASSUME UiInit PROVE UiInv
  OBVIOUS
<1>1. TabShape /\ \A b \in Tabs : TokenStands(b)
  BY Zenon DEF UiInit, TabShape, TokenStands, NewTab, Unconfirmed
<1>2. ArticleShape
  BY SMTT(60) DEF UiInit, ArticleShape
<1>3. UiEffectsWerePreviewed /\ uiAcquisitions = {} /\ policyChanges = {}
  BY Zenon DEF UiInit, UiEffectsWerePreviewed
<1> QED
  BY <1>1, <1>2, <1>3, Zenon DEF UiInv

\* Every effect of the UI is the one a preview showed, and happens once: an
\* acquisition per token, a published file that was shown, a policy change per
\* token and from the policy shown, one feedback per person and run, however
\* many tabs confirm, however late and whatever else changes.
THEOREM UiConfirmationsHold == UiSpec => []UiEffectsWerePreviewed
<1>1. UiInv => UiEffectsWerePreviewed
  BY Zenon DEF UiInv
<1> QED
  BY <1>1, UiStarts, UiStep, PTL DEF UiSpec
=============================================================================
