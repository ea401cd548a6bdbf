------------------------- MODULE GoldenCorpusProofs -------------------------
(***************************************************************************)
(* Proofs about the golden corpus, for every set of curators, cases and    *)
(* instants: admissions are locked and reported backups are whole.         *)
(***************************************************************************)
EXTENDS GoldenCorpus, TLAPS

-----------------------------------------------------------------------------
(* The golden corpus.                                                      *)

GoldenSets == [pilot : Pilots, dev : SUBSET Cases]
Entries == [pilot : Pilots, at : Nat]

\* What a file of the corpus may say, wherever it is kept: the golden set is one,
\* the latest entry of a lock and a staged set name a pilot that was locked.
FileOk(f, content, locked) ==
    Readable(content) =>
        /\ f \in {"golden", "intake"} => content \in GoldenSets
        /\ f = "intake" => content.pilot \in locked
        /\ f = "lock" => /\ content \in Seq(Entries) /\ Len(content) > 0
                         /\ content[Len(content)].pilot \in locked

FilesOk(files, locked) == \A f \in CorpusFiles : FileOk(f, files[f], locked)

DirectoryFiles == CorpusFiles \cup {"manifest"}
DirectoryOk(directory, locked) ==
    directory # AbsentFile =>
        /\ directory = [f \in DirectoryFiles |-> directory[f]]
        /\ FilesOk(directory, locked)

RowShape(row) ==
    row = [pc |-> row.pc, golden |-> row.golden, lock |-> row.lock, todo |-> row.todo,
           files |-> row.files, from |-> row.from, writing |-> row.writing]

\* The local state of a process, at each of its steps.
CorpusRowOk(row) ==
    /\ RowShape(row)
    /\ row.files = [f \in CorpusFiles |-> row.files[f]]
    /\ FilesOk(row.files, lockedPilots)
    /\ row.pc \in {"lock", "relock", "open", "write", "intake", "stage", "fill"} =>
         row.golden \in GoldenSets
    /\ row.pc \in {"open", "write"} =>
         /\ row.lock \in Seq(Entries) /\ Len(row.lock) > 0
         /\ row.lock[Len(row.lock)].pilot = row.golden.pilot
    /\ row.pc \in {"stage", "fill"} => row.golden.pilot \in lockedPilots
    /\ row.pc \in {"collect", "mkdir", "copy", "create", "restore"} =>
         row.todo \subseteq CorpusFiles
    /\ row.pc \in {"create", "restore"} => row.from \in Instants
    /\ row.pc = "restore" => row.writing \in CorpusFiles

CorpusInv ==
    /\ corpus = [f \in CorpusFiles |-> corpus[f]]
    /\ FilesOk(corpus, lockedPilots)
    /\ staging = [t \in Instants |-> staging[t]]
    /\ snapshots = [t \in Instants |-> snapshots[t]]
    /\ \A t \in Instants :
          DirectoryOk(staging[t], lockedPilots) /\ DirectoryOk(snapshots[t], lockedPilots)
    /\ curator = [o \in Curators |-> curator[o]]
    /\ \A o \in Curators : CorpusRowOk(curator[o])

\* What a process has open while it writes: its file, under its name or the one
\* an admission has given it since, or a file that has no name any more.
OpenOk(row, place) ==
    /\ row.pc = "write" => place = "lock"
    /\ row.pc = "fill" => place \in {"intake", "golden", "gone"}
    /\ row.pc = "restore" => \/ place \in {row.writing, "gone"}
                             \/ row.writing = "intake" /\ place = "golden"

OpenedInv ==
    /\ opened = [o \in Curators |-> opened[o]]
    /\ \A o \in Curators : OpenOk(curator[o], opened[o])

LEMMA LockedGrows ==
    ASSUME NEW locked, NEW more, locked \subseteq more
    PROVE  /\ \A f, content : FileOk(f, content, locked) => FileOk(f, content, more)
           /\ \A files : FilesOk(files, locked) => FilesOk(files, more)
           /\ \A d : DirectoryOk(d, locked) => DirectoryOk(d, more)
<1>1. \A f, content : FileOk(f, content, locked) => FileOk(f, content, more)
  BY Zenon DEF FileOk
<1>2. \A files : FilesOk(files, locked) => FilesOk(files, more)
  BY <1>1, Zenon DEF FilesOk
<1> QED
  BY <1>1, <1>2, Zenon DEF DirectoryOk

LEMMA UnreadableIsOk ==
    ASSUME NEW content \in {AbsentFile, Torn}
    PROVE  \A f, locked : FileOk(f, content, locked)
BY Zenon DEF FileOk, Readable

\* A record whose fields are known is that record.
LEMMA RowFields ==
    ASSUME NEW row, NEW p, NEW g, NEW l, NEW td, NEW fs, NEW fr, NEW wr,
           row \in [pc : {p}, golden : {g}, lock : {l}, todo : {td}, files : {fs},
                    from : {fr}, writing : {wr}]
    PROVE  /\ RowShape(row)
           /\ row.pc = p /\ row.golden = g /\ row.lock = l /\ row.todo = td
           /\ row.files = fs /\ row.from = fr /\ row.writing = wr
BY Zenon DEF RowShape

LEMMA RowParts ==
    ASSUME NEW row, RowShape(row)
    PROVE  row \in [pc : {row.pc}, golden : {row.golden}, lock : {row.lock},
                    todo : {row.todo}, files : {row.files}, from : {row.from},
                    writing : {row.writing}]
BY Zenon DEF RowShape

LEMMA RestRow ==
    /\ RowShape(AtRest) /\ AtRest.pc = "idle" /\ AtRest.files = NoFiles
    /\ AtRest.golden = AbsentFile /\ AtRest.todo = {}
BY Zenon DEF AtRest, RowShape

LEMMA RestIsOk == CorpusRowOk(AtRest) /\ CorpusRowOk(AtRest)'
<1>1. FilesOk(NoFiles, lockedPilots) /\ FilesOk(NoFiles, lockedPilots')
  BY UnreadableIsOk, Zenon DEF FilesOk, NoFiles
<1>2. NoFiles = [f \in CorpusFiles |-> NoFiles[f]]
  BY Zenon DEF NoFiles
<1> HIDE DEF AtRest, NoFiles
<1>3. AtRest' = AtRest
  BY Zenon DEF AtRest, NoFiles
<1> QED
  BY <1>1, <1>2, <1>3, RestRow, Zenon DEF CorpusRowOk


\* The updates of a local state.
WithPc(row, pc1) == [row EXCEPT !.pc = pc1]
WithGolden(row, pc1, golden1) == [row EXCEPT !.pc = pc1, !.golden = golden1]
WithLock(row, pc1, lock1) == [row EXCEPT !.pc = pc1, !.lock = lock1]
WithTodo(row, pc1, todo1) == [row EXCEPT !.pc = pc1, !.todo = todo1]
WithFiles(row, todo1, files1) == [row EXCEPT !.todo = todo1, !.files = files1]
WithLess(row, todo1) == [row EXCEPT !.todo = todo1]
WithSnapshot(row, pc1, from1, todo1) == [row EXCEPT !.pc = pc1, !.from = from1, !.todo = todo1]
WithWriting(row, pc1, writing1, files1) ==
    [row EXCEPT !.pc = pc1, !.writing = writing1, !.files = files1]

LEMMA PcMoves ==
    ASSUME NEW row, RowShape(row), NEW pc1
    PROVE  LET new == WithPc(row, pc1)
           IN /\ RowShape(new)
              /\ new.pc = pc1 /\ new.golden = row.golden /\ new.lock = row.lock
              /\ new.todo = row.todo /\ new.files = row.files /\ new.from = row.from
              /\ new.writing = row.writing
<1>0. row \in [pc : {row.pc}, golden : {row.golden}, lock : {row.lock}, todo : {row.todo},
              files : {row.files}, from : {row.from}, writing : {row.writing}]
  BY RowParts, Zenon 
<1>1. WithPc(row, pc1) \in [
              pc : {pc1}, golden : {row.golden}, lock : {row.lock}, todo : {row.todo},
              files : {row.files}, from : {row.from}, writing : {row.writing}]
  BY <1>0, Zenon DEF WithPc
<1> QED
  BY <1>1, Zenon DEF RowShape

LEMMA GoldenMoves ==
    ASSUME NEW row, RowShape(row), NEW pc1, NEW golden1
    PROVE  LET new == WithGolden(row, pc1, golden1)
           IN /\ RowShape(new)
              /\ new.pc = pc1 /\ new.golden = golden1 /\ new.lock = row.lock
              /\ new.todo = row.todo /\ new.files = row.files /\ new.from = row.from
              /\ new.writing = row.writing
<1>0. row \in [pc : {row.pc}, golden : {row.golden}, lock : {row.lock}, todo : {row.todo},
              files : {row.files}, from : {row.from}, writing : {row.writing}]
  BY RowParts, Zenon 
<1>1. WithGolden(row, pc1, golden1) \in [
              pc : {pc1}, golden : {golden1}, lock : {row.lock}, todo : {row.todo},
              files : {row.files}, from : {row.from}, writing : {row.writing}]
  BY <1>0, Zenon DEF WithGolden
<1> QED
  BY <1>1, Zenon DEF RowShape

LEMMA LockMoves ==
    ASSUME NEW row, RowShape(row), NEW pc1, NEW lock1
    PROVE  LET new == WithLock(row, pc1, lock1)
           IN /\ RowShape(new)
              /\ new.pc = pc1 /\ new.golden = row.golden /\ new.lock = lock1
              /\ new.todo = row.todo /\ new.files = row.files /\ new.from = row.from
              /\ new.writing = row.writing
<1>0. row \in [pc : {row.pc}, golden : {row.golden}, lock : {row.lock}, todo : {row.todo},
              files : {row.files}, from : {row.from}, writing : {row.writing}]
  BY RowParts, Zenon 
<1>1. WithLock(row, pc1, lock1) \in [
              pc : {pc1}, golden : {row.golden}, lock : {lock1}, todo : {row.todo},
              files : {row.files}, from : {row.from}, writing : {row.writing}]
  BY <1>0, Zenon DEF WithLock
<1> QED
  BY <1>1, Zenon DEF RowShape

LEMMA TodoMoves ==
    ASSUME NEW row, RowShape(row), NEW pc1, NEW todo1
    PROVE  LET new == WithTodo(row, pc1, todo1)
           IN /\ RowShape(new)
              /\ new.pc = pc1 /\ new.golden = row.golden /\ new.lock = row.lock
              /\ new.todo = todo1 /\ new.files = row.files /\ new.from = row.from
              /\ new.writing = row.writing
<1>0. row \in [pc : {row.pc}, golden : {row.golden}, lock : {row.lock}, todo : {row.todo},
              files : {row.files}, from : {row.from}, writing : {row.writing}]
  BY RowParts, Zenon 
<1>1. WithTodo(row, pc1, todo1) \in [
              pc : {pc1}, golden : {row.golden}, lock : {row.lock}, todo : {todo1},
              files : {row.files}, from : {row.from}, writing : {row.writing}]
  BY <1>0, Zenon DEF WithTodo
<1> QED
  BY <1>1, Zenon DEF RowShape

LEMMA FilesMove ==
    ASSUME NEW row, RowShape(row), NEW todo1, NEW files1
    PROVE  LET new == WithFiles(row, todo1, files1)
           IN /\ RowShape(new)
              /\ new.pc = row.pc /\ new.golden = row.golden /\ new.lock = row.lock
              /\ new.todo = todo1 /\ new.files = files1 /\ new.from = row.from
              /\ new.writing = row.writing
<1>0. row \in [pc : {row.pc}, golden : {row.golden}, lock : {row.lock}, todo : {row.todo},
              files : {row.files}, from : {row.from}, writing : {row.writing}]
  BY RowParts, Zenon 
<1>1. WithFiles(row, todo1, files1) \in [
              pc : {row.pc}, golden : {row.golden}, lock : {row.lock}, todo : {todo1},
              files : {files1}, from : {row.from}, writing : {row.writing}]
  BY <1>0, Zenon DEF WithFiles
<1> QED
  BY <1>1, Zenon DEF RowShape

LEMMA TodoShrinks ==
    ASSUME NEW row, RowShape(row), NEW todo1
    PROVE  LET new == WithLess(row, todo1)
           IN /\ RowShape(new)
              /\ new.pc = row.pc /\ new.golden = row.golden /\ new.lock = row.lock
              /\ new.todo = todo1 /\ new.files = row.files /\ new.from = row.from
              /\ new.writing = row.writing
<1>0. row \in [pc : {row.pc}, golden : {row.golden}, lock : {row.lock}, todo : {row.todo},
              files : {row.files}, from : {row.from}, writing : {row.writing}]
  BY RowParts, Zenon 
<1>1. WithLess(row, todo1) \in [
              pc : {row.pc}, golden : {row.golden}, lock : {row.lock}, todo : {todo1},
              files : {row.files}, from : {row.from}, writing : {row.writing}]
  BY <1>0, Zenon DEF WithLess
<1> QED
  BY <1>1, Zenon DEF RowShape

LEMMA RecoveryMoves ==
    ASSUME NEW row, RowShape(row), NEW pc1, NEW from1, NEW todo1
    PROVE  LET new == WithSnapshot(row, pc1, from1, todo1)
           IN /\ RowShape(new)
              /\ new.pc = pc1 /\ new.golden = row.golden /\ new.lock = row.lock
              /\ new.todo = todo1 /\ new.files = row.files /\ new.from = from1
              /\ new.writing = row.writing
<1>0. row \in [pc : {row.pc}, golden : {row.golden}, lock : {row.lock}, todo : {row.todo},
              files : {row.files}, from : {row.from}, writing : {row.writing}]
  BY RowParts, Zenon 
<1>1. WithSnapshot(row, pc1, from1, todo1) \in [
              pc : {pc1}, golden : {row.golden}, lock : {row.lock}, todo : {todo1},
              files : {row.files}, from : {from1}, writing : {row.writing}]
  BY <1>0, Zenon DEF WithSnapshot
<1> QED
  BY <1>1, Zenon DEF RowShape

LEMMA WritingMoves ==
    ASSUME NEW row, RowShape(row), NEW pc1, NEW writing1, NEW files1
    PROVE  LET new == WithWriting(row, pc1, writing1, files1)
           IN /\ RowShape(new)
              /\ new.pc = pc1 /\ new.golden = row.golden /\ new.lock = row.lock
              /\ new.todo = row.todo /\ new.files = files1 /\ new.from = row.from
              /\ new.writing = writing1
<1>0. row \in [pc : {row.pc}, golden : {row.golden}, lock : {row.lock}, todo : {row.todo},
              files : {row.files}, from : {row.from}, writing : {row.writing}]
  BY RowParts, Zenon 
<1>1. WithWriting(row, pc1, writing1, files1) \in [
              pc : {pc1}, golden : {row.golden}, lock : {row.lock}, todo : {row.todo},
              files : {files1}, from : {row.from}, writing : {writing1}]
  BY <1>0, Zenon DEF WithWriting
<1> QED
  BY <1>1, Zenon DEF RowShape

-----------------------------------------------------------------------------
(* What each step has to show.                                             *)

LEMMA RowsGrow ==
    ASSUME NEW row, CorpusRowOk(row), lockedPilots \subseteq lockedPilots'
    PROVE  CorpusRowOk(row)'
<1>1. FilesOk(row.files, lockedPilots')
  BY LockedGrows, Zenon DEF CorpusRowOk
<1> QED
  BY <1>1, Zenon DEF CorpusRowOk, RowShape, Instants

LEMMA CuratorsKeep ==
    ASSUME CorpusInv, NEW o \in Curators, NEW row, curator' = [curator EXCEPT ![o] = row],
           CorpusRowOk(row)', lockedPilots \subseteq lockedPilots'
    PROVE  /\ curator' = [p \in Curators |-> curator'[p]]
           /\ \A p \in Curators : CorpusRowOk(curator[p])'
<1>1. /\ curator' = [p \in Curators |-> curator'[p]]
      /\ curator'[o] = row /\ \A p \in Curators \ {o} : curator'[p] = curator[p]
  BY Zenon DEF CorpusInv
<1>2. ASSUME NEW p \in Curators \ {o}
      PROVE  CorpusRowOk(curator[p])'
  <2>1. PICK r : r = curator[p] /\ CorpusRowOk(r)
    BY Zenon DEF CorpusInv
  <2>2. CorpusRowOk(r)'
    BY <2>1, RowsGrow, Zenon 
  <2> QED
    BY <1>1, <2>1, <2>2, Zenon 
<1> QED
  BY <1>1, <1>2, Zenon 


CorpusPart == corpus = [f \in CorpusFiles |-> corpus[f]] /\ FilesOk(corpus, lockedPilots)
DirectoriesPart ==
    /\ staging = [t \in Instants |-> staging[t]]
    /\ snapshots = [t \in Instants |-> snapshots[t]]
    /\ \A t \in Instants :
          DirectoryOk(staging[t], lockedPilots) /\ DirectoryOk(snapshots[t], lockedPilots)

LEMMA CorpusKept ==
    ASSUME CorpusInv, corpus' = corpus, lockedPilots \subseteq lockedPilots'
    PROVE  CorpusPart'
<1>1. FilesOk(corpus, lockedPilots')
  BY LockedGrows, Zenon DEF CorpusInv
<1> QED
  BY <1>1, Zenon DEF CorpusInv, CorpusPart

LEMMA CorpusSet ==
    ASSUME CorpusInv, lockedPilots \subseteq lockedPilots', NEW f \in CorpusFiles, NEW c,
           corpus' = [corpus EXCEPT ![f] = c], FileOk(f, c, lockedPilots')
    PROVE  CorpusPart'
<1>1. /\ corpus' = [g \in CorpusFiles |-> corpus'[g]]
      /\ corpus'[f] = c /\ \A g \in CorpusFiles \ {f} : corpus'[g] = corpus[g]
  BY Zenon DEF CorpusInv
<1>2. FilesOk(corpus, lockedPilots')
  BY LockedGrows, Zenon DEF CorpusInv
<1>3. \A g \in CorpusFiles : FileOk(g, corpus'[g], lockedPilots')
  BY <1>1, <1>2, Zenon DEF FilesOk
<1> QED
  BY <1>1, <1>3, Zenon DEF CorpusPart, FilesOk

LEMMA DirectoriesKept ==
    ASSUME CorpusInv, staging' = staging, snapshots' = snapshots,
           lockedPilots \subseteq lockedPilots'
    PROVE  DirectoriesPart'
<1>1. \A t \in Instants : /\ DirectoryOk(staging[t], lockedPilots')
                          /\ DirectoryOk(snapshots[t], lockedPilots')
  BY LockedGrows, Zenon DEF CorpusInv
<1> QED
  BY <1>1, Zenon DEF CorpusInv, DirectoriesPart, Instants

\* No process enters or moves in the writing of a snapshot.
BackupPcs == {"mkdir", "copy", "rename"}
QuietRows == \A o \in Curators : curator'[o].pc \in BackupPcs => curator'[o] = curator[o]

LEMMA OneRowMoves ==
    ASSUME CorpusInv, NEW o \in Curators, NEW row, curator' = [curator EXCEPT ![o] = row],
           row.pc \notin BackupPcs
    PROVE  QuietRows
BY Zenon DEF CorpusInv, QuietRows

\* A step of one process.
LEMMA StepOfOne ==
    ASSUME CorpusInv, NEW o \in Curators, NEW row, curator' = [curator EXCEPT ![o] = row],
           CorpusRowOk(row)', lockedPilots \subseteq lockedPilots', CorpusPart', DirectoriesPart'
    PROVE  CorpusInv'
BY CuratorsKeep, Zenon DEF CorpusInv, CorpusPart, DirectoriesPart

\* ... that only changes its local state.
LEMMA LocalStep ==
    ASSUME CorpusInv, NEW o \in Curators, NEW row, curator' = [curator EXCEPT ![o] = row],
           CorpusRowOk(row), row.pc \notin BackupPcs, UNCHANGED <<corpus, backups, lockedPilots>>
    PROVE  CorpusInv' /\ QuietRows
<1>1. /\ corpus' = corpus /\ staging' = staging /\ snapshots' = snapshots
      /\ lockedPilots' = lockedPilots
  BY Zenon DEF backups
<1>2. CorpusPart' /\ DirectoriesPart'
  BY <1>1, CorpusKept, DirectoriesKept, Zenon 
<1>3. CorpusRowOk(row)'
  BY <1>1, <1>2, RowsGrow, Zenon 
<1> QED
  BY <1>1, <1>2, <1>3, StepOfOne, OneRowMoves, Zenon 

\* ... or one file of the corpus besides.
LEMMA FileStep ==
    ASSUME CorpusInv, NEW o \in Curators, NEW row, curator' = [curator EXCEPT ![o] = row],
           CorpusRowOk(row), row.pc \notin BackupPcs, UNCHANGED <<backups, lockedPilots>>,
           NEW f \in CorpusFiles, NEW c, corpus' = [corpus EXCEPT ![f] = c],
           FileOk(f, c, lockedPilots)
    PROVE  CorpusInv' /\ QuietRows
<1>1. staging' = staging /\ snapshots' = snapshots /\ lockedPilots' = lockedPilots
  BY Zenon DEF backups
<1>2. CorpusPart'
  BY <1>1, CorpusSet, Zenon 
<1>3. DirectoriesPart'
  BY <1>1, DirectoriesKept, Zenon 
<1>4. CorpusRowOk(row)'
  BY <1>1, <1>3, RowsGrow, Zenon 
<1> QED
  BY <1>1, <1>2, <1>3, <1>4, StepOfOne, OneRowMoves, Zenon 

-----------------------------------------------------------------------------
(* Locks.                                                                  *)

LEMMA RestStep ==
    ASSUME CorpusInv, NEW o \in Curators, Rest(o), UNCHANGED <<corpus, backups, lockedPilots>>
    PROVE  CorpusInv' /\ QuietRows
<1>1. PICK row : row = AtRest
  BY Zenon 
<1>2. curator' = [curator EXCEPT ![o] = row] /\ CorpusRowOk(row) /\ row.pc = "idle"
  BY <1>1, RestIsOk, RestRow, Zenon DEF Rest, Continue
<1> QED
  BY <1>2, LocalStep, Zenon DEF BackupPcs

LEMMA LoadSteps ==
    ASSUME CorpusInv, NEW o \in Curators,
           LoadUnlocked(o, "lock") \/ LoadUnlocked(o, "relock") \/ LoadGolden(o)
    PROVE  CorpusInv' /\ QuietRows
<1>1. PICK pc \in {"lock", "relock", "intake"} :
           curator' = [curator EXCEPT ![o] = [AtRest EXCEPT !.pc = pc,
                                                            !.golden = corpus["golden"]]]
  BY Zenon DEF LoadUnlocked, LoadGolden, Continue
<1>2. corpus["golden"] \in GoldenSets /\ UNCHANGED <<corpus, backups, lockedPilots>>
  BY Zenon DEF LoadUnlocked, LoadGolden, CorpusInv, FilesOk, FileOk, CorpusFiles
<1>3. PICK row, g : /\ row = [AtRest EXCEPT !.pc = pc, !.golden = corpus["golden"]]
                    /\ g = corpus["golden"]
  BY Zenon 
<1>4. row = WithGolden(AtRest, pc, g)
  BY <1>3, Zenon DEF WithGolden
<1>5. /\ RowShape(row) /\ row.pc = pc /\ row.golden = g /\ row.files = AtRest.files
      /\ row.golden \in GoldenSets
  <2>1. /\ RowShape(row) /\ row.pc = pc /\ row.golden = g /\ row.files = AtRest.files
    BY <1>4, RestRow, GoldenMoves
  <2> QED
    BY <1>2, <1>3, <2>1, Zenon 
<1>6. CorpusRowOk(row)
  BY <1>1, <1>5, RestIsOk, Zenon DEF CorpusRowOk
<1>7. curator' = [curator EXCEPT ![o] = row]
  BY <1>1, <1>3, Zenon 
<1> QED
  BY <1>1, <1>2, <1>5, <1>6, <1>7, LocalStep, Zenon DEF BackupPcs

LEMMA LockSteps ==
    ASSUME CorpusInv, NEW o \in Curators, CreateGoldenLock(o) \/ RelockGoldenSet(o)
    PROVE  CorpusInv' /\ QuietRows
<1>0. UNCHANGED <<corpus, backups, lockedPilots>> /\ CorpusRowOk(curator[o]) /\ RowShape(curator[o])
  BY Zenon DEF CreateGoldenLock, RelockGoldenSet, CorpusInv, CorpusRowOk
<1>1. curator[o].golden \in GoldenSets
  BY <1>0, Zenon DEF CreateGoldenLock, RelockGoldenSet, CorpusRowOk, IsAt
<1>2. LockEntry(o) \in Entries /\ LockEntry(o).pilot = curator[o].golden.pilot
  BY <1>1, CorpusAssumption, Zenon DEF LockEntry, Entries, GoldenSets
<1>3. CASE Rest(o)
  BY <1>0, <1>3, RestStep, Zenon 
<1>4. ASSUME NEW lock, lock \in Seq(Entries), Len(lock) > 0,
             lock[Len(lock)].pilot = curator[o].golden.pilot,
             curator' = [curator EXCEPT ![o] = [curator[o] EXCEPT !.pc = "open", !.lock = lock]]
      PROVE  CorpusInv' /\ QuietRows
  <2>1. PICK row, old : /\ old = curator[o] /\ CorpusRowOk(old) /\ RowShape(old)
                        /\ row = WithLock(old, "open", lock)
    BY <1>0, Zenon 
  <2>2. /\ RowShape(row) /\ row.pc = "open" /\ row.lock = lock /\ row.golden = old.golden
        /\ row.files = old.files
    BY <2>1, LockMoves
  <2>3. CorpusRowOk(row)
    BY <1>1, <1>4, <2>1, <2>2, Zenon DEF CorpusRowOk
  <2>4. curator' = [curator EXCEPT ![o] = row]
    BY <1>4, <2>1, Zenon DEF WithLock
  <2> QED
    BY <1>0, <2>2, <2>3, <2>4, LocalStep, Zenon DEF BackupPcs
<1>5. ASSUME CreateGoldenLock(o), ~ Rest(o)
      PROVE  CorpusInv' /\ QuietRows
  <2>1. PICK lock : lock = <<LockEntry(o)>>
    OBVIOUS
  <2>2. curator' = [curator EXCEPT ![o] = [curator[o] EXCEPT !.pc = "open", !.lock = lock]]
    BY <1>5, <2>1, Zenon DEF CreateGoldenLock, Continue
  <2>3. lock \in Seq(Entries) /\ Len(lock) > 0 /\ lock[Len(lock)] = LockEntry(o)
    BY <1>2, <2>1
  <2> QED
    BY <1>2, <1>4, <2>2, <2>3, Zenon 
<1>6. ASSUME RelockGoldenSet(o), ~ Rest(o)
      PROVE  CorpusInv' /\ QuietRows
  <2>1. PICK lock : lock = Append(corpus["lock"], LockEntry(o))
    OBVIOUS
  <2>2. /\ curator' = [curator EXCEPT ![o] = [curator[o] EXCEPT !.pc = "open", !.lock = lock]]
        /\ Readable(corpus["lock"])
    BY <1>6, <2>1, Zenon DEF RelockGoldenSet, Continue
  <2>3. corpus["lock"] \in Seq(Entries)
    BY <2>2, Zenon DEF CorpusInv, FilesOk, FileOk, CorpusFiles
  <2>4. lock \in Seq(Entries) /\ Len(lock) > 0 /\ lock[Len(lock)] = LockEntry(o)
    BY <1>2, <2>1, <2>3
  <2> QED
    BY <1>2, <1>4, <2>2, <2>4, Zenon 
<1> QED
  BY <1>3, <1>5, <1>6, Zenon 


\* StepTo changes nothing but the program counter.
LEMMA StepToRow ==
    ASSUME CorpusInv, NEW o \in Curators, NEW pc, StepTo(o, pc)
    PROVE  \E row : /\ curator' = [curator EXCEPT ![o] = row]
                    /\ RowShape(row) /\ row.pc = pc /\ row.golden = curator[o].golden
                    /\ row.lock = curator[o].lock /\ row.todo = curator[o].todo
                    /\ row.files = curator[o].files /\ row.from = curator[o].from
                    /\ row.writing = curator[o].writing
<1>1. PICK old : old = curator[o] /\ RowShape(old)
  BY Zenon DEF CorpusInv, CorpusRowOk
<1>2. curator' = [curator EXCEPT ![o] = WithPc(old, pc)]
  BY <1>1, Zenon DEF StepTo, Continue, WithPc
<1>3. PICK row : row = WithPc(old, pc)
  BY Zenon 
<1>4. /\ RowShape(row) /\ row.pc = pc /\ row.golden = old.golden
      /\ row.lock = old.lock /\ row.todo = old.todo
      /\ row.files = old.files /\ row.from = old.from
      /\ row.writing = old.writing
  BY <1>1, <1>3, PcMoves
<1> QED
  BY <1>1, <1>2, <1>3, <1>4, Zenon 

\* A process writes what it has opened.
LEMMA WrittenFile ==
    ASSUME CorpusInv, NEW o \in Curators, NEW content, WriteOpened(o, content),
           NEW row, curator' = [curator EXCEPT ![o] = row],
           CorpusRowOk(row), row.pc \notin BackupPcs, UNCHANGED <<backups, lockedPilots>>,
           opened[o] # "gone" => /\ opened[o] \in CorpusFiles
                                 /\ FileOk(opened[o], content, lockedPilots)
    PROVE  CorpusInv' /\ QuietRows
<1>1. CASE opened[o] = "gone"
  <2>1. UNCHANGED <<corpus, backups, lockedPilots>>
    BY <1>1, Zenon DEF WriteOpened
  <2> QED
    BY <2>1, LocalStep, Zenon
<1>2. CASE opened[o] # "gone"
  <2>1. PICK f \in CorpusFiles : f = opened[o]
    BY <1>2, Zenon
  <2>2. PICK c \in {content, Torn} : corpus' = [corpus EXCEPT ![f] = c]
    BY <1>2, <2>1, Zenon DEF WriteOpened
  <2>3. FileOk(f, c, lockedPilots)
    BY <1>2, <2>1, <2>2, UnreadableIsOk, Zenon
  <2> QED
    BY <2>1, <2>2, <2>3, FileStep, Zenon
<1> QED
  BY <1>1, <1>2, Zenon

LEMMA WriteLockSteps ==
    ASSUME CorpusInv, OpenedInv, NEW o \in Curators, OpenLock(o) \/ WriteLock(o)
    PROVE  CorpusInv' /\ QuietRows
<1>0. CorpusRowOk(curator[o]) /\ "lock" \in CorpusFiles
  BY Zenon DEF CorpusInv, CorpusFiles
<1>1. CASE OpenLock(o)
  <2>1. PICK row : /\ curator' = [curator EXCEPT ![o] = row]
                   /\ RowShape(row) /\ row.pc = "write" /\ row.golden = curator[o].golden
                   /\ row.lock = curator[o].lock /\ row.files = curator[o].files
    BY <1>1, StepToRow DEF OpenLock
  <2>2. CorpusRowOk(row)
    BY <1>0, <1>1, <2>1, Zenon DEF CorpusRowOk, OpenLock, IsAt
  <2>3. PICK c \in {AbsentFile, Torn} : corpus' = [corpus EXCEPT !["lock"] = c]
    BY <1>1, Zenon DEF OpenLock
  <2>4. FileOk("lock", c, lockedPilots) /\ UNCHANGED <<backups, lockedPilots>>
    BY <1>1, UnreadableIsOk, Zenon DEF OpenLock
  <2>5. curator' = [curator EXCEPT ![o] = row]
    BY <2>1, Zenon 
  <2> QED
    BY <1>0, <2>1, <2>2, <2>3, <2>4, <2>5, FileStep, Zenon DEF BackupPcs
<1>2. CASE WriteLock(o)
  <2>1. /\ lockedPilots' = lockedPilots \cup {curator[o].golden.pilot}
        /\ lockedPilots \subseteq lockedPilots' /\ staging' = staging /\ snapshots' = snapshots
    BY <1>2, Zenon DEF WriteLock, backups
  <2>0. opened[o] = "lock"
    BY <1>2, Zenon DEF WriteLock, IsAt, OpenedInv, OpenOk
  <2>2. PICK content \in {curator[o].lock, Torn} :
             corpus' = [corpus EXCEPT !["lock"] = content]
    BY <1>2, <2>0, Zenon DEF WriteLock, WriteOpened
  <2>3. FileOk("lock", content, lockedPilots')
    BY <1>0, <1>2, <2>1, <2>2, Zenon DEF FileOk, CorpusRowOk, WriteLock, IsAt, Readable
  <2>4. CorpusPart'
    BY <1>0, <2>1, <2>2, <2>3, CorpusSet, Zenon 
  <2>5. DirectoriesPart'
    BY <2>1, DirectoriesKept, Zenon 
  <2>6. PICK row : row = AtRest
    BY Zenon 
  <2>7. curator' = [curator EXCEPT ![o] = row] /\ CorpusRowOk(row) /\ row.pc = "idle"
    BY <1>2, <2>6, RestIsOk, RestRow, Zenon DEF WriteLock, Rest, Continue
  <2>8. CorpusRowOk(row)'
    BY <2>1, <2>5, <2>7, RowsGrow, Zenon 
  <2> QED
    BY <2>1, <2>4, <2>5, <2>7, <2>8, StepOfOne, OneRowMoves, Zenon DEF BackupPcs
<1> QED
  BY <1>1, <1>2, Zenon 

-----------------------------------------------------------------------------
(* Admissions.                                                             *)

LEMMA VerifyLockedStep ==
    ASSUME CorpusInv, NEW o \in Curators, VerifyLocked(o)
    PROVE  CorpusInv' /\ QuietRows
<1>0. /\ UNCHANGED <<corpus, backups, lockedPilots>> /\ CorpusRowOk(curator[o])
      /\ curator[o].golden \in GoldenSets
  BY Zenon DEF VerifyLocked, CorpusInv, CorpusRowOk, IsAt
<1>1. ASSUME Rest(o)
      PROVE  CorpusInv' /\ QuietRows
  BY <1>0, <1>1, RestStep, Zenon 
<1>2. ASSUME NEW c \in Candidates, LockNames(corpus["lock"], curator[o].golden),
             curator' = [curator EXCEPT ![o] =
                 [curator[o] EXCEPT !.pc = "stage",
                        !.golden = [pilot |-> curator[o].golden.pilot,
                                    dev |-> curator[o].golden.dev \cup {c.case}]]]
      PROVE  CorpusInv' /\ QuietRows
  <2>1. PICK old, g, row : /\ old = curator[o]
                           /\ g = [pilot |-> curator[o].golden.pilot,
                                   dev |-> curator[o].golden.dev \cup {c.case}]
                           /\ row = WithGolden(old, "stage", g)
    BY Zenon 
  <2>2. g \in GoldenSets /\ g.pilot = curator[o].golden.pilot
    BY <1>0, <2>1, Zenon DEF GoldenSets, Candidates
  <2>3. g.pilot \in lockedPilots
    BY <1>2, <2>2, Zenon DEF LockNames, CorpusInv, FilesOk, FileOk, CorpusFiles
  <2>4. /\ RowShape(row) /\ row.pc = "stage" /\ row.golden = g /\ row.files = old.files
    <3>1. RowShape(old)
      BY <1>0, <2>1, Zenon DEF CorpusRowOk
    <3> QED
      BY <2>1, <3>1, GoldenMoves
  <2>5. CorpusRowOk(row)
    BY <1>0, <2>1, <2>2, <2>3, <2>4, Zenon DEF CorpusRowOk
  <2>6. curator' = [curator EXCEPT ![o] = row]
    BY <1>2, <2>1, Zenon DEF WithGolden
  <2> QED
    BY <1>0, <2>4, <2>5, <2>6, LocalStep, ZenonT(60) DEF BackupPcs
<1>3. PICK c \in Candidates :
         IF LockNames(corpus["lock"], curator[o].golden) /\ Admissible(curator[o].golden, c)
         THEN Continue(o, [curator[o] EXCEPT !.pc = "stage",
                               !.golden = [pilot |-> curator[o].golden.pilot,
                                           dev |-> curator[o].golden.dev \cup {c.case}]])
         ELSE Rest(o)
  BY Zenon DEF VerifyLocked
<1> QED
  BY <1>1, <1>2, <1>3, Zenon DEF Continue

LEMMA StagedSteps ==
    ASSUME CorpusInv, OpenedInv, NEW o \in Curators,
           OpenStaged(o) \/ FillStaged(o) \/ UnlinkStaged(o)
    PROVE  CorpusInv' /\ QuietRows
<1>0. /\ UNCHANGED <<backups, lockedPilots>> /\ CorpusRowOk(curator[o]) /\ "intake" \in CorpusFiles
  BY Zenon DEF OpenStaged, FillStaged, UnlinkStaged, CorpusInv, CorpusFiles
<1>1. ASSUME Rest(o), NEW c \in {AbsentFile, Torn}, corpus' = [corpus EXCEPT !["intake"] = c]
      PROVE  CorpusInv' /\ QuietRows
  <2>1. PICK row : row = AtRest
    BY Zenon 
  <2>2. curator' = [curator EXCEPT ![o] = row] /\ CorpusRowOk(row) /\ row.pc = "idle"
    BY <1>1, <2>1, RestIsOk, RestRow, Zenon DEF Rest, Continue
  <2>3. FileOk("intake", c, lockedPilots)
    BY UnreadableIsOk, Zenon 
  <2> QED
    BY <1>0, <1>1, <2>2, <2>3, FileStep, Zenon DEF BackupPcs
<1>2. CASE OpenStaged(o)
  <2>1. ASSUME Rest(o), corpus' = corpus
        PROVE  CorpusInv' /\ QuietRows
    <3>1. UNCHANGED <<corpus, backups, lockedPilots>>
      BY <1>0, <2>1, Zenon 
    <3> QED
      BY <2>1, <3>1, RestStep, Zenon 
  <2>2. ASSUME corpus' = [corpus EXCEPT !["intake"] = Torn], StepTo(o, "fill")
        PROVE  CorpusInv' /\ QuietRows
    <3>1. PICK row : /\ curator' = [curator EXCEPT ![o] = row]
                     /\ RowShape(row) /\ row.pc = "fill" /\ row.golden = curator[o].golden
                     /\ row.files = curator[o].files
      BY <2>2, StepToRow
    <3>2. CorpusRowOk(row)
      BY <1>0, <1>2, <3>1, Zenon DEF CorpusRowOk, OpenStaged, IsAt
    <3>3. PICK c \in {AbsentFile, Torn} : corpus' = [corpus EXCEPT !["intake"] = c]
      BY <2>2, Zenon 
    <3>4. FileOk("intake", c, lockedPilots)
      BY UnreadableIsOk, Zenon 
    <3>5. curator' = [curator EXCEPT ![o] = row]
      BY <3>1, Zenon 
    <3> QED
      BY <1>0, <3>1, <3>2, <3>3, <3>4, <3>5, FileStep, Zenon DEF BackupPcs
  <2> QED
    BY <1>2, <2>1, <2>2, Zenon DEF OpenStaged
<1>3. CASE FillStaged(o)
  <2>1. ASSUME WriteOpened(o, curator[o].golden), StepTo(o, "verify")
        PROVE  CorpusInv' /\ QuietRows
    <3>1. PICK row : /\ curator' = [curator EXCEPT ![o] = row]
                     /\ RowShape(row) /\ row.pc = "verify" /\ row.files = curator[o].files
      BY <2>1, StepToRow
    <3>2. CorpusRowOk(row)
      BY <1>0, <3>1, Zenon DEF CorpusRowOk
    <3>3. PICK g : g = curator[o].golden
      OBVIOUS
    <3>4. g \in GoldenSets /\ g.pilot \in lockedPilots
      BY <1>0, <1>3, <3>3, Zenon DEF CorpusRowOk, FillStaged, IsAt
    <3>5. opened[o] \in {"intake", "golden", "gone"}
      BY <1>3, Zenon DEF FillStaged, IsAt, OpenedInv, OpenOk
    <3>6. opened[o] # "gone" => /\ opened[o] \in CorpusFiles
                                /\ FileOk(opened[o], g, lockedPilots)
      BY <3>4, <3>5, Zenon DEF FileOk, CorpusFiles
    <3>7. curator' = [curator EXCEPT ![o] = row] /\ WriteOpened(o, g)
          /\ UNCHANGED <<backups, lockedPilots>>
      BY <1>0, <2>1, <3>1, <3>3, Zenon
    <3> QED
      BY <3>1, <3>2, <3>6, <3>7, WrittenFile, Zenon DEF BackupPcs
  <2> QED
    BY <1>1, <1>3, <2>1, Zenon DEF FillStaged
<1> QED
  BY <1>1, <1>2, <1>3, Zenon DEF UnlinkStaged


LEMMA VerifyStagedStep ==
    ASSUME CorpusInv, NEW o \in Curators, VerifyStaged(o)
    PROVE  CorpusInv' /\ QuietRows
<1>0. /\ UNCHANGED <<corpus, backups, lockedPilots>> /\ CorpusRowOk(curator[o])
  BY Zenon DEF VerifyStaged, CorpusInv
<1>1. PICK pc \in {"replace", "unlink"} : StepTo(o, pc)
  BY Zenon DEF VerifyStaged
<1>2. PICK row : /\ curator' = [curator EXCEPT ![o] = row]
                 /\ RowShape(row) /\ row.pc = pc /\ row.files = curator[o].files
  BY <1>1, StepToRow
<1>3. CorpusRowOk(row)
  BY <1>0, <1>1, <1>2, Zenon DEF CorpusRowOk
<1> QED
  BY <1>0, <1>2, <1>3, LocalStep, Zenon DEF BackupPcs

LEMMA ReplaceGoldenStep ==
    ASSUME CorpusInv, NEW o \in Curators, ReplaceGolden(o)
    PROVE  /\ CorpusInv' /\ QuietRows
           /\ corpus'["golden"] \in {corpus["golden"], corpus["intake"]}
<1>0. /\ staging' = staging /\ snapshots' = snapshots /\ lockedPilots' = lockedPilots
      /\ CorpusRowOk(curator[o])
  BY Zenon DEF ReplaceGolden, CorpusInv, backups
<1>1. PICK row : /\ curator' = [curator EXCEPT ![o] = row]
                 /\ RowShape(row) /\ row.pc = "unlink" /\ row.files = curator[o].files
  BY StepToRow DEF ReplaceGolden
<1>2. CorpusRowOk(row)
  BY <1>0, <1>1, Zenon DEF CorpusRowOk
<1>3. DirectoriesPart'
  BY <1>0, DirectoriesKept, Zenon 
<1>4. CorpusRowOk(row)'
  BY <1>0, <1>2, <1>3, RowsGrow, Zenon 
<1>5. CASE corpus' = corpus
  <2>1. CorpusPart'
    BY <1>0, <1>5, CorpusKept, Zenon 
  <2> QED
    BY <1>0, <1>1, <1>3, <1>4, <1>5, <2>1, StepOfOne, OneRowMoves, Zenon DEF BackupPcs
<1>6. CASE corpus' # corpus
  <2>0. corpus' = [[corpus EXCEPT !["golden"] = corpus["intake"]] EXCEPT !["intake"] = AbsentFile]
    BY <1>6, Zenon DEF ReplaceGolden
  <2>1. PICK half : half = [corpus EXCEPT !["golden"] = corpus["intake"]]
    BY Zenon 
  <2>2. /\ half = [f \in CorpusFiles |-> half[f]]
        /\ half["golden"] = corpus["intake"] /\ half["lock"] = corpus["lock"]
    BY <2>1, Zenon DEF CorpusInv, CorpusFiles
  <2>3. corpus' = [half EXCEPT !["intake"] = AbsentFile]
    BY <2>0, <2>1, Zenon 
  <2>4. /\ corpus' = [f \in CorpusFiles |-> corpus'[f]]
        /\ corpus'["golden"] = corpus["intake"] /\ corpus'["lock"] = corpus["lock"]
        /\ corpus'["intake"] = AbsentFile
    BY <2>2, <2>3, Zenon DEF CorpusFiles
  <2>5. FileOk("golden", corpus["intake"], lockedPilots)
    BY Zenon DEF CorpusInv, FilesOk, FileOk, CorpusFiles
  <2>6. FilesOk(corpus, lockedPilots)'
    BY <1>0, <2>4, <2>5, UnreadableIsOk, Zenon DEF CorpusInv, FilesOk, CorpusFiles
  <2>7. CorpusPart'
    BY <2>4, <2>6, Zenon DEF CorpusPart
  <2> QED
    BY <1>0, <1>1, <1>3, <1>4, <2>4, <2>7, StepOfOne, OneRowMoves, Zenon DEF BackupPcs
<1> QED
  BY <1>5, <1>6, Zenon 

-----------------------------------------------------------------------------
(* Backups and recoveries.                                                 *)

LEMMA InstantsAreInstants ==
    ASSUME NEW o \in Curators
    PROVE  InstantOf[o] \in Instants
BY Zenon DEF Instants

LEMMA StagingSet ==
    ASSUME CorpusInv, NEW t \in Instants, NEW d, staging' = [staging EXCEPT ![t] = d],
           DirectoryOk(d, lockedPilots), snapshots' = snapshots, lockedPilots' = lockedPilots
    PROVE  DirectoriesPart'
<1>1. /\ staging' = [u \in Instants |-> staging'[u]]
      /\ staging'[t] = d /\ \A u \in Instants \ {t} : staging'[u] = staging[u]
  BY Zenon DEF CorpusInv
<1>2. \A u \in Instants : DirectoryOk(staging'[u], lockedPilots)
  BY <1>1, Zenon DEF CorpusInv
<1> QED
  BY <1>1, <1>2, Zenon DEF CorpusInv, DirectoriesPart, Instants

\* Writing one entry of a directory.
LEMMA EntrySet ==
    ASSUME NEW locked, NEW d, DirectoryOk(d, locked), d # AbsentFile,
           NEW f \in DirectoryFiles, NEW content,
           f \in CorpusFiles => FileOk(f, content, locked)
    PROVE  LET e == [d EXCEPT ![f] = content]
           IN  /\ DirectoryOk(e, locked) /\ e = [g \in DirectoryFiles |-> e[g]]
               /\ e[f] = content /\ \A g \in DirectoryFiles \ {f} : e[g] = d[g]
<1> DEFINE e == [d EXCEPT ![f] = content]
<1>1. /\ e = [g \in DirectoryFiles |-> e[g]] /\ e[f] = content
      /\ \A g \in DirectoryFiles \ {f} : e[g] = d[g]
  BY Zenon DEF DirectoryOk
<1> HIDE DEF e
<1>2. \A g \in CorpusFiles : FileOk(g, e[g], locked)
  BY <1>1, Zenon DEF DirectoryOk, FilesOk, DirectoryFiles
<1>3. DirectoryOk(e, locked)
  BY <1>1, <1>2, Zenon DEF DirectoryOk, FilesOk
<1> QED
  BY <1>1, <1>3, Zenon DEF e

LEMMA NoDirectory ==
    /\ \A locked : DirectoryOk(AbsentFile, locked) /\ DirectoryOk(EmptyDirectory, locked)
    /\ EmptyDirectory = [f \in DirectoryFiles |-> EmptyDirectory[f]]
    /\ \A f \in DirectoryFiles : EmptyDirectory[f] = AbsentFile
<1>1. /\ EmptyDirectory = [f \in DirectoryFiles |-> EmptyDirectory[f]]
      /\ \A f \in DirectoryFiles : EmptyDirectory[f] = AbsentFile
  BY Zenon DEF EmptyDirectory, DirectoryFiles
<1> HIDE DEF EmptyDirectory
<1>2. ASSUME NEW locked
      PROVE  FilesOk(EmptyDirectory, locked)
  BY <1>1, UnreadableIsOk, Zenon DEF FilesOk, DirectoryFiles
<1> QED
  BY <1>1, <1>2, Zenon DEF DirectoryOk

\* A step of one process that changes its staging and nothing else.
LEMMA StagingStep ==
    ASSUME CorpusInv, NEW o \in Curators, NEW row, curator' = [curator EXCEPT ![o] = row],
           CorpusRowOk(row), corpus' = corpus, snapshots' = snapshots, lockedPilots' = lockedPilots,
           NEW d, staging' = [staging EXCEPT ![InstantOf[o]] = d], DirectoryOk(d, lockedPilots)
    PROVE  CorpusInv'
<1>1. CorpusPart'
  BY CorpusKept, Zenon 
<1>2. PICK t \in Instants : t = InstantOf[o]
  BY InstantsAreInstants, Zenon 
<1>3. staging' = [staging EXCEPT ![t] = d]
  BY <1>2, Zenon 
<1>4. DirectoriesPart'
  BY <1>3, StagingSet, Zenon 
<1>5. CorpusRowOk(row)'
  BY <1>4, RowsGrow, Zenon 
<1> QED
  BY <1>1, <1>4, <1>5, StepOfOne, Zenon 

\* ... or not even that.
LEMMA StagingKept ==
    ASSUME CorpusInv, NEW o \in Curators, NEW row, curator' = [curator EXCEPT ![o] = row],
           CorpusRowOk(row), corpus' = corpus, snapshots' = snapshots, lockedPilots' = lockedPilots,
           staging' = staging
    PROVE  CorpusInv'
<1>1. CorpusPart' /\ DirectoriesPart'
  BY CorpusKept, DirectoriesKept, Zenon 
<1>2. CorpusRowOk(row)'
  BY <1>1, RowsGrow, Zenon 
<1> QED
  BY <1>1, <1>2, StepOfOne, ZenonT(60) 

LEMMA CollectSteps ==
    ASSUME CorpusInv, NEW o \in Curators,
           StartBackup(o) \/ Collect(o) \/ CuratorDies(o)
    PROVE  CorpusInv' /\ QuietRows
<1>0. /\ corpus' = corpus /\ staging' = staging /\ snapshots' = snapshots
      /\ lockedPilots' = lockedPilots /\ CorpusRowOk(curator[o])
  BY Zenon DEF StartBackup, Collect, CuratorDies, CorpusInv, backups
<1>1. CorpusPart' /\ DirectoriesPart'
  BY <1>0, CorpusKept, DirectoriesKept, Zenon 
<1>2. ASSUME NEW row, curator' = [curator EXCEPT ![o] = row], CorpusRowOk(row),
             row.pc \notin BackupPcs
      PROVE  CorpusInv' /\ QuietRows
  <2>1. CorpusRowOk(row)'
    BY <1>0, <1>1, <1>2, RowsGrow, Zenon 
  <2> QED
    BY <1>0, <1>1, <1>2, <2>1, StepOfOne, OneRowMoves, Zenon DEF BackupPcs
<1>3. ASSUME Rest(o)
      PROVE  CorpusInv' /\ QuietRows
  <2>1. PICK row : row = AtRest
    BY Zenon 
  <2>2. curator' = [curator EXCEPT ![o] = row] /\ CorpusRowOk(row) /\ row.pc = "idle"
    BY <1>3, <2>1, RestIsOk, RestRow, Zenon DEF Rest, Continue
  <2> QED
    BY <1>2, <2>2, Zenon DEF BackupPcs
<1>4. CASE StartBackup(o)
  <2>1. PICK td, row : td = PresentFiles(corpus) /\ row = WithTodo(AtRest, "collect", td)
    BY Zenon 
  <2>2. curator' = [curator EXCEPT ![o] = row]
    BY <1>4, <2>1, Zenon DEF StartBackup, Continue, WithTodo
  <2>3. RowShape(row) /\ row.pc = "collect" /\ row.todo = td /\ row.files = AtRest.files
    BY <2>1, RestRow, TodoMoves
  <2>4. td \subseteq CorpusFiles
    BY <2>1, Zenon DEF PresentFiles
  <2>5. CorpusRowOk(row)
    BY <2>3, <2>4, RestIsOk, Zenon DEF CorpusRowOk
  <2> QED
    BY <1>2, <2>2, <2>3, <2>5, Zenon DEF BackupPcs
<1>5. CASE Collect(o)
  <2>1. PICK f \in curator[o].todo :
            IF corpus[f] = AbsentFile THEN Rest(o)
            ELSE Continue(o, [curator[o] EXCEPT !.todo = curator[o].todo \ {f},
                                 !.files = [curator[o].files EXCEPT ![f] = corpus[f]]])
    BY <1>5, Zenon DEF Collect
  <2>2. ASSUME ~ Rest(o)
        PROVE  CorpusInv' /\ QuietRows
    <3>1. PICK old, td, fs, row :
               /\ old = curator[o] /\ td = curator[o].todo \ {f}
               /\ fs = [curator[o].files EXCEPT ![f] = corpus[f]]
               /\ row = WithFiles(old, td, fs)
      BY Zenon 
    <3>2. curator' = [curator EXCEPT ![o] = row]
      BY <2>1, <2>2, <3>1, Zenon DEF Continue, WithFiles
    <3>3. RowShape(old) /\ f \in CorpusFiles /\ old.pc = "collect"
      BY <1>0, <1>5, <2>1, <3>1, Zenon DEF CorpusRowOk, Collect, IsAt
    <3>4. /\ RowShape(row) /\ row.pc = old.pc /\ row.todo = td /\ row.files = fs
      BY <3>1, <3>3, FilesMove, SMTT(60) 
    <3>5. td \subseteq CorpusFiles
      BY <1>0, <3>1, <3>3, Zenon DEF CorpusRowOk
    <3>6. /\ fs = [g \in CorpusFiles |-> fs[g]]
          /\ fs[f] = corpus[f] /\ \A g \in CorpusFiles \ {f} : fs[g] = old.files[g]
      BY <1>0, <3>1, <3>3, Zenon DEF CorpusRowOk
    <3>7. FilesOk(fs, lockedPilots)
      BY <1>0, <3>1, <3>6, Zenon DEF CorpusRowOk, FilesOk, CorpusInv
    <3>8. CorpusRowOk(row)
      BY <3>3, <3>4, <3>5, <3>6, <3>7, Zenon DEF CorpusRowOk
    <3> QED
      BY <1>2, <3>2, <3>3, <3>4, <3>8, ZenonT(60) DEF BackupPcs
  <2> QED
    BY <1>3, <2>2, Zenon 
<1> QED
  BY <1>3, <1>4, <1>5, Zenon DEF CuratorDies

LEMMA DecideBackupStep ==
    ASSUME CorpusInv, NEW o \in Curators, DecideBackup(o)
    PROVE  /\ CorpusInv'
           /\ \/ QuietRows
              \/ /\ \A p \in Curators \ {o} : curator'[p] = curator[p]
                 /\ curator'[o].pc = "mkdir" /\ curator'[o].files = curator[o].files
                 /\ curator'[o].todo = PresentFiles(curator[o].files)
<1>0. /\ corpus' = corpus /\ staging' = staging /\ snapshots' = snapshots
      /\ lockedPilots' = lockedPilots /\ CorpusRowOk(curator[o])
  BY Zenon DEF DecideBackup, CorpusInv
<1>1. CASE Rest(o)
  <2>1. PICK row : row = AtRest
    BY Zenon 
  <2>2. curator' = [curator EXCEPT ![o] = row] /\ CorpusRowOk(row) /\ row.pc = "idle"
    BY <1>1, <2>1, RestIsOk, RestRow, Zenon DEF Rest, Continue
  <2>3. CorpusInv'
    BY <1>0, <2>2, StagingKept, Zenon 
  <2>4. QuietRows
    BY <2>2, OneRowMoves, Zenon DEF BackupPcs
  <2> QED
    BY <2>3, <2>4, Zenon 
<1>2. CASE ~ Rest(o)
  <2>1. PICK old, td, row :
             /\ old = curator[o] /\ td = PresentFiles(curator[o].files)
             /\ row = WithTodo(old, "mkdir", td)
    BY Zenon 
  <2>2. curator' = [curator EXCEPT ![o] = row]
    BY <1>2, <2>1, ZenonT(60) DEF DecideBackup, Continue, WithTodo
  <2>3. RowShape(old)
    BY <1>0, <2>1, Zenon DEF CorpusRowOk
  <2>4. /\ RowShape(row) /\ row.pc = "mkdir" /\ row.files = old.files /\ row.todo = td
    BY <2>1, <2>3, TodoMoves, SMTT(60) 
  <2>5. CorpusRowOk(row)
    BY <1>0, <2>1, <2>4, ZenonT(60) DEF CorpusRowOk, PresentFiles
  <2>6. CorpusInv'
    BY <1>0, <2>2, <2>5, StagingKept, Zenon 
  <2>7. curator'[o] = row /\ \A p \in Curators \ {o} : curator'[p] = curator[p]
    BY <2>2, Zenon DEF CorpusInv
  <2> QED
    BY <2>1, <2>4, <2>6, <2>7, Zenon 
<1> QED
  BY <1>1, <1>2, Zenon 

LEMMA ToClear ==
    ASSUME CorpusInv, NEW o \in Curators, StepTo(o, "clear")
    PROVE  \E row : curator' = [curator EXCEPT ![o] = row] /\ CorpusRowOk(row) /\ row.pc = "clear"
<1>1. PICK row : /\ curator' = [curator EXCEPT ![o] = row]
                 /\ RowShape(row) /\ row.pc = "clear" /\ row.files = curator[o].files
  BY StepToRow
<1>2. CorpusRowOk(row)
  BY <1>1, Zenon DEF CorpusRowOk, CorpusInv
<1> QED
  BY <1>1, <1>2, Zenon 

LEMMA MakeStagingStep ==
    ASSUME CorpusInv, NEW o \in Curators, MakeStaging(o)
    PROVE  CorpusInv'
<1>0. /\ corpus' = corpus /\ snapshots' = snapshots /\ lockedPilots' = lockedPilots
      /\ CorpusRowOk(curator[o])
  BY Zenon DEF MakeStaging, CorpusInv
<1>1. ASSUME staging' = staging, StepTo(o, "clear")
      PROVE  CorpusInv'
  <2>1. PICK row : curator' = [curator EXCEPT ![o] = row] /\ CorpusRowOk(row)
    BY <1>1, ToClear, Zenon 
  <2> QED
    BY <1>0, <1>1, <2>1, StagingKept, Zenon 
<1>2. ASSUME staging' = [staging EXCEPT ![InstantOf[o]] = EmptyDirectory], StepTo(o, "copy")
      PROVE  CorpusInv'
  <2>1. PICK row : /\ curator' = [curator EXCEPT ![o] = row]
                   /\ RowShape(row) /\ row.pc = "copy" /\ row.files = curator[o].files
                   /\ row.todo = curator[o].todo
    BY <1>2, StepToRow
  <2>2. CorpusRowOk(row)
    BY <1>0, <2>1, Zenon DEF CorpusRowOk, MakeStaging, IsAt
  <2>3. PICK d : d = EmptyDirectory /\ DirectoryOk(d, lockedPilots)
    BY NoDirectory, Zenon 
  <2>4. staging' = [staging EXCEPT ![InstantOf[o]] = d]
    BY <1>2, <2>3, Zenon 
  <2> QED
    BY <1>0, <2>1, <2>2, <2>3, <2>4, StagingStep, Zenon 
<1> QED
  BY <1>1, <1>2, Zenon DEF MakeStaging


\* What a write of one entry leaves, when it does not fail.
LEMMA EntryWritten ==
    ASSUME CorpusInv, NEW o \in Curators, NEW f \in DirectoryFiles, NEW content,
           NEW next, WriteEntry(o, f, content, next),
           f \in CorpusFiles => FileOk(f, content, lockedPilots)
    PROVE  \/ staging' = staging /\ StepTo(o, "clear")
           \/ \E d : /\ staging' = [staging EXCEPT ![InstantOf[o]] = d]
                     /\ staging[InstantOf[o]] # AbsentFile
                     /\ DirectoryOk(d, lockedPilots) /\ d = [g \in DirectoryFiles |-> d[g]]
                     /\ d[f] = content
                     /\ \A g \in DirectoryFiles \ {f} : d[g] = staging[InstantOf[o]][g]
                     /\ curator' = [curator EXCEPT ![o] = next]
<1>1. CASE staging' = staging /\ StepTo(o, "clear")
  BY <1>1, Zenon 
<1>2. ASSUME ~ (staging' = staging /\ StepTo(o, "clear"))
      PROVE  \E d : /\ staging' = [staging EXCEPT ![InstantOf[o]] = d]
                    /\ staging[InstantOf[o]] # AbsentFile
                    /\ DirectoryOk(d, lockedPilots) /\ d = [g \in DirectoryFiles |-> d[g]]
                    /\ d[f] = content
                    /\ \A g \in DirectoryFiles \ {f} : d[g] = staging[InstantOf[o]][g]
                    /\ curator' = [curator EXCEPT ![o] = next]
  <2>1. /\ staging[InstantOf[o]] # AbsentFile
        /\ staging' = [staging EXCEPT ![InstantOf[o]] =
                          [staging[InstantOf[o]] EXCEPT ![f] = content]]
        /\ curator' = [curator EXCEPT ![o] = next]
    BY <1>2, Zenon DEF WriteEntry, Continue
  <2>2. PICK before, d : /\ before = staging[InstantOf[o]]
                         /\ d = [before EXCEPT ![f] = content]
    OBVIOUS
  <2>3. DirectoryOk(before, lockedPilots) /\ before # AbsentFile
    BY <2>1, <2>2, InstantsAreInstants, Zenon DEF CorpusInv
  <2>4. /\ DirectoryOk(d, lockedPilots) /\ d = [g \in DirectoryFiles |-> d[g]]
        /\ d[f] = content /\ \A g \in DirectoryFiles \ {f} : d[g] = before[g]
    BY <2>2, <2>3, EntrySet
  <2> QED
    BY <2>1, <2>2, <2>4, Zenon 
<1> QED
  BY <1>1, <1>2, Zenon 

LEMMA CopyFileStep ==
    ASSUME CorpusInv, NEW o \in Curators, CopyFile(o)
    PROVE  CorpusInv'
<1>0. /\ corpus' = corpus /\ snapshots' = snapshots /\ lockedPilots' = lockedPilots
      /\ CorpusRowOk(curator[o]) /\ curator[o].pc = "copy"
  BY Zenon DEF CopyFile, CorpusInv, IsAt
<1>1. ASSUME staging' = staging, StepTo(o, "clear")
      PROVE  CorpusInv'
  <2>1. PICK row : curator' = [curator EXCEPT ![o] = row] /\ CorpusRowOk(row)
    BY <1>1, ToClear, Zenon 
  <2> QED
    BY <1>0, <1>1, <2>1, StagingKept, Zenon 
<1>2. PICK old : old = curator[o] /\ CorpusRowOk(old) /\ RowShape(old) /\ old.pc = "copy"
  BY <1>0, Zenon DEF CorpusRowOk
<1>3. ASSUME NEW f \in old.todo,
             WriteEntry(o, f, old.files[f], [old EXCEPT !.todo = old.todo \ {f}])
      PROVE  CorpusInv'
  <2>1. f \in CorpusFiles /\ f \in DirectoryFiles
    BY <1>2, <1>3, Zenon DEF CorpusRowOk, DirectoryFiles
  <2>2. PICK td, row, content : /\ td = old.todo \ {f} /\ row = WithLess(old, td)
                                /\ content = old.files[f]
    BY Zenon 
  <2>3. WriteEntry(o, f, content, row)
    BY <1>3, <2>2, ZenonT(60) DEF WithLess
  <2>4. FileOk(f, content, lockedPilots)
    BY <1>2, <2>1, <2>2, Zenon DEF CorpusRowOk, FilesOk
  <2>5. RowShape(row) /\ row.pc = "copy" /\ row.files = old.files /\ row.todo = td
    BY <1>2, <2>2, TodoShrinks, SMTT(60) 
  <2>6. CorpusRowOk(row)
    BY <1>2, <2>2, <2>5, Zenon DEF CorpusRowOk
  <2>7. ASSUME ~ (staging' = staging /\ StepTo(o, "clear"))
        PROVE  CorpusInv'
    <3>1. PICK d : /\ staging' = [staging EXCEPT ![InstantOf[o]] = d]
                   /\ DirectoryOk(d, lockedPilots) /\ curator' = [curator EXCEPT ![o] = row]
      BY <2>1, <2>3, <2>4, <2>7, EntryWritten
    <3> QED
      BY <1>0, <2>6, <3>1, StagingStep, Zenon 
  <2> QED
    BY <1>1, <2>7, Zenon 
<1>4. ASSUME WriteEntry(o, "manifest", old.files, [old EXCEPT !.pc = "rename"])
      PROVE  CorpusInv'
  <2>1. "manifest" \notin CorpusFiles /\ "manifest" \in DirectoryFiles
    BY Zenon DEF CorpusFiles, DirectoryFiles
  <2>2. PICK row, content, m : /\ row = WithPc(old, "rename") /\ content = old.files
                               /\ m = "manifest"
    BY Zenon 
  <2>3. WriteEntry(o, m, content, row)
    BY <1>4, <2>2, Zenon DEF WithPc
  <2>4. RowShape(row) /\ row.pc = "rename" /\ row.files = old.files
    BY <1>2, <2>2, PcMoves
  <2>5. CorpusRowOk(row)
    BY <1>2, <2>4, Zenon DEF CorpusRowOk
  <2>6. ASSUME ~ (staging' = staging /\ StepTo(o, "clear"))
        PROVE  CorpusInv'
    <3>1. PICK d : /\ staging' = [staging EXCEPT ![InstantOf[o]] = d]
                   /\ DirectoryOk(d, lockedPilots) /\ curator' = [curator EXCEPT ![o] = row]
      BY <2>1, <2>2, <2>3, <2>6, EntryWritten
    <3> QED
      BY <1>0, <2>5, <3>1, StagingStep, Zenon 
  <2> QED
    BY <1>1, <2>6, Zenon 
<1> QED
  BY <1>2, <1>3, <1>4, Zenon DEF CopyFile

LEMMA ClearStagingStep ==
    ASSUME CorpusInv, NEW o \in Curators, ClearStaging(o)
    PROVE  CorpusInv' /\ QuietRows
<1>0. UNCHANGED <<corpus, backups, lockedPilots>> /\ CorpusRowOk(curator[o])
  BY Zenon DEF ClearStaging, CorpusInv
<1>1. CASE Rest(o)
  BY <1>0, <1>1, RestStep, Zenon
<1>2. CASE ~ Rest(o)
  <2>1. PICK old, td, row :
             /\ old = curator[o]
             /\ td = {f \in DOMAIN EmptyDirectory : Holds(staging[InstantOf[o]], f)}
             /\ row = WithTodo(old, "remove", td)
    BY Zenon
  <2>2. curator' = [curator EXCEPT ![o] = row]
    BY <1>2, <2>1, ZenonT(60) DEF ClearStaging, Continue, WithTodo
  <2>3. RowShape(old)
    BY <1>0, <2>1, Zenon DEF CorpusRowOk
  <2>4. RowShape(row) /\ row.pc = "remove" /\ row.files = old.files
    BY <2>1, <2>3, TodoMoves, SMTT(60)
  <2>5. CorpusRowOk(row)
    BY <1>0, <2>1, <2>4, Zenon DEF CorpusRowOk
  <2> QED
    BY <1>0, <2>2, <2>4, <2>5, LocalStep, Zenon DEF BackupPcs
<1> QED
  BY <1>1, <1>2, Zenon

DirectoriesOk(ds, locked) ==
    ds = [t \in Instants |-> ds[t]] /\ \A t \in Instants : DirectoryOk(ds[t], locked)

SameBut(t, before, after) == \A u \in Instants \ {t} : after[u] = before[u]

\* A directory that may have lost an entry.
LEMMA UnlinkedIsOk ==
    ASSUME NEW locked, NEW directories, NEW t, NEW f,
           DirectoriesOk(directories, locked), t \in Instants
    PROVE  /\ DirectoriesOk(Unlinked(directories, t, f), locked)
           /\ SameBut(t, directories, Unlinked(directories, t, f))
<1> USE DEF DirectoriesOk, SameBut
<1>1. CASE ~ Holds(directories[t], f)
  BY <1>1, Zenon DEF Unlinked
<1>2. CASE Holds(directories[t], f)
  <2>1. PICK before, c, d, ds : /\ before = directories[t] /\ c = AbsentFile
                                /\ d = [before EXCEPT ![f] = c]
                                /\ ds = [directories EXCEPT ![t] = d]
    OBVIOUS
  <2>2. Unlinked(directories, t, f) = ds
    BY <1>2, <2>1, Zenon DEF Unlinked
  <2>3. before # AbsentFile /\ DirectoryOk(before, locked)
    BY <1>2, <2>1, Zenon DEF Holds
  <2>4. CASE f \in DirectoryFiles
    <3>1. FileOk(f, c, locked)
      BY <2>1, UnreadableIsOk, Zenon
    <3>2. DirectoryOk(d, locked)
      BY <2>1, <2>3, <2>4, <3>1, EntrySet, Zenon
    <3>3. /\ ds = [u \in Instants |-> ds[u]] /\ ds[t] = d
          /\ \A u \in Instants \ {t} : ds[u] = directories[u]
      BY <2>1, Zenon
    <3> QED
      BY <2>2, <3>2, <3>3, Zenon
  <2>5. CASE f \notin DirectoryFiles
    <3>1. d = before
      BY <2>1, <2>3, <2>5, Zenon DEF DirectoryOk
    <3>2. ds = directories
      BY <2>1, <3>1, Zenon
    <3> QED
      BY <2>2, <3>2, Zenon
  <2> QED
    BY <2>4, <2>5, Zenon
<1> QED
  BY <1>1, <1>2, Zenon

LEMMA RemoveEntryStep ==
    ASSUME CorpusInv, NEW o \in Curators, RemoveEntry(o)
    PROVE  /\ CorpusInv' /\ QuietRows
           /\ \A t \in Instants \ {InstantOf[o]} :
                 staging'[t] = staging[t] /\ snapshots'[t] = snapshots[t]
<1>0. /\ corpus' = corpus /\ lockedPilots' = lockedPilots
      /\ CorpusRowOk(curator[o]) /\ curator[o].pc = "remove"
  BY Zenon DEF RemoveEntry, CorpusInv, IsAt
<1>1. PICK t : t \in Instants /\ t = InstantOf[o]
  BY InstantsAreInstants, Zenon
<1>2. PICK old : old = curator[o] /\ RowShape(old) /\ old.pc = "remove" /\ CorpusRowOk(old)
  BY <1>0, Zenon DEF CorpusRowOk
<1>b. t \in Instants
  BY <1>1
<1>a. PICK f : /\ staging' = IF opened[o] = "staging" THEN Unlinked(staging, InstantOf[o], f)
                             ELSE staging
               /\ snapshots' = IF opened[o] = "snapshot" THEN Unlinked(snapshots, InstantOf[o], f)
                               ELSE snapshots
               /\ Continue(o, [curator[o] EXCEPT !.todo = curator[o].todo \ {f}])
  BY Zenon DEF RemoveEntry
<1>3. /\ staging' = Unlinked(staging, t, f) \/ staging' = staging
      /\ snapshots' = Unlinked(snapshots, t, f) \/ snapshots' = snapshots
      /\ Continue(o, [old EXCEPT !.todo = old.todo \ {f}])
  BY <1>1, <1>2, <1>a, Zenon
<1>4. /\ staging' = [u \in Instants |-> staging'[u]]
      /\ \A u \in Instants : DirectoryOk(staging'[u], lockedPilots)
      /\ \A u \in Instants \ {t} : staging'[u] = staging[u]
  <2>1. CASE staging' = staging
    BY <2>1, Zenon DEF CorpusInv
  <2>2. CASE staging' = Unlinked(staging, t, f)
    <3>1. PICK ds, locked : ds = staging /\ locked = lockedPilots
      BY Zenon
    <3>2. DirectoriesOk(ds, locked)
      BY <3>1, Zenon DEF CorpusInv, DirectoriesOk
    <3>3. /\ DirectoriesOk(Unlinked(ds, t, f), locked)
          /\ SameBut(t, ds, Unlinked(ds, t, f))
      BY <1>b, <3>2, UnlinkedIsOk, Zenon
    <3> QED
      BY <2>2, <3>1, <3>3, Zenon DEF DirectoriesOk, SameBut
  <2> QED
    BY <1>3, <2>1, <2>2, Zenon
<1>5. /\ snapshots' = [u \in Instants |-> snapshots'[u]]
      /\ \A u \in Instants : DirectoryOk(snapshots'[u], lockedPilots)
      /\ \A u \in Instants \ {t} : snapshots'[u] = snapshots[u]
  <2>1. CASE snapshots' = snapshots
    BY <2>1, Zenon DEF CorpusInv
  <2>2. CASE snapshots' = Unlinked(snapshots, t, f)
    <3>1. PICK ds, locked : ds = snapshots /\ locked = lockedPilots
      BY Zenon
    <3>2. DirectoriesOk(ds, locked)
      BY <3>1, Zenon DEF CorpusInv, DirectoriesOk
    <3>3. /\ DirectoriesOk(Unlinked(ds, t, f), locked)
          /\ SameBut(t, ds, Unlinked(ds, t, f))
      BY <1>b, <3>2, UnlinkedIsOk, Zenon
    <3> QED
      BY <2>2, <3>1, <3>3, Zenon DEF DirectoriesOk, SameBut
  <2> QED
    BY <1>3, <2>1, <2>2, Zenon
<1>6. DirectoriesPart' /\ CorpusPart'
  BY <1>0, <1>4, <1>5, CorpusKept, Zenon DEF DirectoriesPart, Instants
<1>7. PICK td, row : td = old.todo \ {f} /\ row = WithLess(old, td)
  BY Zenon
<1>8. RowShape(row) /\ row.pc = "remove" /\ row.files = old.files
  BY <1>2, <1>7, TodoShrinks, SMTT(60)
<1>9. CorpusRowOk(row)
  BY <1>2, <1>8, Zenon DEF CorpusRowOk
<1>10. CorpusRowOk(row)'
  BY <1>0, <1>9, RowsGrow, Zenon
<1>11. curator' = [curator EXCEPT ![o] = row]
  BY <1>3, <1>7, Zenon DEF Continue, WithLess
<1>12. CorpusInv' /\ QuietRows
  BY <1>0, <1>6, <1>8, <1>10, <1>11, StepOfOne, OneRowMoves, Zenon DEF BackupPcs
<1> QED
  BY <1>1, <1>4, <1>5, <1>12, Zenon

LEMMA RemoveStagingStep ==
    ASSUME CorpusInv, NEW o \in Curators, RemoveStaging(o)
    PROVE  CorpusInv' /\ QuietRows
<1>0. /\ corpus' = corpus /\ snapshots' = snapshots /\ lockedPilots' = lockedPilots /\ Rest(o)
  BY Zenon DEF RemoveStaging
<1>1. PICK row, d : row = AtRest /\ d = AbsentFile
  BY Zenon
<1>2. curator' = [curator EXCEPT ![o] = row] /\ CorpusRowOk(row) /\ row.pc = "idle"
  BY <1>0, <1>1, RestIsOk, RestRow, Zenon DEF Rest, Continue
<1>3. QuietRows
  BY <1>2, OneRowMoves, Zenon DEF BackupPcs
<1>4. CASE staging' = staging
  BY <1>0, <1>2, <1>3, <1>4, StagingKept, Zenon
<1>5. CASE staging' = [staging EXCEPT ![InstantOf[o]] = AbsentFile]
  <2>1. DirectoryOk(d, lockedPilots) /\ staging' = [staging EXCEPT ![InstantOf[o]] = d]
    BY <1>1, <1>5, NoDirectory, Zenon
  <2> QED
    BY <1>0, <1>2, <1>3, <2>1, StagingStep, Zenon
<1> QED
  BY <1>4, <1>5, Zenon DEF RemoveStaging

LEMMA RecordSnapshotStep ==
    ASSUME CorpusInv, NEW o \in Curators, RecordSnapshot(o)
    PROVE  CorpusInv'
<1>0. corpus' = corpus /\ lockedPilots' = lockedPilots /\ Rest(o)
  BY Zenon DEF RecordSnapshot
<1>1. PICK row : row = AtRest
  BY Zenon 
<1>2. curator' = [curator EXCEPT ![o] = row] /\ CorpusRowOk(row)
  BY <1>0, <1>1, RestIsOk, Zenon DEF Rest, Continue
<1>3. CorpusPart'
  BY <1>0, CorpusKept, Zenon 
<1>4. CASE staging' = staging /\ snapshots' = snapshots
  BY <1>0, <1>2, <1>4, StagingKept, DirectoriesKept, Zenon 
<1>5. ASSUME NEW t \in Instants, t = InstantOf[o],
             snapshots' = [snapshots EXCEPT ![t] = staging[t]],
             staging' = [staging EXCEPT ![t] = AbsentFile]
      PROVE  CorpusInv'
  <2>1. /\ snapshots' = [u \in Instants |-> snapshots'[u]]
        /\ snapshots'[t] = staging[t]
        /\ \A u \in Instants \ {t} : snapshots'[u] = snapshots[u]
        /\ staging' = [u \in Instants |-> staging'[u]] /\ staging'[t] = AbsentFile
        /\ \A u \in Instants \ {t} : staging'[u] = staging[u]
    BY <1>5, Zenon DEF CorpusInv
  <2>3. \A u \in Instants : /\ DirectoryOk(staging'[u], lockedPilots)
                            /\ DirectoryOk(snapshots'[u], lockedPilots)
    BY <2>1, NoDirectory, Zenon DEF CorpusInv
  <2>4. DirectoriesPart'
    BY <1>0, <2>1, <2>3, Zenon DEF DirectoriesPart, Instants
  <2>5. CorpusRowOk(row)'
    BY <1>0, <1>2, RowsGrow, Zenon 
  <2> QED
    BY <1>0, <1>2, <1>3, <2>4, <2>5, StepOfOne, Zenon 
<1> QED
  BY <1>4, <1>5, InstantsAreInstants, Zenon DEF RecordSnapshot, backups

LEMMA StartRecoveryStep ==
    ASSUME CorpusInv, NEW o \in Curators, StartRecovery(o)
    PROVE  CorpusInv' /\ QuietRows
<1>0. UNCHANGED <<corpus, backups, lockedPilots>>
  BY Zenon DEF StartRecovery
<1>1. PICK t \in Instants :
         curator' = [curator EXCEPT ![o] =
            [AtRest EXCEPT !.pc = "create", !.from = t,
                           !.todo = PresentFiles(snapshots[t]["manifest"])]]
  BY Zenon DEF StartRecovery, Continue, RecordedInstants
<1>2. PICK td, row : /\ td = PresentFiles(snapshots[t]["manifest"])
                     /\ row = WithSnapshot(AtRest, "create", t, td)
  BY Zenon 
<1>3. curator' = [curator EXCEPT ![o] = row]
  BY <1>1, <1>2, ZenonT(60) DEF WithSnapshot
<1>4. /\ RowShape(row) /\ row.pc = "create" /\ row.from = t /\ row.todo = td
      /\ row.files = AtRest.files
  BY <1>2, RestRow, RecoveryMoves, SMTT(60) 
<1>5. td \subseteq CorpusFiles
  BY <1>2, Zenon DEF PresentFiles
<1>6. CorpusRowOk(row)
  BY <1>1, <1>4, <1>5, RestIsOk, Zenon DEF CorpusRowOk
<1> QED
  BY <1>0, <1>3, <1>4, <1>6, LocalStep, Zenon DEF BackupPcs

LEMMA CreateRestoredStep ==
    ASSUME CorpusInv, NEW o \in Curators, CreateRestored(o)
    PROVE  CorpusInv' /\ QuietRows
<1>0. UNCHANGED <<backups, lockedPilots>>
  BY Zenon DEF CreateRestored
<1>1. PICK old : old = curator[o] /\ CorpusRowOk(old) /\ RowShape(old) /\ old.pc = "create"
  BY Zenon DEF CreateRestored, IsAt, CorpusInv, CorpusRowOk
<1>2. PICK f \in old.todo :
         \/ UNCHANGED corpus /\ Rest(o)
         \/ /\ Holds(snapshots[old.from], f)
            /\ corpus' = [corpus EXCEPT ![f] = Torn]
            /\ Continue(o, [old EXCEPT !.pc = "restore", !.writing = f,
                               !.files = [NoFiles EXCEPT ![f] = snapshots[old.from][f]]])
  BY <1>1, ZenonT(60) DEF CreateRestored
<1>3. f \in CorpusFiles /\ old.from \in Instants /\ old.todo \subseteq CorpusFiles
  BY <1>1, <1>2, Zenon DEF CorpusRowOk
<1>4. CASE corpus' = corpus /\ Rest(o)
  <2>1. UNCHANGED <<corpus, backups, lockedPilots>>
    BY <1>0, <1>4, Zenon 
  <2> QED
    BY <1>4, <2>1, RestStep, Zenon 
<1>5. ASSUME Holds(snapshots[old.from], f),
             corpus' = [corpus EXCEPT ![f] = Torn],
             Continue(o, [old EXCEPT !.pc = "restore", !.writing = f,
                             !.files = [NoFiles EXCEPT ![f] = snapshots[old.from][f]]])
      PROVE  CorpusInv' /\ QuietRows
  <2>1. PICK fs, row, c : /\ fs = [NoFiles EXCEPT ![f] = snapshots[old.from][f]]
                          /\ row = WithWriting(old, "restore", f, fs) /\ c = Torn
    BY Zenon 
  <2>2. curator' = [curator EXCEPT ![o] = row]
    BY <1>5, <2>1, Zenon DEF Continue, WithWriting
  <2>3. /\ RowShape(row) /\ row.pc = "restore" /\ row.from = old.from /\ row.todo = old.todo
        /\ row.files = fs /\ row.writing = f
    BY <1>1, <2>1, WritingMoves, SMTT(60)
  <2>4. FilesOk(snapshots[old.from], lockedPilots)
    BY <1>3, <1>5, Zenon DEF CorpusInv, DirectoryOk, Holds
  <2>5. /\ fs = [g \in CorpusFiles |-> fs[g]] /\ fs[f] = snapshots[old.from][f]
        /\ \A g \in CorpusFiles \ {f} : fs[g] = AbsentFile
    BY <1>3, <2>1, Zenon DEF NoFiles
  <2>6. FilesOk(fs, lockedPilots)
    <3>1. FileOk(f, fs[f], lockedPilots)
      BY <1>3, <2>4, <2>5, Zenon DEF FilesOk
    <3>2. ASSUME NEW g \in CorpusFiles \ {f}
          PROVE  FileOk(g, fs[g], lockedPilots)
      BY <2>5, UnreadableIsOk, Zenon
    <3> QED
      BY <3>1, <3>2, Zenon DEF FilesOk
  <2>7. CorpusRowOk(row)
    BY <1>3, <2>3, <2>5, <2>6, Zenon DEF CorpusRowOk
  <2>8. corpus' = [corpus EXCEPT ![f] = c] /\ FileOk(f, c, lockedPilots)
    BY <1>5, <2>1, UnreadableIsOk, Zenon 
  <2> QED
    BY <1>0, <1>3, <2>2, <2>3, <2>7, <2>8, FileStep, Zenon DEF BackupPcs
<1> QED
  BY <1>2, <1>4, <1>5, Zenon 

LEMMA WriteRestoredStep ==
    ASSUME CorpusInv, OpenedInv, NEW o \in Curators, WriteRestored(o)
    PROVE  CorpusInv' /\ QuietRows
<1>0. UNCHANGED <<backups, lockedPilots>>
  BY Zenon DEF WriteRestored
<1>1. PICK old : old = curator[o] /\ CorpusRowOk(old) /\ RowShape(old) /\ old.pc = "restore"
  BY Zenon DEF WriteRestored, IsAt, CorpusInv, CorpusRowOk
<1>2. PICK f, c, td : /\ f = old.writing /\ c = old.files[old.writing]
                      /\ td = old.todo \ {old.writing}
  BY Zenon 
<1>3. f \in CorpusFiles /\ td \subseteq CorpusFiles /\ old.from \in Instants
  BY <1>1, <1>2, Zenon DEF CorpusRowOk
<1>4. FileOk(f, c, lockedPilots)
  BY <1>1, <1>2, <1>3, Zenon DEF CorpusRowOk, FilesOk
<1>5. WriteOpened(o, c)
  BY <1>1, <1>2, Zenon DEF WriteRestored
<1>6. opened[o] # "gone" => opened[o] \in CorpusFiles /\ FileOk(opened[o], c, lockedPilots)
  <2>1. opened[o] \in {f, "gone"} \/ (f = "intake" /\ opened[o] = "golden")
    BY <1>1, <1>2, Zenon DEF OpenedInv, OpenOk
  <2>2. f = "intake" => FileOk("golden", c, lockedPilots) /\ "golden" \in CorpusFiles
    BY <1>4, Zenon DEF FileOk, CorpusFiles
  <2> QED
    BY <1>3, <1>4, <2>1, <2>2, Zenon
<1>7. CASE Rest(o)
  <2>1. PICK row : row = AtRest
    BY Zenon 
  <2>2. curator' = [curator EXCEPT ![o] = row] /\ CorpusRowOk(row) /\ row.pc = "idle"
    BY <1>7, <2>1, RestIsOk, RestRow, Zenon DEF Rest, Continue
  <2> QED
    BY <1>0, <1>5, <1>6, <2>2, WrittenFile, Zenon DEF BackupPcs
<1>8. ASSUME Continue(o, [old EXCEPT !.pc = "create", !.todo = td])
      PROVE  CorpusInv' /\ QuietRows
  <2>1. PICK row : row = WithTodo(old, "create", td)
    BY Zenon 
  <2>2. curator' = [curator EXCEPT ![o] = row]
    BY <1>8, <2>1, Zenon DEF Continue, WithTodo
  <2>3. /\ RowShape(row) /\ row.pc = "create" /\ row.from = old.from /\ row.todo = td
        /\ row.files = old.files
    BY <1>1, <2>1, TodoMoves
  <2>4. CorpusRowOk(row)
    BY <1>1, <1>3, <2>3, Zenon DEF CorpusRowOk
  <2> QED
    BY <1>0, <1>5, <1>6, <2>2, <2>3, <2>4, WrittenFile, ZenonT(60) DEF BackupPcs
<1> QED
  BY <1>1, <1>2, <1>7, <1>8, Zenon DEF WriteRestored

LEMMA EnvironmentSteps ==
    ASSUME CorpusInv, EditPilot \/ LoseCorpus \/ CleanUp \/ UNCHANGED goldenVars
    PROVE  CorpusInv' /\ QuietRows
<1>0. curator' = curator /\ snapshots' = snapshots /\ lockedPilots' = lockedPilots
  BY Zenon DEF EditPilot, LoseCorpus, CleanUp, goldenVars, backups
<1>2. \A o \in Curators : CorpusRowOk(curator[o])'
  <2> SUFFICES ASSUME NEW o \in Curators PROVE CorpusRowOk(curator[o])'
    OBVIOUS
  <2>1. PICK row : row = curator[o] /\ CorpusRowOk(row)
    BY Zenon DEF CorpusInv
  <2>2. CorpusRowOk(row)'
    BY <1>0, <2>1, RowsGrow, Zenon 
  <2> QED
    BY <1>0, <2>1, <2>2, Zenon 
<1>3. DirectoriesPart'
  <2>1. CASE staging' = staging
    BY <1>0, <2>1, DirectoriesKept, Zenon 
  <2>2. CASE staging' = [t \in Instants |-> AbsentFile]
    <3>1. \A t \in Instants : /\ DirectoryOk(staging'[t], lockedPilots)
                              /\ DirectoryOk(snapshots'[t], lockedPilots)
      BY <1>0, <2>2, NoDirectory, Zenon DEF CorpusInv
    <3>2. staging' = [t \in Instants |-> staging'[t]]
      BY <2>2, Zenon 
    <3> QED
      BY <1>0, <3>1, <3>2, Zenon DEF CorpusInv, DirectoriesPart, Instants
  <2> QED
    BY <2>1, <2>2, Zenon DEF EditPilot, LoseCorpus, CleanUp, goldenVars, backups
<1>4. CorpusPart'
  <2>1. CASE UNCHANGED goldenVars
    BY <1>0, <2>1, CorpusKept, Zenon DEF goldenVars
  <2>2. CASE EditPilot
    <3>1. PICK p \in Pilots :
               corpus' = [corpus EXCEPT !["golden"] = [corpus["golden"] EXCEPT !.pilot = p]]
      BY <2>2, Zenon DEF EditPilot
    <3>2. PICK old, c : old = corpus["golden"] /\ c = [old EXCEPT !.pilot = p]
      BY Zenon 
    <3>3. old \in GoldenSets
      BY <2>2, <3>2, Zenon DEF EditPilot, CorpusInv, FilesOk, FileOk, CorpusFiles
    <3>4. c \in GoldenSets
      BY <3>1, <3>2, <3>3, Zenon DEF GoldenSets
    <3>5. FileOk("golden", c, lockedPilots) /\ "golden" \in CorpusFiles
      BY <3>4, Zenon DEF FileOk, CorpusFiles
    <3>6. corpus' = [corpus EXCEPT !["golden"] = c]
      BY <3>1, <3>2, Zenon 
    <3> QED
      BY <1>0, <3>5, <3>6, CorpusSet, Zenon 
  <2>3. CASE LoseCorpus
    <3>1. corpus' = [f \in CorpusFiles |-> AbsentFile]
      BY <2>3, Zenon DEF LoseCorpus, NoFiles
    <3>2. \A f \in CorpusFiles : FileOk(f, corpus'[f], lockedPilots')
      BY <3>1, UnreadableIsOk, Zenon 
    <3> QED
      BY <3>1, <3>2, Zenon DEF CorpusPart, FilesOk
  <2>4. CASE CleanUp
    <3>1. PICK c \in {AbsentFile, Torn} : corpus' = [corpus EXCEPT !["intake"] = c]
      BY <2>4, Zenon DEF CleanUp
    <3>2. FileOk("intake", c, lockedPilots) /\ "intake" \in CorpusFiles
      BY UnreadableIsOk, Zenon DEF CorpusFiles
    <3> QED
      BY <1>0, <3>1, <3>2, CorpusSet, Zenon 
  <2> QED
    BY <2>1, <2>2, <2>3, <2>4, Zenon 
<1> QED
  BY <1>0, <1>2, <1>3, <1>4, Zenon DEF CorpusInv, CorpusPart, DirectoriesPart, QuietRows

LEMMA CorpusStep ==
    ASSUME CorpusInv, OpenedInv, [CorpusNext]_goldenVars
    PROVE  CorpusInv'
BY EnvironmentSteps, LoadSteps, LockSteps, WriteLockSteps, VerifyLockedStep, StagedSteps,
   VerifyStagedStep, ReplaceGoldenStep, CollectSteps, DecideBackupStep, MakeStagingStep,
   CopyFileStep,
   ClearStagingStep, RemoveEntryStep, RemoveStagingStep, RecordSnapshotStep, StartRecoveryStep, CreateRestoredStep,
   WriteRestoredStep, Zenon DEF CorpusNext, LockStep, IntakeStep, BackupStep

LEMMA CorpusStarts == CorpusInit => CorpusInv
<1> SUFFICES ASSUME CorpusInit PROVE CorpusInv
  OBVIOUS
<1>1. PICK p \in Pilots :
           corpus = [NoFiles EXCEPT !["golden"] = [pilot |-> p, dev |-> {}]]
  BY Zenon DEF CorpusInit
<1>2. [pilot |-> p, dev |-> {}] \in GoldenSets
  BY Zenon DEF GoldenSets
<1>3. /\ corpus = [f \in CorpusFiles |-> corpus[f]]
      /\ corpus["golden"] \in GoldenSets
      /\ corpus["lock"] = AbsentFile /\ corpus["intake"] = AbsentFile
  BY <1>1, <1>2, Zenon DEF NoFiles, CorpusFiles
<1>4. FilesOk(corpus, lockedPilots)
  BY <1>3, UnreadableIsOk, Zenon DEF FilesOk, FileOk, CorpusFiles
<1>5. /\ staging = [t \in Instants |-> staging[t]] /\ snapshots = [t \in Instants |-> snapshots[t]]
      /\ \A t \in Instants :
          DirectoryOk(staging[t], lockedPilots) /\ DirectoryOk(snapshots[t], lockedPilots)
  BY NoDirectory, Zenon DEF CorpusInit
<1>6. curator = [o \in Curators |-> AtRest]
  BY Zenon DEF CorpusInit
<1>7. curator = [o \in Curators |-> curator[o]] /\ \A o \in Curators : CorpusRowOk(curator[o])
  BY <1>6, RestIsOk, Zenon 
<1> QED
  BY <1>3, <1>4, <1>5, <1>7, Zenon DEF CorpusInv


-----------------------------------------------------------------------------
(* What is open.                                                           *)

WritePcs == {"write", "fill", "restore"}

\* A process that opens or closes something, and one that does neither.
LEMMA OpenedBy ==
    ASSUME CorpusInv, OpenedInv, NEW o \in Curators, NEW row,
           curator' = [curator EXCEPT ![o] = row],
           NEW place, opened' = [opened EXCEPT ![o] = place], OpenOk(row, place)
    PROVE  OpenedInv'
<1>1. /\ curator'[o] = row /\ \A p \in Curators \ {o} : curator'[p] = curator[p]
      /\ opened' = [p \in Curators |-> opened'[p]]
      /\ opened'[o] = place /\ \A p \in Curators \ {o} : opened'[p] = opened[p]
  BY Zenon DEF CorpusInv, OpenedInv
<1>2. \A p \in Curators : OpenOk(curator'[p], opened'[p])
  BY <1>1, Zenon DEF OpenedInv
<1> QED
  BY <1>1, <1>2, Zenon DEF OpenedInv, OpenOk

LEMMA OpenedKept ==
    ASSUME CorpusInv, OpenedInv, NEW o \in Curators, NEW row,
           curator' = [curator EXCEPT ![o] = row], row.pc \notin WritePcs, opened' = opened
    PROVE  OpenedInv'
<1>1. PICK place : place = opened[o]
  BY Zenon
<1>2. opened' = [opened EXCEPT ![o] = place]
  BY <1>1, Zenon DEF OpenedInv
<1>3. OpenOk(row, place)
  BY Zenon DEF OpenOk, WritePcs
<1> QED
  BY <1>2, <1>3, OpenedBy, Zenon

\* A rename or a removal moves what the other processes have open.
PlacesMove(from, to) ==
    \/ from = "intake" /\ to \in {"golden", "gone"}
    \/ from = "staging" /\ to \in {"snapshot", "gone"}

OthersMove(o, processes, from, to) ==
    /\ opened' = [p \in Curators |-> opened'[p]]
    /\ \A p \in Curators \ {o} : opened'[p] = OpenedAfter(processes, from, to)[p]

LEMMA OpenedMoved ==
    ASSUME CorpusInv, OpenedInv, NEW o \in Curators, NEW row,
           NEW from, NEW to, NEW processes,
           curator' = [curator EXCEPT ![o] = row], row.pc \notin WritePcs,
           PlacesMove(from, to), OthersMove(o, processes, from, to)
    PROVE  OpenedInv'
<1> USE DEF PlacesMove, OthersMove
<1>1. curator'[o] = row /\ \A p \in Curators \ {o} : curator'[p] = curator[p]
  BY Zenon DEF CorpusInv
<1>2. ASSUME NEW p \in Curators \ {o}
      PROVE  OpenOk(curator'[p], opened'[p])
  <2>1. PICK q, place, after : q = curator[p] /\ place = opened[p] /\ after = opened'[p]
    BY Zenon
  <2>2. OpenOk(q, place) /\ (q.pc = "restore" => q.writing \in {"intake", "golden", "lock"})
    BY <2>1, Zenon DEF OpenedInv, CorpusInv, CorpusRowOk, CorpusFiles
  <2>3. \/ after = place
        \/ place = from /\ after = to
        \/ place = to /\ after = "gone"
    BY <2>1, Zenon DEF OpenedAfter
  <2>4. OpenOk(q, after)
    BY <2>2, <2>3, ZenonT(60) DEF OpenOk
  <2> QED
    BY <1>1, <2>1, <2>4, Zenon
<1>3. OpenOk(curator'[o], opened'[o])
  BY <1>1, Zenon DEF OpenOk, WritePcs
<1> QED
  BY <1>2, <1>3, Zenon DEF OpenedInv, OpenOk

LEMMA NothingOpened ==
    ASSUME CorpusInv, OpenedInv, NEW o \in Curators, opened' = opened,
           \/ LoadUnlocked(o, "lock") \/ LoadUnlocked(o, "relock") \/ LoadGolden(o)
           \/ CreateGoldenLock(o) \/ RelockGoldenSet(o) \/ VerifyLocked(o) \/ VerifyStaged(o)
           \/ StartBackup(o) \/ Collect(o) \/ DecideBackup(o) \/ MakeStaging(o) \/ CopyFile(o)
           \/ ClearStaging(o) \/ RemoveEntry(o) \/ StartRecovery(o)
    PROVE  OpenedInv'
<1>0. PICK old : old = curator[o] /\ RowShape(old)
  BY Zenon DEF CorpusInv, CorpusRowOk
<1> DEFINE Moves == \E row : curator' = [curator EXCEPT ![o] = row] /\ row.pc \notin WritePcs
<1>1. CASE Moves
  BY <1>1, OpenedKept, Zenon
<1>2. CASE Rest(o)
  <2>1. AtRest.pc \notin WritePcs
    BY RestRow, Zenon DEF WritePcs
  <2> QED
    BY <1>1, <1>2, <2>1, Zenon DEF Rest, Continue
<1>3. ASSUME NEW pc1, pc1 \notin WritePcs, StepTo(o, pc1)
      PROVE  OpenedInv'
  <2>1. PICK row : curator' = [curator EXCEPT ![o] = row] /\ row.pc = pc1
    BY <1>3, StepToRow
  <2> QED
    BY <1>1, <1>3, <2>1, Zenon
<1>4. CASE LoadUnlocked(o, "lock") \/ LoadUnlocked(o, "relock") \/ LoadGolden(o)
  <2>1. PICK pc1 \in {"lock", "relock", "intake"} :
             curator' = [curator EXCEPT ![o] = [AtRest EXCEPT !.pc = pc1,
                                                              !.golden = corpus["golden"]]]
    BY <1>4, Zenon DEF LoadUnlocked, LoadGolden, Continue
  <2>2. PICK g, row : g = corpus["golden"] /\ row = WithGolden(AtRest, pc1, g)
    BY Zenon
  <2>3. row.pc = pc1
    BY <2>2, RestRow, GoldenMoves
  <2>4. curator' = [curator EXCEPT ![o] = row] /\ row.pc \notin WritePcs
    BY <2>1, <2>2, <2>3, Zenon DEF WithGolden, WritePcs
  <2> QED
    BY <1>1, <2>4, Zenon
<1>5. CASE CreateGoldenLock(o) \/ RelockGoldenSet(o)
  <2>1. ASSUME ~ Rest(o)
        PROVE  OpenedInv'
    <3>1. PICK lock : Continue(o, [curator[o] EXCEPT !.pc = "open", !.lock = lock])
      BY <1>5, <2>1, Zenon DEF CreateGoldenLock, RelockGoldenSet
    <3>2. PICK row : row = WithLock(old, "open", lock)
      BY Zenon
    <3>3. row.pc = "open"
      BY <1>0, <3>2, LockMoves
    <3>4. curator' = [curator EXCEPT ![o] = row] /\ row.pc \notin WritePcs
      BY <1>0, <3>1, <3>2, <3>3, Zenon DEF WithLock, WritePcs, Continue
    <3> QED
      BY <1>1, <3>4, Zenon
  <2> QED
    BY <1>2, <2>1, Zenon
<1>6. CASE VerifyLocked(o)
  <2>1. ASSUME ~ Rest(o)
        PROVE  OpenedInv'
    <3>1. PICK g : Continue(o, [curator[o] EXCEPT !.pc = "stage", !.golden = g])
      BY <1>6, <2>1, Zenon DEF VerifyLocked
    <3>2. PICK row : row = WithGolden(old, "stage", g)
      BY Zenon
    <3>3. row.pc = "stage"
      BY <1>0, <3>2, GoldenMoves
    <3>4. curator' = [curator EXCEPT ![o] = row] /\ row.pc \notin WritePcs
      BY <1>0, <3>1, <3>2, <3>3, Zenon DEF WithGolden, WritePcs, Continue
    <3> QED
      BY <1>1, <3>4, Zenon
  <2> QED
    BY <1>2, <2>1, Zenon
<1>7. CASE VerifyStaged(o)
  <2>1. PICK pc1 \in {"replace", "unlink"} : StepTo(o, pc1)
    BY <1>7, Zenon DEF VerifyStaged
  <2> QED
    BY <1>3, <2>1, Zenon DEF WritePcs
<1>8. ASSUME NEW pc1 \in {"collect", "mkdir", "remove"}, NEW td, NEW from,
             RowShape(from), Continue(o, [from EXCEPT !.pc = pc1, !.todo = td])
      PROVE  OpenedInv'
  <2>1. PICK row : row = WithTodo(from, pc1, td)
    BY Zenon
  <2>2. row.pc = pc1
    BY <1>8, <2>1, TodoMoves
  <2>3. curator' = [curator EXCEPT ![o] = row] /\ row.pc \notin WritePcs
    BY <1>8, <2>1, <2>2, Zenon DEF WithTodo, WritePcs, Continue
  <2> QED
    BY <1>1, <2>3, Zenon
<1>9. CASE StartBackup(o)
  BY <1>8, <1>9, RestRow, Zenon DEF StartBackup
<1>10. CASE DecideBackup(o) \/ ClearStaging(o)
  <2>1. ASSUME ~ Rest(o)
        PROVE  OpenedInv'
    <3>1. CASE DecideBackup(o)
      <4>1. PICK td : Continue(o, [curator[o] EXCEPT !.pc = "mkdir", !.todo = td])
        BY <2>1, <3>1, Zenon DEF DecideBackup
      <4> QED
        BY <1>0, <1>8, <4>1, Zenon
    <3>2. CASE ClearStaging(o)
      <4>1. PICK td : Continue(o, [curator[o] EXCEPT !.pc = "remove", !.todo = td])
        BY <2>1, <3>2, Zenon DEF ClearStaging
      <4> QED
        BY <1>0, <1>8, <4>1, Zenon
    <3> QED
      BY <1>10, <3>1, <3>2, Zenon
  <2> QED
    BY <1>2, <2>1, Zenon
<1>11. ASSUME NEW td, Continue(o, [old EXCEPT !.todo = td]), old.pc \notin WritePcs
       PROVE  OpenedInv'
  <2>1. PICK row : row = WithLess(old, td)
    BY Zenon
  <2>2. row.pc = old.pc
    BY <1>0, <2>1, TodoShrinks
  <2>3. curator' = [curator EXCEPT ![o] = row] /\ row.pc \notin WritePcs
    BY <1>11, <2>1, <2>2, Zenon DEF WithLess, Continue
  <2> QED
    BY <1>1, <2>3, Zenon
<1>12. CASE Collect(o)
  <2>1. ASSUME ~ Rest(o)
        PROVE  OpenedInv'
    <3>1. PICK td, fs : Continue(o, [curator[o] EXCEPT !.todo = td, !.files = fs])
      BY <1>12, <2>1, Zenon DEF Collect
    <3>2. PICK row : row = WithFiles(old, td, fs)
      BY Zenon
    <3>3. row.pc = old.pc
      BY <1>0, <3>2, FilesMove
    <3>4. curator' = [curator EXCEPT ![o] = row] /\ row.pc \notin WritePcs
      BY <1>0, <1>12, <3>1, <3>2, <3>3, Zenon DEF WithFiles, WritePcs, Continue, Collect, IsAt
    <3> QED
      BY <1>1, <3>4, Zenon
  <2> QED
    BY <1>2, <2>1, Zenon
<1>13. CASE MakeStaging(o)
  BY <1>3, <1>13, Zenon DEF MakeStaging, WritePcs
<1>14. CASE CopyFile(o)
  <2>1. ASSUME Continue(o, [curator[o] EXCEPT !.pc = "rename"])
        PROVE  OpenedInv'
    <3>1. StepTo(o, "rename")
      BY <2>1, Zenon DEF StepTo
    <3> QED
      BY <1>3, <3>1, Zenon DEF WritePcs
  <2>2. ASSUME NEW td, Continue(o, [curator[o] EXCEPT !.todo = td])
        PROVE  OpenedInv'
    BY <1>0, <1>11, <1>14, <2>2, Zenon DEF CopyFile, IsAt, WritePcs
  <2>3. ASSUME StepTo(o, "clear")
        PROVE  OpenedInv'
    BY <1>3, <2>3, Zenon DEF WritePcs
  <2>4. \/ StepTo(o, "clear")
        \/ \E td : Continue(o, [curator[o] EXCEPT !.todo = td])
        \/ Continue(o, [curator[o] EXCEPT !.pc = "rename"])
    BY <1>14, Zenon DEF CopyFile, WriteEntry
  <2> QED
    BY <2>1, <2>2, <2>3, <2>4, Zenon
<1>15. CASE RemoveEntry(o)
  <2>1. PICK td : Continue(o, [curator[o] EXCEPT !.todo = td])
    BY <1>15, Zenon DEF RemoveEntry
  <2> QED
    BY <1>0, <1>11, <1>15, <2>1, Zenon DEF RemoveEntry, IsAt, WritePcs
<1>16. CASE StartRecovery(o)
  <2>1. PICK t, td : Continue(o, [AtRest EXCEPT !.pc = "create", !.from = t, !.todo = td])
    BY <1>16, Zenon DEF StartRecovery
  <2>2. PICK row : row = WithSnapshot(AtRest, "create", t, td)
    BY Zenon
  <2>3. row.pc = "create"
    BY <2>2, RestRow, RecoveryMoves
  <2>4. curator' = [curator EXCEPT ![o] = row] /\ row.pc \notin WritePcs
    BY <2>1, <2>2, <2>3, Zenon DEF WithSnapshot, WritePcs, Continue
  <2> QED
    BY <1>1, <2>4, Zenon
<1> QED
  BY <1>4, <1>5, <1>6, <1>7, <1>9, <1>10, <1>12, <1>13, <1>14, <1>15, <1>16, Zenon

LEMMA OpenedFree ==
    ASSUME CorpusInv, OpenedInv, NEW o \in Curators, NEW row, NEW place,
           curator' = [curator EXCEPT ![o] = row], row.pc \notin WritePcs,
           opened' = [opened EXCEPT ![o] = place]
    PROVE  OpenedInv'
<1>1. OpenOk(row, place)
  BY Zenon DEF OpenOk, WritePcs
<1> QED
  BY <1>1, OpenedBy, Zenon

\* The row a process is left with when it rests or moves on.
LEMMA RestsFree ==
    ASSUME NEW o \in Curators, Rest(o)
    PROVE  curator' = [curator EXCEPT ![o] = AtRest] /\ AtRest.pc \notin WritePcs
BY RestRow, Zenon DEF Rest, Continue, WritePcs

LEMMA OpeningSteps ==
    ASSUME CorpusInv, OpenedInv, NEW o \in Curators,
           OpenLock(o) \/ OpenStaged(o) \/ CreateRestored(o)
    PROVE  OpenedInv'
<1>0. PICK old : old = curator[o] /\ RowShape(old) /\ CorpusRowOk(old)
  BY Zenon DEF CorpusInv, CorpusRowOk
<1>1. ASSUME opened' = opened, Rest(o)
      PROVE  OpenedInv'
  BY <1>1, RestsFree, OpenedKept, Zenon
<1>2. CASE OpenLock(o)
  <2>0. StepTo(o, "write")
    BY <1>2, Zenon DEF OpenLock
  <2>1. PICK row : curator' = [curator EXCEPT ![o] = row] /\ row.pc = "write"
    BY <2>0, StepToRow
  <2>2. opened' = [opened EXCEPT ![o] = "lock"] /\ OpenOk(row, "lock")
    BY <1>2, <2>1, Zenon DEF OpenLock, Open, OpenOk
  <2> QED
    BY <2>1, <2>2, OpenedBy, Zenon
<1>3. CASE OpenStaged(o)
  <2>1. ASSUME StepTo(o, "fill"), Open(o, "intake")
        PROVE  OpenedInv'
    <3>1. PICK row : curator' = [curator EXCEPT ![o] = row] /\ row.pc = "fill"
      BY <2>1, StepToRow
    <3>2. opened' = [opened EXCEPT ![o] = "intake"] /\ OpenOk(row, "intake")
      BY <2>1, <3>1, Zenon DEF Open, OpenOk
    <3> QED
      BY <3>1, <3>2, OpenedBy, Zenon
  <2> QED
    BY <1>1, <1>3, <2>1, Zenon DEF OpenStaged
<1>4. CASE CreateRestored(o)
  <2>1. ASSUME NEW f, NEW c, Open(o, f),
               Continue(o, [curator[o] EXCEPT !.pc = "restore", !.writing = f,
                                              !.files = [NoFiles EXCEPT ![f] = c]])
        PROVE  OpenedInv'
    <3>1. PICK fs, row : fs = [NoFiles EXCEPT ![f] = c] /\ row = WithWriting(old, "restore", f, fs)
      BY Zenon
    <3>2. row.pc = "restore" /\ row.writing = f
      BY <1>0, <3>1, WritingMoves
    <3>3. curator' = [curator EXCEPT ![o] = row]
      BY <1>0, <2>1, <3>1, Zenon DEF WithWriting, Continue
    <3>4. opened' = [opened EXCEPT ![o] = f] /\ OpenOk(row, f)
      BY <2>1, <3>2, Zenon DEF Open, OpenOk
    <3> QED
      BY <3>3, <3>4, OpenedBy, Zenon
  <2> QED
    BY <1>1, <1>4, <2>1, Zenon DEF CreateRestored
<1> QED
  BY <1>2, <1>3, <1>4, Zenon

LEMMA ClosingSteps ==
    ASSUME CorpusInv, OpenedInv, NEW o \in Curators,
           \/ WriteLock(o) \/ ClearStaging(o) \/ WriteRestored(o) \/ CuratorDies(o)
    PROVE  OpenedInv'
<1>0. PICK old : old = curator[o] /\ RowShape(old)
  BY Zenon DEF CorpusInv, CorpusRowOk
<1>1. ASSUME NEW place, Open(o, place), Rest(o)
      PROVE  OpenedInv'
  BY <1>1, RestsFree, OpenedFree, Zenon DEF Open
<1>2. ASSUME NEW place, NEW pc1 \in {"remove", "create"}, NEW td, Open(o, place),
             Continue(o, [curator[o] EXCEPT !.pc = pc1, !.todo = td])
      PROVE  OpenedInv'
  <2>1. PICK row : row = WithTodo(old, pc1, td)
    BY Zenon
  <2>2. row.pc = pc1
    BY <1>0, <2>1, TodoMoves
  <2>3. curator' = [curator EXCEPT ![o] = row] /\ row.pc \notin WritePcs
    BY <1>0, <1>2, <2>1, <2>2, Zenon DEF WithTodo, WritePcs, Continue
  <2> QED
    BY <1>2, <2>3, OpenedFree, Zenon DEF Open
<1>3. CASE WriteLock(o) \/ CuratorDies(o)
  BY <1>1, <1>3, Zenon DEF WriteLock, CuratorDies, Close
<1>4. CASE ClearStaging(o)
  <2>1. CASE opened' = opened
    BY <1>4, <2>1, NothingOpened, Zenon
  <2>2. CASE opened' # opened
    <3>1. PICK td : Continue(o, [curator[o] EXCEPT !.pc = "remove", !.todo = td])
                    /\ Open(o, "staging")
      BY <1>4, <2>2, Zenon DEF ClearStaging
    <3> QED
      BY <1>2, <3>1, Zenon
  <2> QED
    BY <2>1, <2>2, Zenon
<1>5. CASE WriteRestored(o)
  <2>1. \/ Rest(o)
        \/ \E td : Continue(o, [curator[o] EXCEPT !.pc = "create", !.todo = td])
    BY <1>5, Zenon DEF WriteRestored
  <2>2. Open(o, "none")
    BY <1>5, Zenon DEF WriteRestored, Close
  <2> QED
    BY <1>1, <1>2, <2>1, <2>2, Zenon
<1> QED
  BY <1>3, <1>4, <1>5, Zenon

LEMMA MovingSteps ==
    ASSUME CorpusInv, OpenedInv, NEW o \in Curators,
           \/ FillStaged(o) \/ ReplaceGolden(o) \/ UnlinkStaged(o)
           \/ RemoveStaging(o) \/ RecordSnapshot(o)
    PROVE  OpenedInv'
<1>1. ASSUME NEW place, Open(o, place), Rest(o)
      PROVE  OpenedInv'
  BY <1>1, RestsFree, OpenedFree, Zenon DEF Open
<1>2. ASSUME opened' = opened, Rest(o)
      PROVE  OpenedInv'
  BY <1>2, RestsFree, OpenedKept, Zenon
<1>3. ASSUME NEW pc1, pc1 \notin WritePcs, StepTo(o, pc1)
      PROVE  \E row : curator' = [curator EXCEPT ![o] = row] /\ row.pc \notin WritePcs
  BY <1>3, StepToRow
<1>4. ASSUME NEW processes, NEW from, NEW to,
             \/ from = "intake" /\ to \in {"golden", "gone"}
             \/ from = "staging" /\ to \in {"snapshot", "gone"},
             \/ opened' = OpenedAfter(processes, from, to)
             \/ opened' = [OpenedAfter(processes, from, to) EXCEPT ![o] = "none"],
             \E row : curator' = [curator EXCEPT ![o] = row] /\ row.pc \notin WritePcs
      PROVE  OpenedInv'
  <2>1. PICK after : after = OpenedAfter(processes, from, to)
    BY Zenon
  <2>2. after = [p \in Curators |-> after[p]]
    BY <2>1, Zenon DEF OpenedAfter
  <2>3. OthersMove(o, processes, from, to) /\ PlacesMove(from, to)
    BY <1>4, <2>1, <2>2, Zenon DEF OthersMove, PlacesMove
  <2>4. PICK row : curator' = [curator EXCEPT ![o] = row] /\ row.pc \notin WritePcs
    BY <1>4, Zenon
  <2> QED
    BY <2>3, <2>4, OpenedMoved, Zenon
<1>5. ASSUME Rest(o)
      PROVE  \E row : curator' = [curator EXCEPT ![o] = row] /\ row.pc \notin WritePcs
  BY <1>5, RestsFree, Zenon
<1>6. CASE FillStaged(o)
  <2>1. CASE StepTo(o, "verify") /\ Close(o)
    <3>1. PICK row : curator' = [curator EXCEPT ![o] = row] /\ row.pc \notin WritePcs
      BY <1>3, <2>1, Zenon DEF WritePcs
    <3> QED
      BY <2>1, <3>1, OpenedFree, Zenon DEF Close, Open
  <2>2. CASE /\ opened' = [OpenedAfter(Curators, "intake", "gone") EXCEPT ![o] = "none"]
             /\ Rest(o)
    BY <1>4, <1>5, <2>2, Zenon
  <2> QED
    BY <1>6, <2>1, <2>2, Zenon DEF FillStaged
<1>7. CASE ReplaceGolden(o)
  <2>1. PICK row : curator' = [curator EXCEPT ![o] = row] /\ row.pc \notin WritePcs
    BY <1>3, <1>7, Zenon DEF ReplaceGolden, WritePcs
  <2>2. CASE opened' = opened
    BY <2>1, <2>2, OpenedKept, Zenon
  <2>3. CASE opened' = OpenedAfter(Curators, "intake", "golden")
    BY <1>4, <2>1, <2>3, Zenon
  <2> QED
    BY <1>7, <2>2, <2>3, Zenon DEF ReplaceGolden
<1>8. CASE UnlinkStaged(o)
  <2>1. opened' = OpenedAfter(Curators, "intake", "gone") /\ Rest(o)
    BY <1>8, Zenon DEF UnlinkStaged
  <2> QED
    BY <1>4, <1>5, <2>1, Zenon
<1>9. CASE RemoveStaging(o)
  <2>1. /\ Rest(o)
        /\ \/ Open(o, "none")
           \/ opened' = [OpenedAfter(CuratorsOf(InstantOf[o]), "staging", "gone")
                            EXCEPT ![o] = "none"]
    BY <1>9, Zenon DEF RemoveStaging, Close
  <2> QED
    BY <1>1, <1>4, <1>5, <2>1, Zenon
<1>10. CASE RecordSnapshot(o)
  <2>1. /\ Rest(o)
        /\ \/ opened' = opened
           \/ opened' = OpenedAfter(CuratorsOf(InstantOf[o]) \ {o}, "staging", "snapshot")
    BY <1>10, Zenon DEF RecordSnapshot
  <2> QED
    BY <1>2, <1>4, <1>5, <2>1, Zenon
<1> QED
  BY <1>6, <1>7, <1>8, <1>9, <1>10, Zenon

\* Every step keeps what is open where it is written.
LEMMA OpenedStep ==
    ASSUME CorpusInv, OpenedInv, [CorpusNext]_goldenVars
    PROVE  OpenedInv'
<1>1. ASSUME NEW o \in Curators, LockStep(o)
      PROVE  OpenedInv'
  <2>1. CASE LoadUnlocked(o, "lock") \/ LoadUnlocked(o, "relock") \/ CreateGoldenLock(o)
             \/ RelockGoldenSet(o)
    <3>1. opened' = opened
      BY <2>1, Zenon DEF LoadUnlocked, CreateGoldenLock, RelockGoldenSet
    <3> QED
      BY <2>1, <3>1, NothingOpened, Zenon
  <2> QED
    BY <1>1, <2>1, OpeningSteps, ClosingSteps, Zenon DEF LockStep
<1>2. ASSUME NEW o \in Curators, IntakeStep(o)
      PROVE  OpenedInv'
  <2>1. CASE LoadGolden(o) \/ VerifyLocked(o) \/ VerifyStaged(o)
    <3>1. opened' = opened
      BY <2>1, Zenon DEF LoadGolden, VerifyLocked, VerifyStaged
    <3> QED
      BY <2>1, <3>1, NothingOpened, Zenon
  <2> QED
    BY <1>2, <2>1, OpeningSteps, MovingSteps, Zenon DEF IntakeStep
<1>3. ASSUME NEW o \in Curators, BackupStep(o)
      PROVE  OpenedInv'
  <2>1. CASE \/ StartBackup(o) \/ Collect(o) \/ DecideBackup(o) \/ MakeStaging(o)
             \/ CopyFile(o) \/ RemoveEntry(o) \/ StartRecovery(o)
    <3>1. opened' = opened
      BY <2>1, Zenon DEF StartBackup, Collect, DecideBackup, MakeStaging, CopyFile,
                         RemoveEntry, StartRecovery
    <3> QED
      BY <2>1, <3>1, NothingOpened, Zenon
  <2>2. CASE ClearStaging(o) \/ WriteRestored(o)
    BY <2>2, ClosingSteps, Zenon
  <2>3. CASE CreateRestored(o)
    BY <2>3, OpeningSteps, Zenon
  <2>4. CASE RemoveStaging(o) \/ RecordSnapshot(o)
    BY <2>4, MovingSteps, Zenon
  <2> QED
    BY <1>3, <2>1, <2>2, <2>3, <2>4, Zenon DEF BackupStep
<1>4. ASSUME NEW o \in Curators, CuratorDies(o)
      PROVE  OpenedInv'
  BY <1>4, ClosingSteps, Zenon
<1>5. CASE EditPilot \/ LoseCorpus \/ CleanUp \/ UNCHANGED goldenVars
  <2>1. curator' = curator /\ opened' = opened
    BY <1>5, Zenon DEF EditPilot, LoseCorpus, CleanUp, goldenVars
  <2> QED
    BY <2>1, Zenon DEF OpenedInv, OpenOk
<1> QED
  BY <1>1, <1>2, <1>3, <1>4, <1>5, Zenon DEF CorpusNext

LEMMA OpenedStarts ==
    ASSUME CorpusInit
    PROVE  OpenedInv
BY RestRow, Zenon DEF CorpusInit, OpenedInv, OpenOk

\* What an admission's write can make of the golden file.
LEMMA FilledGolden ==
    ASSUME CorpusInv, OpenedInv, NEW o \in Curators, FillStaged(o)
    PROVE  /\ corpus'["golden"] \in {corpus["golden"], Torn, curator[o].golden}
           /\ curator[o].golden.pilot \in lockedPilots
<1>1. curator[o].pc = "fill" /\ CorpusRowOk(curator[o])
  BY Zenon DEF FillStaged, IsAt, CorpusInv
<1>2. corpus = [f \in CorpusFiles |-> corpus[f]] /\ "golden" \in CorpusFiles
  BY Zenon DEF CorpusInv, CorpusFiles
<1>3. ASSUME corpus' = [corpus EXCEPT !["intake"] = AbsentFile]
      PROVE  corpus'["golden"] = corpus["golden"]
  BY <1>2, <1>3, Zenon
<1>4. ASSUME WriteOpened(o, curator[o].golden)
      PROVE  corpus'["golden"] \in {corpus["golden"], Torn, curator[o].golden}
  <2>1. CASE corpus' = corpus
    BY <2>1, Zenon
  <2>2. ASSUME NEW c \in {Torn, curator[o].golden}, NEW f, corpus' = [corpus EXCEPT ![f] = c]
        PROVE  corpus'["golden"] \in {corpus["golden"], Torn, curator[o].golden}
    BY <1>2, <2>2, Zenon
  <2>3. \/ corpus' = corpus
        \/ \E c \in {Torn, curator[o].golden} : corpus' = [corpus EXCEPT ![opened[o]] = c]
    BY <1>4, Zenon DEF WriteOpened
  <2> QED
    BY <2>1, <2>2, <2>3, Zenon
<1> QED
  BY <1>1, <1>3, <1>4, Zenon DEF FillStaged, CorpusRowOk

\* Admission never makes an unlocked pilot the golden one, for every number of
\* processes, cases and edits, whatever is locked, lost, backed up and
\* recovered meanwhile, whatever instants the operators name, and wherever the
\* file an admission writes has been renamed to.
THEOREM AdmissionsAreLocked == CorpusSpec => AdmittedSetsAreLocked
<1> DEFINE Admits(o) ==
              /\ curator[o].pc \in {"fill", "replace"} /\ curator'[o].pc # curator[o].pc
              /\ corpus'["golden"] # corpus["golden"] /\ Readable(corpus'["golden"])
<1>1. ASSUME CorpusInv, OpenedInv, NEW p \in Curators, NEW o \in Curators, Admits(o),
             LockStep(p) \/ IntakeStep(p) \/ BackupStep(p) \/ CuratorDies(p)
      PROVE  corpus'["golden"].pilot \in lockedPilots
  <2>1. p = o
    <3>1. \/ \E row : curator' = [curator EXCEPT ![p] = row]
          \/ curator' = curator
      <4>1. CASE LockStep(p)
        BY <4>1, Zenon
           DEF LockStep, LoadUnlocked, CreateGoldenLock, RelockGoldenSet, OpenLock, WriteLock,
               Rest, StepTo, Continue
      <4>2. CASE IntakeStep(p)
        BY <4>2, Zenon
           DEF IntakeStep, LoadGolden, VerifyLocked, OpenStaged, FillStaged, VerifyStaged,
               ReplaceGolden, UnlinkStaged, Rest, StepTo, Continue
      <4>3. CASE BackupStep(p)
        BY <4>3, ZenonT(60)
           DEF BackupStep, StartBackup, Collect, DecideBackup, MakeStaging, CopyFile,
               WriteEntry, ClearStaging, RemoveEntry, RemoveStaging, RecordSnapshot,
               StartRecovery, CreateRestored, WriteRestored, Rest, StepTo, Continue
      <4>4. CASE CuratorDies(p)
        BY <4>4, Zenon DEF CuratorDies, Rest, Continue
      <4> QED
        BY <1>1, <4>1, <4>2, <4>3, <4>4, Zenon
    <3>2. curator'[o] # curator[o]
      BY <1>1, Zenon
    <3> QED
      BY <1>1, <3>1, <3>2, Zenon DEF CorpusInv
  <2>2. curator[o].pc \in {"fill", "replace"}
    BY <1>1, Zenon
  <2>3. FillStaged(o) \/ ReplaceGolden(o) \/ CuratorDies(o)
    <3>1. CASE LockStep(o)
      BY <2>2, <3>1, Zenon
         DEF LockStep, LoadUnlocked, CreateGoldenLock, RelockGoldenSet, OpenLock, WriteLock, IsAt
    <3>2. CASE IntakeStep(o)
      BY <2>2, <3>2, Zenon
         DEF IntakeStep, LoadGolden, VerifyLocked, OpenStaged, VerifyStaged, UnlinkStaged, IsAt
    <3>3. CASE BackupStep(o)
      BY <2>2, <3>3, ZenonT(60)
         DEF BackupStep, StartBackup, Collect, DecideBackup, MakeStaging, CopyFile,
             ClearStaging, RemoveEntry, RemoveStaging, RecordSnapshot, Renames,
             StartRecovery, CreateRestored, WriteRestored, IsAt
    <3> QED
      BY <1>1, <2>1, <3>1, <3>2, <3>3, Zenon
  <2>4. CASE ReplaceGolden(o)
    <3>1. corpus'["golden"] = corpus["intake"]
      BY <1>1, <2>4, ReplaceGoldenStep, Zenon
    <3> QED
      BY <1>1, <3>1, Zenon DEF CorpusInv, FilesOk, FileOk, CorpusFiles
  <2>5. CASE FillStaged(o)
    <3>1. corpus'["golden"] = curator[o].golden
      BY <1>1, <2>5, FilledGolden, Zenon DEF Readable
    <3> QED
      BY <1>1, <2>5, <3>1, FilledGolden, Zenon
  <2>6. CASE CuratorDies(o)
    BY <1>1, <2>6, Zenon DEF CuratorDies
  <2> QED
    BY <2>3, <2>4, <2>5, <2>6, Zenon
<1>2. ASSUME CorpusInv, NEW o \in Curators, Admits(o),
             EditPilot \/ LoseCorpus \/ CleanUp \/ UNCHANGED goldenVars
      PROVE  FALSE
  BY <1>2, Zenon DEF EditPilot, LoseCorpus, CleanUp, goldenVars
<1>3. CorpusInv /\ OpenedInv /\ [CorpusNext]_goldenVars =>
          \A o \in Curators : Admits(o) => corpus'["golden"].pilot \in lockedPilots
  <2> HIDE DEF Admits
  <2> QED
    BY <1>1, <1>2, Zenon DEF CorpusNext
<1>4. CorpusInit => CorpusInv /\ OpenedInv
  BY CorpusStarts, OpenedStarts, Zenon
<1>5. CorpusInv /\ OpenedInv /\ [CorpusNext]_goldenVars => CorpusInv' /\ OpenedInv'
  BY CorpusStep, OpenedStep, Zenon
<1> QED
  BY <1>3, <1>4, <1>5, PTL DEF CorpusSpec, AdmittedSetsAreLocked


-----------------------------------------------------------------------------
(* Snapshots.                                                              *)

\* The staging of a backup, while its files are copied and once they are.
CopiedSoFar(row) ==
    [f \in DirectoryFiles |->
        IF f = "manifest" \/ f \in row.todo THEN AbsentFile ELSE row.files[f]]
CopiedWhole(row) ==
    [f \in DirectoryFiles |-> IF f = "manifest" THEN row.files ELSE row.files[f]]

StagesWhatItCollected(o) ==
    LET row == curator[o]
    IN  InstantOf[o] \notin SharedInstants =>
        /\ row.pc \in BackupPcs => snapshots[InstantOf[o]] = AbsentFile
        /\ row.pc = "mkdir" => row.todo = PresentFiles(row.files)
        /\ row.pc = "copy" => /\ row.todo \subseteq PresentFiles(row.files)
                              /\ staging[InstantOf[o]] = CopiedSoFar(row)
        /\ row.pc = "rename" => staging[InstantOf[o]] = CopiedWhole(row)

\* A directory is recorded while another process clears it only when both name
\* its instant.
ClearsAreShared ==
    \A o \in Curators : opened[o] = "snapshot" => InstantOf[o] \in SharedInstants

BackupPart == (\A o \in Curators : StagesWhatItCollected(o)) /\ ReportedBackupsAreWhole

BackupInv == CorpusInv /\ OpenedInv /\ ClearsAreShared /\ BackupPart

LEMMA TwoShare ==
    ASSUME NEW o \in Curators, NEW p \in Curators, o # p, InstantOf[o] = InstantOf[p]
    PROVE  InstantOf[o] \in SharedInstants
BY Zenon DEF SharedInstants, CuratorsOf, Instants

\* A process whose row and directories stay.
LEMMA StagingStays ==
    ASSUME NEW o \in Curators, StagesWhatItCollected(o), curator'[o] = curator[o],
           staging'[InstantOf[o]] = staging[InstantOf[o]],
           snapshots'[InstantOf[o]] = snapshots[InstantOf[o]]
    PROVE  StagesWhatItCollected(o)'
<1>1. SharedInstants' = SharedInstants
  BY Zenon DEF SharedInstants, CuratorsOf, Instants
<1> QED
  BY <1>1, SMTT(60) DEF StagesWhatItCollected, CopiedSoFar, CopiedWhole, PresentFiles, BackupPcs

LEMMA OutsideABackup ==
    ASSUME NEW o \in Curators, curator'[o].pc \notin BackupPcs
    PROVE  StagesWhatItCollected(o)'
BY Zenon DEF StagesWhatItCollected, BackupPcs

LEMMA SharedStays == SharedInstants' = SharedInstants /\ Instants' = Instants
BY Zenon DEF SharedInstants, CuratorsOf, Instants

\* What is reported stays true while the snapshots of one process's instants do.
LEMMA ReportsHold ==
    ASSUME ReportedBackupsAreWhole, reported' = reported,
           \A t \in Instants \ SharedInstants : snapshots'[t] = snapshots[t]
    PROVE  ReportedBackupsAreWhole'
<1>1. ASSUME NEW t \in Instants \ SharedInstants
      PROVE  /\ t \in RecordedInstants' <=> t \in RecordedInstants
             /\ IsWhole(snapshots[t])' <=> IsWhole(snapshots[t])
             /\ CopiesIn(snapshots[t])' = CopiesIn(snapshots[t])
  BY <1>1, SharedStays DEF RecordedInstants, IsWhole, CopiesIn
<1>2. ASSUME NEW t \in RecordedInstants' \ SharedInstants
      PROVE  IsWhole(snapshots[t])'
  <2>1. t \in Instants
    BY <1>2, SharedStays, Zenon DEF RecordedInstants
  <2> QED
    BY <1>1, <1>2, <2>1, Zenon DEF ReportedBackupsAreWhole
<1>3. ASSUME NEW rep \in reported, rep.snapshot \notin SharedInstants
      PROVE  /\ rep.snapshot \in RecordedInstants'
             /\ CopiesIn(snapshots[rep.snapshot])' = rep.files
  <2>1. PICK t : t = rep.snapshot
    BY Zenon
  <2>2. /\ t \in RecordedInstants /\ t \in Instants \ SharedInstants
        /\ CopiesIn(snapshots[t]) = rep.files
    BY <1>3, <2>1, Zenon DEF ReportedBackupsAreWhole, RecordedInstants
  <2> QED
    BY <1>1, <2>1, <2>2, Zenon
<1> QED
  BY <1>2, <1>3, SharedStays, Zenon DEF ReportedBackupsAreWhole

LEMMA ReportsStay ==
    ASSUME ReportedBackupsAreWhole, UNCHANGED <<snapshots, reported>>
    PROVE  ReportedBackupsAreWhole'
BY ReportsHold, Zenon

LEMMA QuietBackups ==
    ASSUME BackupInv, QuietRows, UNCHANGED <<staging, snapshots, reported>>
    PROVE  BackupPart'
<1>1. ASSUME NEW o \in Curators
      PROVE  StagesWhatItCollected(o)'
  <2>1. CASE curator'[o].pc \in BackupPcs
    <3>1. curator'[o] = curator[o] /\ staging'[InstantOf[o]] = staging[InstantOf[o]]
          /\ snapshots'[InstantOf[o]] = snapshots[InstantOf[o]] /\ StagesWhatItCollected(o)
      BY <2>1, Zenon DEF QuietRows, BackupInv, BackupPart
    <3> QED
      BY <3>1, StagingStays, Zenon
  <2> QED
    BY <2>1, OutsideABackup, Zenon
<1>2. ReportedBackupsAreWhole'
  BY ReportsStay, Zenon DEF BackupInv, BackupPart
<1> QED
  BY <1>1, <1>2, Zenon DEF BackupPart

\* A process moves and changes the directories of its instant; the others name
\* other instants, or share theirs.
LEMMA OwnStaging ==
    ASSUME BackupInv, NEW o \in Curators,
           \A p \in Curators \ {o} : curator'[p] = curator[p],
           \A t \in Instants \ {InstantOf[o]} : staging'[t] = staging[t],
           \A t \in Instants \ {InstantOf[o]} : snapshots'[t] = snapshots[t],
           StagesWhatItCollected(o)', ReportedBackupsAreWhole'
    PROVE  BackupPart'
<1>1. ASSUME NEW p \in Curators \ {o}
      PROVE  StagesWhatItCollected(p)'
  <2>1. CASE InstantOf[p] \in SharedInstants
    BY <2>1, SharedStays, Zenon DEF StagesWhatItCollected
  <2>2. CASE InstantOf[p] \notin SharedInstants
    <3>1. InstantOf[p] \in Instants \ {InstantOf[o]}
      BY <1>1, <2>2, TwoShare, InstantsAreInstants, Zenon
    <3>2. /\ curator'[p] = curator[p] /\ staging'[InstantOf[p]] = staging[InstantOf[p]]
          /\ snapshots'[InstantOf[p]] = snapshots[InstantOf[p]] /\ StagesWhatItCollected(p)
      BY <1>1, <3>1, Zenon DEF BackupInv, BackupPart
    <3> QED
      BY <3>2, StagingStays, Zenon
  <2> QED
    BY <2>1, <2>2, Zenon
<1> QED
  BY <1>1, Zenon DEF BackupPart

LEMMA DecideBackups ==
    ASSUME BackupInv, NEW o \in Curators, DecideBackup(o)
    PROVE  BackupPart'
<1>0. CorpusInv
  BY Zenon DEF BackupInv
<1>1. /\ staging' = staging /\ snapshots' = snapshots
      /\ reported' = reported \cup
            {[snapshot |-> l, files |-> curator[o].files] :
                l \in {m \in LatestSnapshot : snapshots[m]["manifest"] = curator[o].files}}
  BY Zenon DEF DecideBackup
<1>2. /\ RecordedInstants' = RecordedInstants
      /\ \A t : IsWhole(snapshots[t])' <=> IsWhole(snapshots[t])
      /\ \A t : CopiesIn(snapshots[t])' = CopiesIn(snapshots[t])
  BY <1>1, SharedStays DEF RecordedInstants, IsWhole, CopiesIn
<1>3. ReportedBackupsAreWhole'
  <2>1. ASSUME NEW t \in RecordedInstants \ SharedInstants
        PROVE  IsWhole(snapshots[t])'
    BY <1>2, <2>1, Zenon DEF BackupInv, BackupPart, ReportedBackupsAreWhole
  <2>2. ASSUME NEW rep \in reported', rep.snapshot \notin SharedInstants
        PROVE  /\ rep.snapshot \in RecordedInstants
               /\ CopiesIn(snapshots[rep.snapshot])' = rep.files
    <3>1. CASE rep \in reported
      BY <1>2, <2>2, <3>1, Zenon DEF BackupInv, BackupPart, ReportedBackupsAreWhole
    <3>2. CASE rep \notin reported
      <4>1. PICK l : /\ l \in LatestSnapshot /\ snapshots[l]["manifest"] = curator[o].files
                     /\ rep = [snapshot |-> l, files |-> curator[o].files]
        BY <1>1, <2>2, <3>2, Zenon
      <4>2. rep.snapshot = l /\ rep.files = curator[o].files
        BY <4>1, Zenon
      <4>3. l \in RecordedInstants
        BY <4>1, Zenon DEF LatestSnapshot
      <4>4. CopiesIn(snapshots[l]) = curator[o].files
        BY <2>2, <4>1, <4>2, <4>3, Zenon
           DEF BackupInv, BackupPart, ReportedBackupsAreWhole, IsWhole
      <4> QED
        BY <1>2, <4>2, <4>3, <4>4, Zenon
    <3> QED
      BY <3>1, <3>2, Zenon
  <2> QED
    BY <1>2, <2>1, <2>2, SharedStays, Zenon DEF ReportedBackupsAreWhole
<1>4. CASE QuietRows
  <2>1. ASSUME NEW p \in Curators
        PROVE  StagesWhatItCollected(p)'
    <3>1. CASE curator'[p].pc \in BackupPcs
      <4>1. curator'[p] = curator[p] /\ staging'[InstantOf[p]] = staging[InstantOf[p]]
            /\ snapshots'[InstantOf[p]] = snapshots[InstantOf[p]] /\ StagesWhatItCollected(p)
        BY <1>1, <1>4, <3>1, Zenon DEF QuietRows, BackupInv, BackupPart
      <4> QED
        BY <4>1, StagingStays, Zenon
    <3> QED
      BY <3>1, OutsideABackup, Zenon
  <2> QED
    BY <1>3, <2>1, Zenon DEF BackupPart
<1>5. ASSUME ~ QuietRows
      PROVE  BackupPart'
  <2>1. /\ \A p \in Curators \ {o} : curator'[p] = curator[p]
        /\ curator'[o].pc = "mkdir" /\ curator'[o].files = curator[o].files
        /\ curator'[o].todo = PresentFiles(curator[o].files)
    BY <1>0, <1>5, DecideBackupStep, Zenon
  <2>2. ~ Rest(o)
    BY <2>1, RestRow, Zenon DEF Rest, Continue, CorpusInv, BackupInv
  <2>3. snapshots'[InstantOf[o]] = AbsentFile
    BY <1>1, <2>2, InstantsAreInstants, Zenon DEF DecideBackup, RecordedInstants
  <2>4. StagesWhatItCollected(o)'
    BY <2>1, <2>3, Zenon DEF StagesWhatItCollected, PresentFiles
  <2> QED
    BY <1>1, <1>3, <2>1, <2>4, OwnStaging, Zenon
<1> QED
  BY <1>4, <1>5, Zenon

LEMMA MakeBackups ==
    ASSUME BackupInv, NEW o \in Curators, MakeStaging(o)
    PROVE  BackupPart'
<1>0. /\ CorpusInv /\ snapshots' = snapshots /\ StagesWhatItCollected(o) /\ curator[o].pc = "mkdir"
      /\ staging = [t \in Instants |-> staging[t]] /\ InstantOf[o] \in Instants
      /\ curator = [p \in Curators |-> curator[p]]
  BY InstantsAreInstants, Zenon DEF BackupInv, BackupPart, MakeStaging, IsAt, CorpusInv
<1>1. ReportedBackupsAreWhole'
  BY ReportsStay, Zenon DEF BackupInv, BackupPart, MakeStaging
<1>s. CASE InstantOf[o] \in SharedInstants
  <2>1. /\ \E row : curator' = [curator EXCEPT ![o] = row]
        /\ \/ staging' = staging
           \/ \E d : staging' = [staging EXCEPT ![InstantOf[o]] = d]
    BY Zenon DEF MakeStaging, StepTo, Continue
  <2>2. /\ \A p \in Curators \ {o} : curator'[p] = curator[p]
        /\ \A t \in Instants \ {InstantOf[o]} : staging'[t] = staging[t]
        /\ StagesWhatItCollected(o)'
    BY <1>0, <1>s, <2>1, SharedStays, Zenon DEF StagesWhatItCollected
  <2> QED
    BY <1>0, <1>1, <2>2, OwnStaging, Zenon
<1>u. SUFFICES ASSUME InstantOf[o] \notin SharedInstants
               PROVE  BackupPart'
  BY <1>s, Zenon
<1>v. snapshots'[InstantOf[o]] = AbsentFile
  BY <1>0, <1>u, Zenon DEF StagesWhatItCollected, BackupPcs
<1>2. ASSUME staging' = staging, StepTo(o, "clear")
      PROVE  BackupPart'
  <2>1. PICK row : curator' = [curator EXCEPT ![o] = row] /\ row.pc = "clear"
    BY <1>0, <1>2, ToClear, Zenon 
  <2>2. curator'[o].pc \notin BackupPcs /\ \A p \in Curators \ {o} : curator'[p] = curator[p]
    BY <1>0, <2>1, Zenon DEF BackupPcs
  <2>3. StagesWhatItCollected(o)'
    BY <2>2, OutsideABackup, Zenon 
  <2> QED
    BY <1>0, <1>1, <1>2, <2>2, <2>3, OwnStaging, Zenon 
<1>3. ASSUME staging' = [staging EXCEPT ![InstantOf[o]] = EmptyDirectory], StepTo(o, "copy")
      PROVE  BackupPart'
  <2>1. PICK row : /\ curator' = [curator EXCEPT ![o] = row] /\ row.pc = "copy"
                   /\ row.files = curator[o].files /\ row.todo = curator[o].todo
    BY <1>0, <1>3, StepToRow
  <2>2. curator'[o] = row /\ \A p \in Curators \ {o} : curator'[p] = curator[p]
    BY <1>0, <2>1, Zenon 
  <2>3. /\ staging'[InstantOf[o]] = EmptyDirectory
        /\ \A t \in Instants \ {InstantOf[o]} : staging'[t] = staging[t]
    BY <1>0, <1>3, Zenon 
  <2>4. row.todo = PresentFiles(row.files)
    BY <1>0, <1>u, <2>1, Zenon DEF StagesWhatItCollected
  <2>5. EmptyDirectory = CopiedSoFar(row)
    BY <2>4, Zenon DEF EmptyDirectory, CopiedSoFar, DirectoryFiles, PresentFiles
  <2>6. CopiedSoFar(curator[o])' = CopiedSoFar(row)
        /\ PresentFiles(curator[o].files)' = PresentFiles(row.files)
    BY <2>2, ZenonT(60) DEF CopiedSoFar, PresentFiles
  <2>7. StagesWhatItCollected(o)'
    BY <1>v, <2>1, <2>2, <2>3, <2>4, <2>5, <2>6, Zenon DEF StagesWhatItCollected
  <2> QED
    BY <1>0, <1>1, <2>2, <2>3, <2>7, OwnStaging, Zenon 
<1> QED
  BY <1>2, <1>3, ZenonT(60) DEF MakeStaging

LEMMA CopyBackups ==
    ASSUME BackupInv, NEW o \in Curators, CopyFile(o)
    PROVE  BackupPart'
<1>0. /\ CorpusInv /\ snapshots' = snapshots /\ StagesWhatItCollected(o) /\ curator[o].pc = "copy"
      /\ staging = [t \in Instants |-> staging[t]] /\ InstantOf[o] \in Instants
      /\ curator = [p \in Curators |-> curator[p]] /\ CorpusRowOk(curator[o])
  BY InstantsAreInstants, Zenon DEF BackupInv, BackupPart, CopyFile, IsAt, CorpusInv
<1>1. ReportedBackupsAreWhole'
  BY ReportsStay, Zenon DEF BackupInv, BackupPart, CopyFile
<1>s. CASE InstantOf[o] \in SharedInstants
  <2>1. /\ \E row : curator' = [curator EXCEPT ![o] = row]
        /\ \/ staging' = staging
           \/ \E d : staging' = [staging EXCEPT ![InstantOf[o]] = d]
    BY Zenon DEF CopyFile, WriteEntry, StepTo, Continue
  <2>2. /\ \A p \in Curators \ {o} : curator'[p] = curator[p]
        /\ \A t \in Instants \ {InstantOf[o]} : staging'[t] = staging[t]
        /\ StagesWhatItCollected(o)'
    BY <1>0, <1>s, <2>1, SharedStays, Zenon DEF StagesWhatItCollected
  <2> QED
    BY <1>0, <1>1, <2>2, OwnStaging, Zenon
<1>u. SUFFICES ASSUME InstantOf[o] \notin SharedInstants
               PROVE  BackupPart'
  BY <1>s, Zenon
<1>v. snapshots'[InstantOf[o]] = AbsentFile
  BY <1>0, <1>u, Zenon DEF StagesWhatItCollected, BackupPcs
<1>2. ASSUME staging' = staging, StepTo(o, "clear")
      PROVE  BackupPart'
  <2>1. PICK row : curator' = [curator EXCEPT ![o] = row] /\ row.pc = "clear"
    BY <1>0, <1>2, ToClear, Zenon 
  <2>2. curator'[o].pc \notin BackupPcs /\ \A p \in Curators \ {o} : curator'[p] = curator[p]
    BY <1>0, <2>1, Zenon DEF BackupPcs
  <2>3. StagesWhatItCollected(o)'
    BY <2>2, OutsideABackup, Zenon 
  <2> QED
    BY <1>0, <1>1, <1>2, <2>2, <2>3, OwnStaging, Zenon 
<1>3. PICK old : old = curator[o] /\ CorpusRowOk(old) /\ RowShape(old) /\ old.pc = "copy"
  BY <1>0, ZenonT(60) DEF CorpusRowOk
<1>4. PICK before : /\ before = staging[InstantOf[o]] /\ before = CopiedSoFar(old)
                    /\ old.todo \subseteq PresentFiles(old.files)
  BY <1>0, <1>3, <1>u, Zenon DEF StagesWhatItCollected
<1>5. ASSUME NEW f \in old.todo,
             WriteEntry(o, f, old.files[f], [old EXCEPT !.todo = old.todo \ {f}]),
             ~ (staging' = staging /\ StepTo(o, "clear"))
      PROVE  BackupPart'
  <2>1. f \in CorpusFiles /\ f \in DirectoryFiles
    BY <1>3, <1>5, Zenon DEF CorpusRowOk, DirectoryFiles
  <2>2. PICK td, row, content : /\ td = old.todo \ {f} /\ row = WithLess(old, td)
                                /\ content = old.files[f]
    BY Zenon 
  <2>3. WriteEntry(o, f, content, row)
    BY <1>5, <2>2, Zenon DEF WithLess
  <2>4. FileOk(f, content, lockedPilots)
    BY <1>3, <2>1, <2>2, Zenon DEF CorpusRowOk, FilesOk
  <2>5. row.pc = "copy" /\ row.files = old.files /\ row.todo = td
    BY <1>3, <2>2, TodoShrinks
  <2>6. PICK d : /\ staging' = [staging EXCEPT ![InstantOf[o]] = d]
                 /\ d = [g \in DirectoryFiles |-> d[g]] /\ d[f] = content
                 /\ \A g \in DirectoryFiles \ {f} : d[g] = before[g]
                 /\ curator' = [curator EXCEPT ![o] = row]
    BY <1>0, <1>4, <1>5, <2>1, <2>3, <2>4, EntryWritten, SMTT(60) 
  <2>7. /\ \A t \in Instants \ {InstantOf[o]} : staging'[t] = staging[t]
        /\ \A p \in Curators \ {o} : curator'[p] = curator[p]
        /\ staging'[InstantOf[o]] = d /\ curator'[o] = row
    BY <1>0, <2>6, Zenon 
  <2>8. d = CopiedSoFar(row)
    <3>1. \A g \in DirectoryFiles :
             d[g] = IF g = "manifest" \/ g \in row.todo THEN AbsentFile ELSE row.files[g]
      BY <1>4, <2>1, <2>2, <2>5, <2>6, SMTT(60) DEF CopiedSoFar, CorpusFiles
    <3> QED
      BY <2>6, <3>1, Zenon DEF CopiedSoFar
  <2>9. row.todo \subseteq PresentFiles(row.files)
    BY <1>4, <2>2, <2>5, Zenon 
  <2>10. /\ CopiedSoFar(curator[o])' = CopiedSoFar(row)
         /\ PresentFiles(curator[o].files)' = PresentFiles(row.files)
    BY <2>7, ZenonT(60) DEF CopiedSoFar, PresentFiles
  <2>11. StagesWhatItCollected(o)'
    BY <1>v, <2>5, <2>7, <2>8, <2>9, <2>10, Zenon DEF StagesWhatItCollected
  <2> QED
    BY <1>0, <1>1, <2>7, <2>11, OwnStaging, Zenon 
<1>6. ASSUME old.todo = {},
             WriteEntry(o, "manifest", old.files, [old EXCEPT !.pc = "rename"]),
             ~ (staging' = staging /\ StepTo(o, "clear"))
      PROVE  BackupPart'
  <2>1. "manifest" \notin CorpusFiles /\ "manifest" \in DirectoryFiles
    BY Zenon DEF CorpusFiles, DirectoryFiles
  <2>2. PICK row, content, m : /\ row = WithPc(old, "rename") /\ content = old.files
                               /\ m = "manifest"
    BY Zenon 
  <2>3. WriteEntry(o, m, content, row)
    BY <1>6, <2>2, ZenonT(60) DEF WithPc
  <2>4. RowShape(row) /\ row.pc = "rename" /\ row.files = old.files
    BY <1>3, <2>2, PcMoves
  <2>6. PICK d : /\ staging' = [staging EXCEPT ![InstantOf[o]] = d]
                 /\ d = [g \in DirectoryFiles |-> d[g]] /\ d[m] = content
                 /\ \A g \in DirectoryFiles \ {m} : d[g] = before[g]
                 /\ curator' = [curator EXCEPT ![o] = row]
    BY <1>0, <1>4, <1>6, <2>1, <2>2, <2>3, EntryWritten, SMTT(60) 
  <2>7. /\ \A t \in Instants \ {InstantOf[o]} : staging'[t] = staging[t]
        /\ \A p \in Curators \ {o} : curator'[p] = curator[p]
        /\ staging'[InstantOf[o]] = d /\ curator'[o] = row
    BY <1>0, <2>6, Zenon 
  <2>8. d = CopiedWhole(row)
    <3>1. \A g \in DirectoryFiles : d[g] = IF g = "manifest" THEN row.files ELSE row.files[g]
      BY <1>4, <1>6, <2>2, <2>4, <2>6 DEF CopiedSoFar
    <3> QED
      BY <2>6, <3>1, Zenon DEF CopiedWhole
  <2>9. CopiedWhole(curator[o])' = CopiedWhole(row)
    BY <2>7, ZenonT(60) DEF CopiedWhole
  <2>10. StagesWhatItCollected(o)'
    BY <1>v, <2>4, <2>7, <2>8, <2>9, Zenon DEF StagesWhatItCollected
  <2> QED
    BY <1>0, <1>1, <2>7, <2>10, OwnStaging, Zenon 
<1> QED
  BY <1>2, <1>3, <1>5, <1>6, ZenonT(60) DEF CopyFile, WriteEntry


\* An entry of a directory is removed, of the staging or, when the instant is
\* shared, of a snapshot.
LEMMA RemoveBackups ==
    ASSUME BackupInv, NEW o \in Curators, RemoveEntry(o)
    PROVE  BackupPart'
<1>0. CorpusInv /\ reported' = reported /\ curator[o].pc = "remove" /\ InstantOf[o] \in Instants
  BY InstantsAreInstants, Zenon DEF BackupInv, RemoveEntry, IsAt
<1>1. /\ QuietRows
      /\ \A t \in Instants \ {InstantOf[o]} : staging'[t] = staging[t]
      /\ \A t \in Instants \ {InstantOf[o]} : snapshots'[t] = snapshots[t]
  BY <1>0, RemoveEntryStep, Zenon
<1>2. InstantOf[o] \notin SharedInstants => snapshots' = snapshots
  BY Zenon DEF RemoveEntry, BackupInv, ClearsAreShared
<1>3. \A t \in Instants \ SharedInstants : snapshots'[t] = snapshots[t]
  BY <1>1, <1>2, Zenon
<1>4. ReportedBackupsAreWhole'
  BY <1>0, <1>3, ReportsHold, Zenon DEF BackupInv, BackupPart
<1>5. ASSUME NEW td, NEW row, curator' = [curator EXCEPT ![o] = row]
      PROVE  \A p \in Curators \ {o} : curator'[p] = curator[p]
  BY <1>0, <1>5, Zenon DEF CorpusInv
<1>6. \A p \in Curators \ {o} : curator'[p] = curator[p]
  BY <1>5, Zenon DEF RemoveEntry, Continue
<1>7. curator'[o].pc \notin BackupPcs
  BY <1>0, <1>1, Zenon DEF QuietRows, BackupPcs
<1>8. StagesWhatItCollected(o)'
  BY <1>7, OutsideABackup, Zenon
<1> QED
  BY <1>1, <1>4, <1>6, <1>8, OwnStaging, Zenon

LEMMA RemoveStagingBackups ==
    ASSUME BackupInv, NEW o \in Curators, RemoveStaging(o)
    PROVE  BackupPart'
<1>0. /\ snapshots' = snapshots /\ reported' = reported
      /\ curator = [p \in Curators |-> curator[p]] /\ staging = [t \in Instants |-> staging[t]]
      /\ curator' = [curator EXCEPT ![o] = AtRest]
  BY Zenon DEF RemoveStaging, BackupInv, CorpusInv, Rest, Continue
<1>1. ReportedBackupsAreWhole'
  BY <1>0, ReportsStay, Zenon DEF BackupInv, BackupPart
<1>2. \/ staging' = staging
      \/ \E d : staging' = [staging EXCEPT ![InstantOf[o]] = d]
  BY Zenon DEF RemoveStaging
<1>3. /\ \A t \in Instants \ {InstantOf[o]} : staging'[t] = staging[t]
      /\ \A p \in Curators \ {o} : curator'[p] = curator[p]
      /\ curator'[o].pc \notin BackupPcs
  BY <1>0, <1>2, RestRow, Zenon DEF BackupPcs
<1>4. StagesWhatItCollected(o)'
  BY <1>3, OutsideABackup, Zenon
<1> QED
  BY <1>0, <1>1, <1>3, <1>4, OwnStaging, Zenon

LEMMA RecordBackups ==
    ASSUME BackupInv, NEW o \in Curators, RecordSnapshot(o)
    PROVE  BackupPart'
<1>0. /\ curator[o].pc = "rename" /\ CorpusRowOk(curator[o])
      /\ staging = [t \in Instants |-> staging[t]] /\ InstantOf[o] \in Instants
      /\ snapshots = [t \in Instants |-> snapshots[t]]
      /\ curator = [p \in Curators |-> curator[p]] /\ StagesWhatItCollected(o)
      /\ curator' = [curator EXCEPT ![o] = AtRest]
  BY InstantsAreInstants, Zenon
     DEF BackupInv, BackupPart, RecordSnapshot, Renames, IsAt, CorpusInv, Rest, Continue
<1>1. AtRest.pc = "idle"
  BY RestRow, Zenon
<1>2. curator'[o].pc \notin BackupPcs /\ \A p \in Curators \ {o} : curator'[p] = curator[p]
  BY <1>0, <1>1, Zenon DEF BackupPcs
<1>3. StagesWhatItCollected(o)'
  BY <1>2, OutsideABackup, Zenon
<1>4. CASE UNCHANGED backups
  BY <1>2, <1>3, <1>4, ReportsStay, OwnStaging, Zenon DEF backups, BackupInv, BackupPart
<1>5. ASSUME NEW t \in Instants, t = InstantOf[o],
             snapshots' = [snapshots EXCEPT ![t] = staging[t]],
             staging' = [staging EXCEPT ![t] = AbsentFile],
             reported' = reported \cup {[snapshot |-> t, files |-> curator[o].files]},
             staging[t] # AbsentFile
      PROVE  BackupPart'
  <2>1. /\ snapshots'[t] = staging[t]
        /\ \A u \in Instants \ {t} : snapshots'[u] = snapshots[u]
        /\ \A u \in Instants \ {t} : staging'[u] = staging[u]
    BY <1>0, <1>5, Zenon
  <2>2. ASSUME NEW rep \in reported', rep \notin reported
        PROVE  rep.snapshot = t /\ rep.files = curator[o].files
    <3>1. rep = [snapshot |-> t, files |-> curator[o].files]
      BY <1>5, <2>2, Zenon
    <3> QED
      BY <3>1, Zenon
  <2>3. ASSUME t \notin SharedInstants
        PROVE  IsWhole(snapshots'[t]) /\ CopiesIn(snapshots'[t]) = curator[o].files
    <3>1. PICK files, d : /\ files = curator[o].files /\ d = staging[t]
                          /\ files = [f \in CorpusFiles |-> files[f]]
                          /\ d = [f \in DirectoryFiles |->
                                     IF f = "manifest" THEN files ELSE files[f]]
      BY <1>0, <1>5, <2>3, Zenon DEF StagesWhatItCollected, CopiedWhole, CorpusRowOk
    <3>2. \A f \in CorpusFiles : d[f] = files[f]
      BY <3>1, Zenon DEF DirectoryFiles, CorpusFiles
    <3>3. d["manifest"] = files /\ files = [f \in CorpusFiles |-> files[f]]
      BY <3>1, Zenon DEF DirectoryFiles
    <3>4. CopiesIn(d) = files /\ IsWhole(d)
      BY <3>2, <3>3, ZenonT(60) DEF CopiesIn, IsWhole
    <3> QED
      BY <2>1, <3>1, <3>4, Zenon
  <2>4. ASSUME NEW u \in RecordedInstants', u \notin SharedInstants
        PROVE  IsWhole(snapshots'[u])
    <3>1. CASE u = t
      BY <2>3, <2>4, <3>1, Zenon
    <3>2. CASE u # t
      <4>1. snapshots'[u] = snapshots[u] /\ u \in RecordedInstants
        BY <2>1, <2>4, <3>2, SharedStays, Zenon DEF RecordedInstants
      <4> QED
        BY <2>4, <4>1, Zenon DEF BackupInv, BackupPart, ReportedBackupsAreWhole
    <3> QED
      BY <3>1, <3>2, Zenon
  <2>5. ASSUME NEW rep \in reported', rep.snapshot \notin SharedInstants
        PROVE  /\ rep.snapshot \in RecordedInstants'
               /\ CopiesIn(snapshots'[rep.snapshot]) = rep.files
    <3>1. CASE rep \notin reported
      <4>1. snapshots'[t] # AbsentFile
        BY <1>5, <2>1, Zenon
      <4> QED
        BY <2>2, <2>3, <2>5, <3>1, <4>1, SharedStays, Zenon DEF RecordedInstants
    <3>2. CASE rep \in reported
      <4>1. PICK u : u = rep.snapshot
        BY Zenon
      <4>2. u \in RecordedInstants /\ CopiesIn(snapshots[u]) = rep.files
        BY <2>5, <3>2, <4>1, Zenon DEF BackupInv, BackupPart, ReportedBackupsAreWhole
      <4>3. u # t
        BY <1>0, <1>5, <2>5, <4>1, <4>2, Zenon
           DEF StagesWhatItCollected, BackupPcs, RecordedInstants
      <4>4. snapshots'[u] = snapshots[u] /\ u \in RecordedInstants'
        BY <2>1, <4>2, <4>3, SharedStays, Zenon DEF RecordedInstants
      <4> QED
        BY <4>1, <4>2, <4>4, Zenon
    <3> QED
      BY <3>1, <3>2, Zenon
  <2>6. ReportedBackupsAreWhole'
    <3>1. \A u : /\ IsWhole(snapshots[u])' <=> IsWhole(snapshots'[u])
                 /\ CopiesIn(snapshots[u])' = CopiesIn(snapshots'[u])
      BY DEF IsWhole, CopiesIn
    <3> QED
      BY <2>4, <2>5, <3>1, SharedStays, Zenon DEF ReportedBackupsAreWhole
  <2> QED
    BY <1>2, <1>3, <1>5, <2>1, <2>6, OwnStaging, Zenon
<1> QED
  BY <1>0, <1>4, <1>5, Zenon DEF RecordSnapshot

LEMMA CleanUpBackups ==
    ASSUME BackupInv, CleanUp
    PROVE  BackupPart'
<1>2. \A o \in Curators : curator'[o].pc \notin BackupPcs
  BY Zenon DEF CleanUp, IsAt, BackupPcs
<1>3. \A o \in Curators : StagesWhatItCollected(o)'
  BY <1>2, OutsideABackup, Zenon
<1>4. ReportedBackupsAreWhole'
  BY ReportsStay, Zenon DEF BackupInv, BackupPart, CleanUp
<1> QED
  BY <1>3, <1>4, Zenon DEF BackupPart

\* A process comes to have a snapshot open when another renames the staging it
\* is clearing.
LEMMA ClearsStayShared ==
    ASSUME BackupInv, [CorpusNext]_goldenVars
    PROVE  ClearsAreShared'
<1>0. CorpusInv /\ ClearsAreShared /\ opened = [o \in Curators |-> opened[o]]
  BY Zenon DEF BackupInv, OpenedInv
<1>1. CASE opened' = opened
  BY <1>0, <1>1, SharedStays, Zenon DEF ClearsAreShared
<1>2. ASSUME NEW o \in Curators, NEW place, place # "snapshot", Open(o, place)
      PROVE  ClearsAreShared'
  <2>1. \A p \in Curators : opened'[p] = opened[p] \/ opened'[p] # "snapshot"
    BY <1>0, <1>2, Zenon DEF Open
  <2> QED
    BY <1>0, <2>1, SharedStays, Zenon DEF ClearsAreShared
<1>3. ASSUME NEW o \in Curators, NEW processes, NEW from, NEW to, to # "snapshot",
             \/ opened' = OpenedAfter(processes, from, to)
             \/ opened' = [OpenedAfter(processes, from, to) EXCEPT ![o] = "none"]
      PROVE  ClearsAreShared'
  <2>1. PICK after : after = OpenedAfter(processes, from, to)
    BY Zenon
  <2>2. /\ after = [p \in Curators |-> after[p]]
        /\ \A p \in Curators : after[p] = opened[p] \/ after[p] # "snapshot"
    BY <1>3, <2>1, Zenon DEF OpenedAfter
  <2>3. \A p \in Curators : opened'[p] = opened[p] \/ opened'[p] # "snapshot"
    BY <1>3, <2>1, <2>2, Zenon
  <2> QED
    BY <1>0, <2>3, SharedStays, Zenon DEF ClearsAreShared
<1>4. ASSUME NEW o \in Curators, RecordSnapshot(o)
      PROVE  ClearsAreShared'
  <2>1. CASE opened' = OpenedAfter(CuratorsOf(InstantOf[o]) \ {o}, "staging", "snapshot")
    <3>1. \A p \in Curators : \/ opened'[p] = opened[p] \/ opened'[p] # "snapshot"
                              \/ p \in CuratorsOf(InstantOf[o]) \ {o}
      BY <2>1, Zenon DEF OpenedAfter
    <3>2. \A p \in CuratorsOf(InstantOf[o]) \ {o} : InstantOf[p] \in SharedInstants
      BY TwoShare, Zenon DEF CuratorsOf
    <3> QED
      BY <1>0, <3>1, <3>2, SharedStays, Zenon DEF ClearsAreShared
  <2> QED
    BY <1>1, <1>4, <2>1, Zenon DEF RecordSnapshot
<1>5. ASSUME NEW o \in Curators, CreateRestored(o)
      PROVE  ClearsAreShared'
  <2>1. ASSUME NEW f \in curator[o].todo, Open(o, f)
        PROVE  ClearsAreShared'
    <3>1. f \in CorpusFiles
      BY <1>0, <1>5, <2>1, Zenon DEF CorpusInv, CorpusRowOk, CreateRestored, IsAt
    <3> QED
      BY <1>2, <2>1, <3>1, Zenon DEF CorpusFiles
  <2> QED
    BY <1>1, <1>5, <2>1, Zenon DEF CreateRestored
<1>6. ASSUME NEW o \in Curators, LockStep(o) \/ CuratorDies(o)
      PROVE  ClearsAreShared'
  <2>1. opened' = opened \/ Open(o, "lock") \/ Open(o, "none")
    BY <1>6, Zenon DEF LockStep, LoadUnlocked, CreateGoldenLock, RelockGoldenSet, OpenLock,
                       WriteLock, CuratorDies, Close
  <2> QED
    BY <1>1, <1>2, <2>1, Zenon
<1>7. ASSUME NEW o \in Curators, IntakeStep(o)
      PROVE  ClearsAreShared'
  <2>1. \/ opened' = opened \/ Open(o, "intake") \/ Open(o, "none")
        \/ opened' = OpenedAfter(Curators, "intake", "golden")
        \/ opened' = OpenedAfter(Curators, "intake", "gone")
        \/ opened' = [OpenedAfter(Curators, "intake", "gone") EXCEPT ![o] = "none"]
    BY <1>7, Zenon DEF IntakeStep, LoadGolden, VerifyLocked, OpenStaged, FillStaged,
                       VerifyStaged, ReplaceGolden, UnlinkStaged, Close
  <2> QED
    BY <1>1, <1>2, <1>3, <2>1, Zenon
<1>8. ASSUME NEW o \in Curators, BackupStep(o)
      PROVE  ClearsAreShared'
  <2>1. CASE \/ StartBackup(o) \/ Collect(o) \/ DecideBackup(o) \/ MakeStaging(o)
             \/ CopyFile(o) \/ ClearStaging(o) \/ RemoveEntry(o) \/ StartRecovery(o)
             \/ WriteRestored(o)
    <3>1. opened' = opened \/ Open(o, "staging") \/ Open(o, "none")
      BY <2>1, Zenon DEF StartBackup, Collect, DecideBackup, MakeStaging, CopyFile,
                         ClearStaging, RemoveEntry, StartRecovery, WriteRestored, Close
    <3> QED
      BY <1>1, <1>2, <3>1, Zenon
  <2>2. CASE RemoveStaging(o)
    <3>1. \/ Open(o, "none")
          \/ opened' = [OpenedAfter(CuratorsOf(InstantOf[o]), "staging", "gone")
                           EXCEPT ![o] = "none"]
      BY <2>2, Zenon DEF RemoveStaging, Close
    <3> QED
      BY <1>2, <1>3, <3>1, Zenon
  <2> QED
    BY <1>4, <1>5, <1>8, <2>1, <2>2, Zenon DEF BackupStep
<1>9. CASE EditPilot \/ LoseCorpus \/ CleanUp \/ UNCHANGED goldenVars
  BY <1>1, <1>9, Zenon DEF EditPilot, LoseCorpus, CleanUp, goldenVars
<1> QED
  BY <1>6, <1>7, <1>8, <1>9, Zenon DEF CorpusNext

LEMMA BackupStepKeeps ==
    ASSUME BackupInv, [CorpusNext]_goldenVars
    PROVE  BackupPart'
<1> USE DEF backups
<1>0. CorpusInv /\ OpenedInv
  BY Zenon DEF BackupInv
<1>1. CASE EditPilot \/ LoseCorpus \/ UNCHANGED goldenVars
  BY <1>0, <1>1, EnvironmentSteps, QuietBackups, Zenon DEF EditPilot, LoseCorpus, goldenVars
<1>2. CASE CleanUp
  BY <1>2, CleanUpBackups, Zenon
<1>3. ASSUME NEW o \in Curators, LockStep(o)
      PROVE  BackupPart'
  <2>1. UNCHANGED <<staging, snapshots, reported>>
    BY <1>3, Zenon DEF LockStep, LoadUnlocked, CreateGoldenLock, RelockGoldenSet, OpenLock,
                       WriteLock
  <2> QED
    BY <1>0, <1>3, <2>1, LoadSteps, LockSteps, WriteLockSteps, QuietBackups, Zenon DEF LockStep
<1>4. ASSUME NEW o \in Curators, IntakeStep(o)
      PROVE  BackupPart'
  <2>1. UNCHANGED <<staging, snapshots, reported>>
    BY <1>4, ZenonT(60) DEF IntakeStep, LoadGolden, VerifyLocked, OpenStaged, FillStaged,
                            VerifyStaged, ReplaceGolden, UnlinkStaged
  <2> QED
    BY <1>0, <1>4, <2>1, LoadSteps, VerifyLockedStep, StagedSteps, VerifyStagedStep,
       ReplaceGoldenStep, QuietBackups, Zenon DEF IntakeStep
<1>5. ASSUME NEW o \in Curators,
             StartBackup(o) \/ Collect(o) \/ CuratorDies(o) \/ ClearStaging(o)
      PROVE  BackupPart'
  BY <1>0, <1>5, CollectSteps, ClearStagingStep, QuietBackups, ZenonT(60)
     DEF StartBackup, Collect, CuratorDies, ClearStaging
<1>6. ASSUME NEW o \in Curators, StartRecovery(o) \/ CreateRestored(o) \/ WriteRestored(o)
      PROVE  BackupPart'
  BY <1>0, <1>6, StartRecoveryStep, CreateRestoredStep, WriteRestoredStep, QuietBackups, ZenonT(60)
     DEF StartRecovery, CreateRestored, WriteRestored
<1> QED
  BY <1>1, <1>2, <1>3, <1>4, <1>5, <1>6, DecideBackups, MakeBackups, CopyBackups, RemoveBackups,
     RemoveStagingBackups, RecordBackups, ZenonT(60) DEF CorpusNext, BackupStep

\* A snapshot on record is whole, and the snapshot an outcome names holds the
\* bytes that were collected, for every number of processes and whatever
\* instants they name: a backup that reports success can be recovered although
\* others collect, fail, die, clear and recover at the same time. The snapshots
\* of an instant that two processes name are the exception.
THEOREM BackupsAreWhole == CorpusSpec => []ReportedBackupsAreWhole
<1>1. CorpusInit => BackupInv
  <2> SUFFICES ASSUME CorpusInit PROVE BackupInv
    OBVIOUS
  <2>1. AtRest.pc = "idle"
    BY RestRow, Zenon
  <2>2. \A o \in Curators : StagesWhatItCollected(o)
    BY <2>1, Zenon DEF CorpusInit, StagesWhatItCollected, BackupPcs
  <2>3. RecordedInstants = {} /\ reported = {} /\ ClearsAreShared
    BY Zenon DEF CorpusInit, RecordedInstants, ClearsAreShared
  <2> QED
    BY <2>2, <2>3, CorpusStarts, OpenedStarts, Zenon
       DEF BackupInv, BackupPart, ReportedBackupsAreWhole
<1>2. BackupInv /\ [CorpusNext]_goldenVars => BackupInv'
  <2> SUFFICES ASSUME BackupInv, [CorpusNext]_goldenVars PROVE BackupInv'
    OBVIOUS
  <2>1. CorpusInv /\ OpenedInv
    BY Zenon DEF BackupInv
  <2> QED
    BY <2>1, CorpusStep, OpenedStep, ClearsStayShared, BackupStepKeeps, Zenon DEF BackupInv
<1>3. BackupInv => ReportedBackupsAreWhole
  BY Zenon DEF BackupInv, BackupPart
<1> QED
  BY <1>1, <1>2, <1>3, PTL DEF CorpusSpec
=============================================================================
