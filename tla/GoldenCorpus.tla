---------------------------- MODULE GoldenCorpus ----------------------------
(***************************************************************************)
(* The private golden corpus and its backups (engine/learning/golden.py,   *)
(* golden_intake.py, backup.py).  Operators run commands on files they     *)
(* share and no command takes a lock: every read, write and rename is a    *)
(* step of its own, a process may stop between any two of them, a write    *)
(* may fail, and files are edited or lost meanwhile.                       *)
(*                                                                         *)
(* Bytes are modelled by what they say.  The golden set is its pilot cases *)
(* and its dev cases, the lock is its history, and a digest is what it is  *)
(* taken of.  A file that was opened for writing and not finished is Torn. *)
(* What a process has opened it reaches wherever it is by then: under its    *)
(* name, under the name another process gave it, or nowhere.                *)
(***************************************************************************)
EXTENDS Integers, Sequences, FiniteSets

CONSTANTS
    Pilots,          \* pilot partitions of the golden set
    Cases,           \* cases proposed from feedback
    Citations,       \* evidence a run may have cited
    Curators,        \* processes of operators
    InstantOf,       \* the --recorded-at of the commands of an operator
    CorpusEditBound, \* bound: edits of the pilot, and losses of the corpus
    AbsentFile, Torn

ASSUME CorpusAssumption ==
    /\ InstantOf \in [Curators -> Nat \ {0}]
    /\ CorpusEditBound \in Nat

VARIABLES
    corpus,          \* the files of the durable golden root
    staging,         \* the .staging- directories of the backup root
    snapshots,       \* the recorded snapshots
    opened,          \* where the file or directory a process has open is now
    curator,         \* the local state of each process
    corpusEdits,     \* edits and losses so far
    lockedPilots,    \* history: every pilot some lock entry was written for
    reported         \* history: what backups reported as recorded

goldenVars ==
    <<corpus, staging, snapshots, opened, curator, corpusEdits, lockedPilots, reported>>

CorpusFiles == {"intake", "golden", "lock"}
Instants == {InstantOf[o] : o \in Curators}
CuratorsOf(t) == {o \in Curators : InstantOf[o] = t}

NoFiles == [f \in CorpusFiles |-> AbsentFile]
PresentFiles(files) == {f \in CorpusFiles : files[f] # AbsentFile}

\* A staging or snapshot directory holds copies of the files and a manifest; the
\* manifest says what the files were when they were collected.
EmptyDirectory == [f \in CorpusFiles \cup {"manifest"} |-> AbsentFile]
CopiesIn(directory) == [f \in CorpusFiles |-> directory[f]]
Holds(directory, f) == directory # AbsentFile /\ directory[f] # AbsentFile
IsWhole(directory) == directory["manifest"] = CopiesIn(directory)

AtRest == [pc |-> "idle", golden |-> AbsentFile, lock |-> <<>>, todo |-> {},
           files |-> NoFiles, from |-> 0, writing |-> "manifest"]

CorpusInit ==
    /\ \E p \in Pilots :
          corpus = [NoFiles EXCEPT !["golden"] = [pilot |-> p, dev |-> {}]]
    /\ staging = [t \in Instants |-> AbsentFile]
    /\ snapshots = [t \in Instants |-> AbsentFile]
    /\ opened = [o \in Curators |-> "none"]
    /\ curator = [o \in Curators |-> AtRest]
    /\ corpusEdits = 0 /\ lockedPilots = {} /\ reported = {}

IsAt(o, pc) == curator[o].pc = pc
Continue(o, local) == curator' = [curator EXCEPT ![o] = local]
Rest(o) == Continue(o, AtRest)
StepTo(o, pc) == Continue(o, [curator[o] EXCEPT !.pc = pc])

Readable(content) == content \notin {AbsentFile, Torn}

backups == <<staging, snapshots, reported>>

Open(o, place) == opened' = [opened EXCEPT ![o] = place]
Close(o) == Open(o, "none")

\* Where what these processes have open is, once one place is renamed to another
\* (whose content is gone then) or is removed.
OpenedAfter(processes, from, to) ==
    [p \in Curators |-> IF p \notin processes THEN opened[p]
                        ELSE IF opened[p] = from THEN to
                        ELSE IF opened[p] = to THEN "gone" ELSE opened[p]]

\* A file is written through its descriptor.  When another process has written
\* it since it was opened, a longer text may show behind the shorter one.
WriteOpened(o, content) ==
    LET f == opened[o]
    IN  IF f = "gone" THEN UNCHANGED corpus
        ELSE \E c \in {content} \cup {Torn : d \in {corpus[f]} \ {Torn}} :
                corpus' = [corpus EXCEPT ![f] = c]

\* Environment: somebody changes the pilot cases in the golden file.
EditPilot ==
    /\ corpusEdits < CorpusEditBound
    /\ Readable(corpus["golden"])
    /\ \E p \in Pilots \ {corpus["golden"].pilot} :
          corpus' = [corpus EXCEPT !["golden"] = [@ EXCEPT !.pilot = p]]
    /\ corpusEdits' = corpusEdits + 1
    /\ UNCHANGED <<opened, backups, curator, lockedPilots>>

\* Environment: the corpus root is lost, or emptied for a recovery, while no
\* process has a file of it open.
LoseCorpus ==
    /\ corpusEdits < CorpusEditBound
    /\ \A o \in Curators : opened[o] \notin CorpusFiles
    /\ corpus' = NoFiles
    /\ corpusEdits' = corpusEdits + 1
    /\ UNCHANGED <<opened, backups, curator, lockedPilots>>

\* The process dies between two steps; what it wrote stays.
CuratorDies(o) ==
    /\ ~ IsAt(o, "idle")
    /\ Rest(o) /\ Close(o)
    /\ UNCHANGED <<corpus, backups, corpusEdits, lockedPilots>>

-----------------------------------------------------------------------------
(* The lock of the pilot.                                                  *)

\* Mutant: the lock exists, whatever its latest entry is for.
MutantLockNames(lock, golden) == Readable(lock)

\* _verify_lock: the lock is readable and its latest entry is for this pilot.
LockNames(lock, golden) == Readable(lock) /\ lock[Len(lock)].pilot = golden.pilot

\* lock and relock load the golden set first, without its lock.
LoadUnlocked(o, pc) ==
    /\ IsAt(o, "idle")
    /\ Readable(corpus["golden"])
    /\ Continue(o, [AtRest EXCEPT !.pc = pc, !.golden = corpus["golden"]])
    /\ UNCHANGED <<corpus, opened, backups, corpusEdits, lockedPilots>>

\* _lock_entry; the sequence of entries stands for the chain of their digests.
LockEntry(o) == [pilot |-> curator[o].golden.pilot, at |-> InstantOf[o]]

\* create_golden_lock: refused when there is a lock.
CreateGoldenLock(o) ==
    /\ IsAt(o, "lock")
    /\ IF corpus["lock"] = AbsentFile
       THEN Continue(o, [curator[o] EXCEPT !.pc = "open", !.lock = <<LockEntry(o)>>])
       ELSE Rest(o)
    /\ UNCHANGED <<corpus, opened, backups, corpusEdits, lockedPilots>>

\* relock_golden_set: refused without a readable lock, or when its latest entry
\* is not older; else a new entry is appended.
RelockGoldenSet(o) ==
    LET lock == corpus["lock"]
    IN  /\ IsAt(o, "relock")
        /\ IF Readable(lock) /\ lock[Len(lock)].at < InstantOf[o]
           THEN Continue(o, [curator[o] EXCEPT !.pc = "open",
                                               !.lock = Append(lock, LockEntry(o))])
           ELSE Rest(o)
        /\ UNCHANGED <<corpus, opened, backups, corpusEdits, lockedPilots>>

\* _write_lock: the file is truncated, then written.
OpenLock(o) ==
    /\ IsAt(o, "open")
    /\ corpus' = [corpus EXCEPT !["lock"] = Torn]
    /\ StepTo(o, "write") /\ Open(o, "lock")
    /\ UNCHANGED <<backups, corpusEdits, lockedPilots>>

WriteLock(o) ==
    /\ IsAt(o, "write")
    /\ WriteOpened(o, curator[o].lock)
    /\ lockedPilots' = lockedPilots \cup {curator[o].golden.pilot}
    /\ Rest(o) /\ Close(o)
    /\ UNCHANGED <<backups, corpusEdits>>

LockStep(o) ==
    \/ LoadUnlocked(o, "lock") \/ LoadUnlocked(o, "relock")
    \/ CreateGoldenLock(o) \/ RelockGoldenSet(o) \/ OpenLock(o) \/ WriteLock(o)

-----------------------------------------------------------------------------
(* Admission of a case that was curated from feedback.                     *)

\* admit_evaluation_case loads the golden set, then its lock.
LoadGolden(o) ==
    /\ IsAt(o, "idle")
    /\ Readable(corpus["golden"])
    /\ Continue(o, [AtRest EXCEPT !.pc = "intake", !.golden = corpus["golden"]])
    /\ UNCHANGED <<corpus, opened, backups, corpusEdits, lockedPilots>>

\* context_learning_read_feedback_evidence and build_curation_candidate: a
\* candidate is bound to the citations of a delivered run, never to none.
Candidates ==
    [case : Cases, partition : {"dev", "pilot"}, answerable : BOOLEAN,
     expected : SUBSET Citations, cited : (SUBSET Citations) \ {{}}]

\* _require_case_binding: an answerable case expects something, and what any
\* case expects was cited.
CaseIsBound(candidate) ==
    /\ candidate.answerable => candidate.expected # {}
    /\ candidate.expected \subseteq candidate.cited

\* Only new dev cases are admitted; pilot cases need an explicit re-lock.
Admissible(golden, candidate) ==
    /\ CaseIsBound(candidate)
    /\ candidate.partition = "dev"
    /\ candidate.case \notin golden.dev

VerifyLocked(o) ==
    LET me == curator[o]
    IN  /\ IsAt(o, "intake")
        /\ \E c \in Candidates :
              IF LockNames(corpus["lock"], me.golden) /\ Admissible(me.golden, c)
              THEN Continue(o, [me EXCEPT !.pc = "stage",
                                    !.golden = [pilot |-> me.golden.pilot,
                                                dev |-> me.golden.dev \cup {c.case}]])
              ELSE Rest(o)
        /\ UNCHANGED <<corpus, opened, backups, corpusEdits, lockedPilots>>

\* _write_private_staged: the staged file must not exist.
OpenStaged(o) ==
    /\ IsAt(o, "stage")
    /\ IF corpus["intake"] = AbsentFile
       THEN /\ corpus' = [corpus EXCEPT !["intake"] = Torn]
            /\ StepTo(o, "fill") /\ Open(o, "intake")
       ELSE UNCHANGED <<corpus, opened>> /\ Rest(o)
    /\ UNCHANGED <<backups, corpusEdits, lockedPilots>>

\* The set is written to the file that was opened, though another admission may
\* have removed or renamed it; or the write fails and the staged name is removed.
FillStaged(o) ==
    /\ IsAt(o, "fill")
    /\ \/ WriteOpened(o, curator[o].golden) /\ StepTo(o, "verify") /\ Close(o)
       \/ /\ corpus' = [corpus EXCEPT !["intake"] = AbsentFile]
          /\ opened' = [OpenedAfter(Curators, "intake", "gone") EXCEPT ![o] = "none"]
          /\ Rest(o)
    /\ UNCHANGED <<backups, corpusEdits, lockedPilots>>

\* The staged set is loaded under the lock of this moment, and has to have the
\* pilot of the set that was loaded first.
VerifyStaged(o) ==
    LET staged == corpus["intake"]
    IN  /\ IsAt(o, "verify")
        /\ StepTo(o, IF /\ Readable(staged) /\ LockNames(corpus["lock"], staged)
                        /\ staged.pilot = curator[o].golden.pilot
                     THEN "replace" ELSE "unlink")
        /\ UNCHANGED <<corpus, opened, backups, corpusEdits, lockedPilots>>

\* staged.replace(golden_path): one rename, refused when the file is gone.
ReplaceGolden(o) ==
    /\ IsAt(o, "replace")
    /\ IF corpus["intake"] = AbsentFile THEN UNCHANGED <<corpus, opened>>
       ELSE /\ corpus' = [corpus EXCEPT !["golden"] = corpus["intake"],
                                       !["intake"] = AbsentFile]
            /\ opened' = OpenedAfter(Curators, "intake", "golden")
    /\ StepTo(o, "unlink")
    /\ UNCHANGED <<backups, corpusEdits, lockedPilots>>

\* staged.unlink(missing_ok=True), on every way out once the file was written;
\* it may be the next admission's file by now.
UnlinkStaged(o) ==
    /\ IsAt(o, "unlink")
    /\ corpus' = [corpus EXCEPT !["intake"] = AbsentFile]
    /\ opened' = OpenedAfter(Curators, "intake", "gone")
    /\ Rest(o)
    /\ UNCHANGED <<backups, corpusEdits, lockedPilots>>

IntakeStep(o) ==
    \/ LoadGolden(o) \/ VerifyLocked(o) \/ OpenStaged(o) \/ FillStaged(o)
    \/ VerifyStaged(o) \/ ReplaceGolden(o) \/ UnlinkStaged(o)

-----------------------------------------------------------------------------
(* Backups.                                                                *)

RecordedInstants == {t \in Instants : snapshots[t] # AbsentFile}
\* latest_snapshot: the newest one, when there is one.
LatestSnapshot == {t \in RecordedInstants : \A u \in RecordedInstants : u <= t}

\* create_backup refuses while a staging entry remains; _collect lists the root.
StartBackup(o) ==
    /\ IsAt(o, "idle")
    /\ \A t \in Instants : staging[t] = AbsentFile
    /\ PresentFiles(corpus) # {}
    /\ Continue(o, [AtRest EXCEPT !.pc = "collect", !.todo = PresentFiles(corpus)])
    /\ UNCHANGED <<corpus, opened, backups, corpusEdits, lockedPilots>>

\* ... and reads one file after the other, whatever it says; a file that is
\* gone by then ends the command.
Collect(o) ==
    LET me == curator[o]
    IN  /\ IsAt(o, "collect")
        /\ \E f \in me.todo :
              IF corpus[f] = AbsentFile THEN Rest(o)
              ELSE Continue(o, [me EXCEPT !.todo = me.todo \ {f},
                                        !.files = [me.files EXCEPT ![f] = corpus[f]]])
        /\ UNCHANGED <<corpus, opened, backups, corpusEdits, lockedPilots>>

\* What was collected is what the latest snapshot's manifest says, or is refused
\* (the manifest is unreadable, the instant not newer, or on record), or is
\* staged in a directory named for its instant.
DecideBackup(o) ==
    LET me == curator[o]
        t == InstantOf[o]
        unchanged == {l \in LatestSnapshot : snapshots[l]["manifest"] = me.files}
    IN  /\ IsAt(o, "collect") /\ me.todo = {}
        /\ \E allowOlder \in BOOLEAN :
              IF \/ unchanged # {}
                 \/ \E l \in LatestSnapshot : \/ snapshots[l]["manifest"] = AbsentFile
                                              \/ t <= l /\ ~ allowOlder
                 \/ t \in RecordedInstants
              THEN Rest(o)
              ELSE Continue(o, [me EXCEPT !.pc = "mkdir", !.todo = PresentFiles(me.files)])
        /\ reported' = reported \cup {[snapshot |-> l, files |-> me.files] : l \in unchanged}
        /\ UNCHANGED <<corpus, opened, staging, snapshots, corpusEdits, lockedPilots>>

\* _write_snapshot: the directory must be new, or the write has failed.
MakeStaging(o) ==
    LET t == InstantOf[o]
    IN  /\ IsAt(o, "mkdir")
        /\ IF staging[t] = AbsentFile
           THEN staging' = [staging EXCEPT ![t] = EmptyDirectory] /\ StepTo(o, "copy")
           ELSE UNCHANGED staging /\ StepTo(o, "clear")
        /\ UNCHANGED <<corpus, opened, snapshots, reported, corpusEdits, lockedPilots>>

\* Write one entry of the staging, or fail and clear it.
WriteEntry(o, f, content, next) ==
    LET t == InstantOf[o]
    IN  \/ /\ staging[t] # AbsentFile /\ staging[t][f] = AbsentFile
           /\ staging' = [staging EXCEPT ![t] = [@ EXCEPT ![f] = content]]
           /\ Continue(o, next)
        \/ UNCHANGED staging /\ StepTo(o, "clear")

\* The files are copied and read back one by one, then the manifest is written.
CopyFile(o) ==
    LET me == curator[o]
    IN  /\ IsAt(o, "copy")
        /\ \/ \E f \in me.todo :
                 WriteEntry(o, f, me.files[f], [me EXCEPT !.todo = me.todo \ {f}])
           \/ /\ me.todo = {}
              /\ WriteEntry(o, "manifest", me.files, [me EXCEPT !.pc = "rename"])
        /\ UNCHANGED <<corpus, opened, snapshots, reported, corpusEdits, lockedPilots>>

\* shutil.rmtree(staging, ignore_errors=True) opens the directory and lists it,
ClearStaging(o) ==
    LET t == InstantOf[o]
    IN  /\ IsAt(o, "clear")
        /\ IF staging[t] = AbsentFile THEN Rest(o) /\ UNCHANGED opened
           ELSE /\ Continue(o, [curator[o] EXCEPT !.pc = "remove",
                      !.todo = {f \in DOMAIN EmptyDirectory : Holds(staging[t], f)}])
                /\ Open(o, "staging")
        /\ UNCHANGED <<corpus, backups, corpusEdits, lockedPilots>>

\* An entry that another process has removed is skipped.
Unlinked(directories, t, f) ==
    IF Holds(directories[t], f) THEN [directories EXCEPT ![t] = [@ EXCEPT ![f] = AbsentFile]]
    ELSE directories

\* ... removes what it listed one by one, wherever the directory is by then,
RemoveEntry(o) ==
    LET me == curator[o]
        t == InstantOf[o]
    IN  /\ IsAt(o, "remove")
        /\ \E f \in me.todo :
              /\ staging' = IF opened[o] = "staging" THEN Unlinked(staging, t, f) ELSE staging
              /\ snapshots' = IF opened[o] = "snapshot" THEN Unlinked(snapshots, t, f)
                              ELSE snapshots
              /\ Continue(o, [me EXCEPT !.todo = me.todo \ {f}])
        /\ UNCHANGED <<corpus, opened, reported, corpusEdits, lockedPilots>>

\* ... and removes the directory of that name, if it is empty.
RemoveStaging(o) ==
    LET t == InstantOf[o]
    IN  /\ IsAt(o, "remove") /\ curator[o].todo = {}
        /\ IF staging[t] = EmptyDirectory
           THEN /\ staging' = [staging EXCEPT ![t] = AbsentFile]
                /\ opened' = [OpenedAfter(CuratorsOf(t), "staging", "gone") EXCEPT ![o] = "none"]
           ELSE UNCHANGED staging /\ Close(o)
        /\ Rest(o)
        /\ UNCHANGED <<corpus, snapshots, reported, corpusEdits, lockedPilots>>

\* Mutant: the directory is recorded before its manifest is written.
MutantRenames(o) == curator[o].pc = "copy"

Renames(o) == IsAt(o, "rename")

\* os.rename: fails when the staging is gone or the snapshot is there; an empty
\* directory in its place is replaced.
RecordSnapshot(o) ==
    LET t == InstantOf[o]
    IN  /\ Renames(o)
        /\ IF staging[t] = AbsentFile \/ snapshots[t] \notin {AbsentFile, EmptyDirectory}
           THEN UNCHANGED <<opened, backups>>
           ELSE /\ snapshots' = [snapshots EXCEPT ![t] = staging[t]]
                /\ staging' = [staging EXCEPT ![t] = AbsentFile]
                /\ reported' = reported \cup {[snapshot |-> t, files |-> curator[o].files]}
                /\ opened' = OpenedAfter(CuratorsOf(t) \ {o}, "staging", "snapshot")
        /\ Rest(o)
        /\ UNCHANGED <<corpus, corpusEdits, lockedPilots>>

\* Somebody removes what an interrupted backup or admission has left, while no
\* process is using it.
CleanUp ==
    /\ \A o \in Curators : IsAt(o, "idle")
    /\ staging' = [t \in Instants |-> AbsentFile]
    /\ corpus' = [corpus EXCEPT !["intake"] = AbsentFile]
    /\ UNCHANGED <<opened, snapshots, reported, curator, corpusEdits, lockedPilots>>

-----------------------------------------------------------------------------
(* Recovery.                                                               *)

\* recover_backup: a snapshot that is whole (verify_backup) is written to an
\* empty destination.
StartRecovery(o) ==
    /\ IsAt(o, "idle")
    /\ PresentFiles(corpus) = {}
    /\ \E t \in RecordedInstants :
          /\ IsWhole(snapshots[t])
          /\ Continue(o, [AtRest EXCEPT !.pc = "create", !.from = t,
                                  !.todo = PresentFiles(snapshots[t]["manifest"])])
    /\ UNCHANGED <<corpus, opened, backups, corpusEdits, lockedPilots>>

\* A file is read from the snapshot and created, which fails when it exists or
\* the snapshot has lost it; it is torn until written.
CreateRestored(o) ==
    LET me == curator[o]
    IN  /\ IsAt(o, "create")
        /\ \E f \in me.todo :
              IF corpus[f] = AbsentFile /\ Holds(snapshots[me.from], f)
              THEN /\ corpus' = [corpus EXCEPT ![f] = Torn]
                   /\ Open(o, f)
                   /\ Continue(o, [me EXCEPT !.pc = "restore", !.writing = f,
                                   !.files = [NoFiles EXCEPT ![f] = snapshots[me.from][f]]])
              ELSE UNCHANGED <<corpus, opened>> /\ Rest(o)
        /\ UNCHANGED <<backups, corpusEdits, lockedPilots>>

\* The verification that follows the last file changes nothing.
WriteRestored(o) ==
    LET me == curator[o]
        todo == me.todo \ {me.writing}
    IN  /\ IsAt(o, "restore")
        /\ WriteOpened(o, me.files[me.writing]) /\ Close(o)
        /\ IF todo = {} THEN Rest(o)
           ELSE Continue(o, [me EXCEPT !.pc = "create", !.todo = todo])
        /\ UNCHANGED <<backups, corpusEdits, lockedPilots>>

BackupStep(o) ==
    \/ StartBackup(o) \/ Collect(o) \/ DecideBackup(o) \/ MakeStaging(o) \/ CopyFile(o)
    \/ ClearStaging(o) \/ RemoveEntry(o) \/ RemoveStaging(o) \/ RecordSnapshot(o)
    \/ StartRecovery(o) \/ CreateRestored(o) \/ WriteRestored(o)

CorpusNext ==
    \/ EditPilot \/ LoseCorpus \/ CleanUp
    \/ \E o \in Curators : LockStep(o) \/ IntakeStep(o) \/ BackupStep(o) \/ CuratorDies(o)

CorpusSpec == CorpusInit /\ [][CorpusNext]_goldenVars

-----------------------------------------------------------------------------
(* Properties.                                                             *)

\* Instants that two processes name: --recorded-at is the operator's word, in
\* whole seconds.
SharedInstants ==
    {t \in Instants : \E o, p \in CuratorsOf(t) : o # p}

\* What create_backup reports as created or unchanged can be recovered: a
\* recorded snapshot is whole, and the snapshot an outcome names holds exactly
\* the bytes that were collected, whatever process died, write failed or other
\* backup ran meanwhile.  The exception are the snapshots of an instant that
\* two processes name: they write, clear and rename one staging directory.
ReportedBackupsAreWhole ==
    /\ \A t \in RecordedInstants \ SharedInstants : IsWhole(snapshots[t])
    /\ \A r \in reported :
          r.snapshot \notin SharedInstants =>
             /\ r.snapshot \in RecordedInstants
             /\ CopiesIn(snapshots[r.snapshot]) = r.files

\* "Record one immutable snapshot, or refuse; never write a partial one."
\* (create_backup): every snapshot on record is whole.
RecordedSnapshotsAreWhole == \A t \in RecordedInstants : IsWhole(snapshots[t])

\* Admission never makes an unlocked pilot the golden one: the set that
\* admit_evaluation_case puts in place, by its rename or by writing a staged
\* file that another admission has renamed already, has a pilot some lock entry
\* was written for, although golden set and lock are read at different moments
\* and the pilot is edited, locked and recovered in between.
AdmittedSetsAreLocked ==
    [][\A o \in Curators :
          /\ curator[o].pc \in {"fill", "replace"} /\ curator'[o].pc # curator[o].pc
          /\ corpus'["golden"] # corpus["golden"] /\ Readable(corpus'["golden"])
          => corpus'["golden"].pilot \in lockedPilots]_goldenVars
=============================================================================
