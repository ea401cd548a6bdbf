------------------------------ MODULE FileScan ------------------------------
(***************************************************************************)
(* The bounded scan cycle of one File Source: applications/file_scan.py    *)
(* observes the root, proposes the observation as pages of one change,     *)
(* has each page accepted (a durable acquisition checkpoint), schedules    *)
(* the imports of new or changed files, and goes on from the accepted      *)
(* cursor.  Scanners are operator processes: several may run, each may     *)
(* stop between any two of its calls, and files change at any time.  Each  *)
(* Control call is one transaction under the progress lock of the Source,  *)
(* hence one action.                                                       *)
(*                                                                         *)
(* References are modelled by what they are hashes of.  A scan (scan_ref)  *)
(* is its set of changes and the baseline it was compared with; a scan     *)
(* epoch is the scan and the durable head it was proposed after; a page    *)
(* (page_ref) is an epoch and an offset.  The accepted pages form a log,   *)
(* and a position in it stands for checkpoint_ref and sequence.            *)
(***************************************************************************)
EXTENDS Integers, Sequences, FiniteSets

CONSTANTS
    Paths,           \* relative Markdown paths: integers, in canonical order
    Contents,        \* content identities: SHA-256 and length
    Absent,          \* no regular file at the path
    Scanners,        \* scan processes
    ScanBound,       \* FileReadLimits.max_baseline_entries
    EditBound,       \* bound: number of edits of the root
    PageBound        \* bound: number of accepted pages

ASSUME ScanConstantsAssumption ==
    /\ Paths \subseteq Nat /\ IsFiniteSet(Paths)
    /\ Absent \notin Contents
    /\ ScanBound \in Nat /\ EditBound \in Nat /\ PageBound \in Nat

VARIABLES
    disk,            \* the files under the anchored root
    edits,           \* edits made so far
    pages,           \* file_source_change_page rows, in checkpoint order
    scheduled,       \* pages with a file_acquisition and its job
    ended,           \* pages whose job has ended
    imported,        \* the content of each Resource that is active
    tombstoned,      \* Resources withdrawn by an executed delete
    refused,         \* context_source.file_scan_refusal_category is set
    scanner          \* the local state of each scan process

root == <<disk, edits>>
jobs == <<ended, imported, tombstoned>>
vars == <<disk, edits, pages, scheduled, ended, imported, tombstoned, refused,
          scanner>>

Changes == [kind : {"upsert", "delete"}, path : Paths, content : Contents]

Idle == [pc |-> "idle", head |-> 0, base |-> 0, todo |-> {}, done |-> {},
         cursor |-> 0, epoch |-> <<>>, offset |-> 0, at |-> 0]

Init ==
    /\ disk \in [Paths -> Contents \cup {Absent}]
    /\ edits = 0
    /\ pages = <<>>
    /\ scheduled = {}
    /\ ended = {}
    /\ imported = [p \in Paths |-> Absent]
    /\ tombstoned = {}
    /\ refused = FALSE
    /\ scanner = [s \in Scanners |-> Idle]

-----------------------------------------------------------------------------
(* The durable log of accepted pages.                                      *)

Upserts(changes) == {c \in changes : c.kind = "upsert"}
Deletes(changes) == {c \in changes : c.kind = "delete"}

\* The page of a scan at an offset: FILE_SCAN_PAGE_LIMIT is 1, and changes are
\* in the order of their paths.
Selected(changes, offset) ==
    {c \in changes : Cardinality({d \in changes : d.path < c.path}) = offset}

EndsScan(changes, offset) == offset + 1 >= Cardinality(changes)

ScanHead == Len(pages)
ScanHeadEpoch == pages[ScanHead].epoch

PagesOf(epoch) == {i \in 1 .. Len(pages) : pages[i].epoch = epoch}

CompletePages == {i \in 1 .. Len(pages) : pages[i].complete}

LatestComplete ==
    IF CompletePages = {} THEN 0
    ELSE CHOOSE i \in CompletePages : \A j \in CompletePages : j <= i

\* The entries of the baseline that ends at position b: every change on an
\* accepted page of that scan epoch.
Entries(b) ==
    IF b = 0 THEN {}
    ELSE UNION {pages[i].changes : i \in PagesOf(pages[b].epoch)}

\* The upserts of a page that its baseline does not hold unchanged.
NovelAgainst(b, changes) == Upserts(changes) \ Entries(b)

\* Mutant: compares with the latest complete scan, not with the page's baseline.
MutantPendingSchedules ==
    {i \in 1 .. Len(pages) :
        /\ pages[i].epoch = ScanHeadEpoch
        /\ NovelAgainst(LatestComplete, pages[i].changes) # {}
        /\ i \notin scheduled}

PendingSchedules ==
    {i \in 1 .. Len(pages) :
        /\ pages[i].epoch = ScanHeadEpoch
        /\ NovelAgainst(pages[i].epoch.scan.base, pages[i].changes) # {}
        /\ i \notin scheduled}

-----------------------------------------------------------------------------
(* The provider: one stable observation of the root.                       *)

Observed == {[kind |-> "upsert", path |-> p, content |-> disk[p]] :
                p \in {q \in Paths : disk[q] # Absent}}

\* Mutant: proposes the observed files and forgets the missing ones.
MutantScanOf(head, base) == [changes |-> Observed, base |-> base]

\* FileChangeProvider._changes.  When nothing changed since the complete
\* baseline its own entries are proposed again: against the baseline they were
\* compared with if they are the durable head, against themselves otherwise.
ScanOf(head, base) ==
    LET entries == Entries(base)
    IN  IF base # 0 /\ Observed = Upserts(entries)
        THEN [changes |-> entries,
              base |-> IF head = base THEN pages[base].epoch.scan.base ELSE base]
        ELSE [changes |-> Observed \cup
                {[c EXCEPT !.kind = "delete"] : c \in
                    {d \in Upserts(entries) : disk[d.path] = Absent}},
              base |-> base]

\* FileChangeProvider._scan_epoch: the head's epoch when the head carries the
\* same scan, else a new epoch derived from the scan and the head.
EpochOf(head, scan) ==
    IF head # 0 /\ pages[head].epoch.scan = scan
    THEN pages[head].epoch
    ELSE [after |-> head, scan |-> scan]

-----------------------------------------------------------------------------
(* The scan process.                                                       *)

At(s, pc) == scanner[s].pc = pc

Set(s, local) == scanner' = [scanner EXCEPT ![s] = local]

\* The cycle ends: a refusal, an error or its report.
Stop(s) == Set(s, Idle)

\* Environment: somebody writes, creates or removes one file.
Edit ==
    /\ edits < EditBound
    /\ \E p \in Paths, c \in Contents \cup {Absent} :
          /\ c # disk[p]
          /\ disk' = [disk EXCEPT ![p] = c]
    /\ edits' = edits + 1
    /\ UNCHANGED <<pages, scheduled, jobs, refused, scanner>>

\* The process dies, or loses its database, between two transactions.
Crash(s) ==
    /\ scanner[s].pc \notin {"idle", "down"}
    /\ Set(s, [Idle EXCEPT !.pc = "down"])
    /\ UNCHANGED <<root, pages, scheduled, jobs, refused>>

\* Manifest and progress: head, complete baseline and pending schedules come
\* from one statement, hence one snapshot.
StartScan(s) ==
    /\ scanner[s].pc \in {"idle", "down"}
    /\ Set(s, [Idle EXCEPT !.pc = "reconcile", !.head = ScanHead,
                           !.base = LatestComplete, !.todo = PendingSchedules])
    /\ UNCHANGED <<root, pages, scheduled, jobs, refused>>

\* context_control_schedule_file_change_page: an upsert page, scheduled before
\* (a replay) or of the scan that is still the durable head.
Schedulable(i) ==
    /\ Upserts(pages[i].changes) # {}
    /\ i \in scheduled \/ pages[i].epoch = ScanHeadEpoch

\* Schedule page i, then go to the identity check of its file.
SchedulePage(s, i, next) ==
    IF Schedulable(i)
    THEN scheduled' = scheduled \cup {i} /\ Set(s, next)
    ELSE UNCHANGED scheduled /\ Stop(s)

\* The pending pages of the current scan are scheduled before anything else.
Reconcile(s) ==
    /\ At(s, "reconcile")
    /\ \E i \in scanner[s].todo :
          SchedulePage(s, i, [scanner[s] EXCEPT !.pc = "recheck", !.at = i,
                                !.todo = scanner[s].todo \ {i},
                                !.done = scanner[s].done \cup {i}])
    /\ UNCHANGED <<root, pages, jobs, refused>>

Reconciled(s) ==
    /\ At(s, "reconcile")
    /\ scanner[s].todo = {}
    /\ Set(s, [scanner[s] EXCEPT !.pc = "propose"])
    /\ UNCHANGED <<root, pages, scheduled, jobs, refused>>

\* read_changes.  The first page of a cycle may exceed the bound, or repeat the
\* complete scan that is the head; a later page must belong to the accepted
\* scan, or the cursor is invalid and the cycle ends.
Propose(s) ==
    LET me == scanner[s]
        scan == ScanOf(me.head, me.base)
        epoch == EpochOf(me.head, scan)
        proposal == [me EXCEPT !.pc = "accept", !.epoch = epoch]
    IN  /\ At(s, "propose")
        /\ Set(s,
             IF Cardinality(scan.changes) > ScanBound
             THEN [me EXCEPT !.pc = "report"]
             ELSE IF me.cursor # 0
             THEN IF pages[me.cursor].epoch = epoch
                  THEN [proposal EXCEPT !.offset = pages[me.cursor].offset + 1]
                  ELSE Idle
             ELSE IF me.base # 0 /\ me.base = me.head /\ epoch = pages[me.base].epoch
             THEN [me EXCEPT !.pc = "clear"]
             ELSE [proposal EXCEPT !.offset = 0])
        /\ UNCHANGED <<root, pages, scheduled, jobs, refused>>

\* Mutant: the command ends without reporting the refusal.
MutantReportBoundRefusal(s) ==
    /\ At(s, "report")
    /\ Stop(s)
    /\ UNCHANGED <<root, pages, scheduled, jobs, refused>>

\* context_control_report_file_scan_bound_refusal
ReportBoundRefusal(s) ==
    /\ At(s, "report")
    /\ refused' = TRUE
    /\ Stop(s)
    /\ UNCHANGED <<root, pages, scheduled, jobs>>

\* context_control_clear_file_scan_bound_refusal, and the unchanged report.
ClearBoundRefusal(s) ==
    /\ At(s, "clear")
    /\ refused' = FALSE
    /\ Stop(s)
    /\ UNCHANGED <<root, pages, scheduled, jobs>>

-----------------------------------------------------------------------------
(* Acceptance of a proposed page.                                          *)

\* The page's baseline is complete, and holds each deleted file as an upsert.
ObservesBaseline(base, changes) ==
    /\ base # 0 => pages[base].complete
    /\ \A c \in Deletes(changes) : [c EXCEPT !.kind = "upsert"] \in Entries(base)

\* A first page is compared with the latest complete scan and supersedes the
\* epoch of the durable head; its own epoch has no page yet.
Opens(epoch) ==
    /\ epoch.scan.base = LatestComplete
    /\ IF ScanHead = 0 THEN epoch.after = 0
       ELSE epoch.after # 0 /\ pages[epoch.after].epoch = ScanHeadEpoch
    /\ PagesOf(epoch) = {}

\* Mutant: a later page need not follow the durable head.
MutantContinues(epoch, cursor) == PagesOf(epoch) \cap CompletePages = {}

\* A later page follows the durable head, which is in the same unfinished scan.
Continues(epoch, cursor) ==
    /\ cursor = ScanHead
    /\ ScanHeadEpoch = epoch
    /\ PagesOf(epoch) \cap CompletePages = {}

AcceptedAs(epoch, offset) ==
    {i \in 1 .. Len(pages) : pages[i].epoch = epoch /\ pages[i].offset = offset}

\* After acceptance at position i: schedule a novel upsert that was not
\* reconciled in this cycle, else go on to the next page.
Advance(me, i, complete) ==
    IF complete THEN Idle
    ELSE [me EXCEPT !.pc = "propose", !.cursor = i, !.head = i]

AfterAccept(me, i, changes, complete) ==
    IF NovelAgainst(me.base, changes) # {} /\ i \notin me.done
    THEN [me EXCEPT !.pc = "schedule", !.at = i]
    ELSE Advance(me, i, complete)

\* context_control_accept_file_delete_change_page
Acceptable(me) ==
    /\ ObservesBaseline(me.epoch.scan.base, Selected(me.epoch.scan.changes, me.offset))
    /\ \/ AcceptedAs(me.epoch, me.offset) # {}
       \/ IF me.cursor = 0 THEN Opens(me.epoch)
          ELSE Continues(me.epoch, me.cursor)

\* An accepted page is answered again; a new one is appended with its
\* checkpoint, and the last page of a scan clears the refusal of the Source.
Accept(s) ==
    LET me == scanner[s]
        changes == Selected(me.epoch.scan.changes, me.offset)
        complete == EndsScan(me.epoch.scan.changes, me.offset)
        earlier == AcceptedAs(me.epoch, me.offset)
    IN  /\ At(s, "accept")
        /\ Acceptable(me)
        /\ \/ /\ \E i \in earlier : Set(s, AfterAccept(me, i, changes, complete))
              /\ UNCHANGED <<pages, refused>>
           \/ /\ earlier = {}
              /\ ScanHead < PageBound
              /\ pages' = Append(pages, [epoch |-> me.epoch, offset |-> me.offset,
                                         changes |-> changes, complete |-> complete])
              /\ refused' = (refused /\ ~ complete)
              /\ Set(s, AfterAccept(me, ScanHead + 1, changes, complete))
        /\ UNCHANGED <<root, scheduled, jobs>>

AcceptRefused(s) ==
    /\ At(s, "accept")
    /\ ~ Acceptable(scanner[s])
    /\ Stop(s)
    /\ UNCHANGED <<root, pages, scheduled, jobs, refused>>

\* The accepted page's upsert is scheduled, then its file is read again.
Schedule(s) ==
    /\ At(s, "schedule")
    /\ SchedulePage(s, scanner[s].at, [scanner[s] EXCEPT !.pc = "check"])
    /\ UNCHANGED <<root, pages, jobs, refused>>

\* _verify_accepted_content_identity: drift ends the cycle.
SameContent(i) == \A c \in Upserts(pages[i].changes) : disk[c.path] = c.content

Check(s) ==
    LET me == scanner[s]
    IN  /\ \/ /\ At(s, "check")
              /\ Set(s, IF SameContent(me.at)
                        THEN Advance(me, me.at, pages[me.at].complete) ELSE Idle)
           \/ /\ At(s, "recheck")
              /\ Set(s, IF SameContent(me.at)
                        THEN [me EXCEPT !.pc = "reconcile"] ELSE Idle)
        /\ UNCHANGED <<root, pages, scheduled, jobs, refused>>

-----------------------------------------------------------------------------
(* What happens to accepted changes afterwards.                            *)

\* One File import job, from claim to its end (module FilePublication): it
\* publishes only for the scan that is the durable head, only the accepted
\* bytes, and never to a withdrawn Resource.  Otherwise it fails.
RunJob(i) ==
    /\ i \in scheduled \ ended
    /\ ended' = ended \cup {i}
    /\ imported' =
         IF /\ pages[i].epoch = ScanHeadEpoch
            /\ SameContent(i)
         THEN [p \in Paths |->
                 IF \E c \in Upserts(pages[i].changes) :
                        c.path = p /\ p \notin tombstoned
                 THEN disk[p] ELSE imported[p]]
         ELSE imported
    /\ UNCHANGED <<root, pages, scheduled, tombstoned, refused, scanner>>

\* Mutant: executes a delete of any complete scan.
MutantExecutable(i) ==
    /\ pages[ScanHead].complete
    /\ pages[i].epoch.scan.base # 0
    /\ pages[pages[i].epoch.scan.base].complete

\* context_control_execute_file_delete_observation: the delete belongs to the
\* complete scan that is the durable head, and its Resource is active.
Executable(i) ==
    /\ pages[ScanHead].complete
    /\ pages[i].epoch = ScanHeadEpoch
    /\ pages[i].epoch.scan.base # 0
    /\ pages[pages[i].epoch.scan.base].complete

ExecuteDelete(i) ==
    /\ Executable(i)
    /\ \E c \in Deletes(pages[i].changes) :
          /\ imported[c.path] # Absent
          /\ imported' = [imported EXCEPT ![c.path] = Absent]
          /\ tombstoned' = tombstoned \cup {c.path}
    /\ UNCHANGED <<root, pages, scheduled, ended, refused, scanner>>

ScanStep(s) ==
    \/ StartScan(s) \/ Reconcile(s) \/ Reconciled(s) \/ Propose(s)
    \/ ReportBoundRefusal(s) \/ ClearBoundRefusal(s)
    \/ Accept(s) \/ AcceptRefused(s) \/ Schedule(s) \/ Check(s)

ScanNext ==
    \/ Edit
    \/ \E s \in Scanners : ScanStep(s) \/ Crash(s)

Next ==
    \/ ScanNext
    \/ \E i \in 1 .. Len(pages) : RunJob(i) \/ ExecuteDelete(i)

Spec == Init /\ [][Next]_vars

\* An operator runs the command again and again, and it does not hang.  Jobs and
\* executed deletes change nothing a scan reads, so they are left out.
ScanFairness == \A s \in Scanners : WF_vars(ScanStep(s))
FairScanSpec == Init /\ [][ScanNext]_vars /\ ScanFairness

-----------------------------------------------------------------------------
(* Properties.                                                             *)

\* The accepted pages are whole scans one after the other: a page either opens
\* a scan at offset 0 or directly follows the page before it in the same scan,
\* which was not the last; a scan is never taken up again once another began.
ScansAreContiguous ==
    \A i \in 1 .. Len(pages) :
        IF pages[i].offset = 0
        THEN \A j \in 1 .. i - 1 : pages[j].epoch # pages[i].epoch
        ELSE /\ i > 1
             /\ pages[i - 1].epoch = pages[i].epoch
             /\ pages[i - 1].offset = pages[i].offset - 1
             /\ ~ pages[i - 1].complete

\* A complete scan lost nothing: its pages carry every change it was proposed
\* with, and each file of its baseline is in it again, unchanged, changed or
\* as a delete of exactly the content the baseline had.
CompleteScansLoseNothing ==
    \A i \in CompletePages :
        LET entries == Entries(i)
            base == Entries(pages[i].epoch.scan.base)
        IN  /\ entries = pages[i].epoch.scan.changes
            /\ \A c \in Upserts(base) :
                  \/ \E d \in Upserts(entries) : d.path = c.path
                  \/ [c EXCEPT !.kind = "delete"] \in entries

\* Whatever crashes, second scanners and edits of the files interleave, what
\* context_control_accept_file_delete_change_page has accepted is a sequence
\* of scans in one piece, and a scan that was completed lost nothing.
AcceptedScansAreWhole == ScansAreContiguous /\ CompleteScansLoseNothing

\* Page j opened the scan that took the place of page i's before that one was
\* complete: page i was accepted after the cycle of page j had read the
\* progress of the Source, and page j's scan is of the same baseline.
Overtakes(j, i) ==
    /\ pages[j - 1].epoch = pages[i].epoch /\ pages[j].epoch # pages[i].epoch
    /\ pages[j].epoch.after < i
    /\ pages[j].epoch.scan.base = pages[i].epoch.scan.base

\* A crash or a second process between acceptance and scheduling loses no
\* import: a new or changed file on an accepted page has its job, unless its
\* scan is still the durable head and the next cycle will find it pending, or
\* the scan was overtaken, and then by one of the same baseline, for which
\* whatever is left of the change is new once more
\* (context_control_read_pending_file_change_schedules, scan_file_source).
SupersededScansAreScheduled ==
    \A i \in 1 .. Len(pages) :
        \/ pages[i].epoch = ScanHeadEpoch
        \/ NovelAgainst(pages[i].epoch.scan.base, pages[i].changes) = {}
        \/ i \in scheduled
        \/ \E j \in i + 1 .. Len(pages) : Overtakes(j, i)

\* A path is withdrawn only while the latest accepted scan is complete and does
\* not contain the file: an old delete is not executed after the file is back.
WithdrawnPathsAreGone ==
    [][\A p \in tombstoned' \ tombstoned :
          /\ pages[ScanHead].complete
          /\ \A c \in Upserts(Entries(ScanHead)) : c.path # p]_vars

UpToDate ==
    /\ ScanHead # 0
    /\ pages[ScanHead].complete
    /\ Upserts(Entries(ScanHead)) = Observed
    /\ PendingSchedules = {}
    /\ ~ refused

OverBound ==
    /\ Cardinality(ScanOf(ScanHead, LatestComplete).changes) > ScanBound
    /\ refused

\* An unfinished scan is the head, the root is back at a complete scan that
\* observed deletes, and those deletes are proposed again against that scan.
RepeatsDeletes ==
    /\ LatestComplete # ScanHead
    /\ Observed = Upserts(Entries(LatestComplete))
    /\ Deletes(Entries(LatestComplete)) # {}

\* Once files and processes are left alone, scanning settles: the head is a
\* complete scan of what is on disk with every import scheduled and no stale
\* refusal, or the refusal of a root above the bound is on record.  The third
\* outcome is the one the scan_repeat run is about.
ScanningSettles ==
    (<>[][\A s \in Scanners : ~ Crash(s)]_vars)
        => <>[](UpToDate \/ OverBound \/ RepeatsDeletes)

\* A page proposed against the durable head is accepted.  In particular, when a
\* newer unfinished scan is the head and the files are those of the latest
\* complete scan, a scan bound to that scan supersedes the unfinished one.
CurrentProposalsAreAccepted ==
    \A s \in Scanners :
        At(s, "accept") /\ scanner[s].head = ScanHead => Acceptable(scanner[s])

=============================================================================
