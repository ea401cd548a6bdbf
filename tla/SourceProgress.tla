--------------------------- MODULE SourceProgress ---------------------------
(***************************************************************************)
(* File Sources under Control: one-use trusted calls, registration,        *)
(* capability activation, imports, scans and offboarding, and the progress *)
(* an operator reads of them.  A checkpoint is appended for everything a   *)
(* Source accepts, a watermark for every outcome that Runtime can see; the *)
(* publish watermark a read reports is the last one with no unfinished     *)
(* change before it.                                                       *)
(*                                                                         *)
(* The pages of a scan, one path each, are one checkpoint here: the scan is *)
(* complete, or left incomplete and superseded by the next one.  FileScan  *)
(* models its pages and FilePublication the steps of a job.                *)
(***************************************************************************)
EXTENDS Integers, FiniteSets, Sequences, Functions

CONSTANTS
    Keys,                \* registration idempotency keys, one Source each
    Requests,            \* registration digests (name and root)
    ControlCallers,      \* operator commands in flight
    ImportKeys,          \* idempotency keys of direct imports
    Paths, Contents,     \* what lies under a root
    ScanBounds,          \* configured scan bounds
    ControlTtl,          \* lifetime of a trusted call
    ControlClockBound, SequenceBound

ASSUME ProgressAssumption ==
    /\ ControlTtl \in Nat \ {0}
    /\ ControlClockBound \in Nat
    /\ SequenceBound \in Nat \ {0}
    /\ ScanBounds \subseteq Nat \ {0}
    /\ IsFiniteSet(Paths)
    /\ "none" \notin Requests \cup ImportKeys \cup Paths

VARIABLES
    controlCall,  \* [ControlCallers -> trusted call]
    sources,      \* [Keys -> context_source row]
    log,          \* [Keys -> checkpoints, in sequence order]
    jobOf,        \* [Keys -> the job of each checkpoint]
    mark,         \* [Keys -> the publish watermark of each checkpoint]
    served,       \* [Keys -> [Paths -> context_resource row]]
    reading,      \* [ControlCallers -> the half of a progress read done]
    report,       \* [ControlCallers -> the answer of this call]
    sweep,        \* [ControlCallers -> its source-wide scan]
    controlClock

progressVars == <<controlCall, sources, log, jobOf, mark, served, reading,
                  report, sweep, controlClock>>
sourceTables == <<sources, log, jobOf, mark, served>>

Missing == "none"
MaxOf(S) == IF S = {} THEN 0 ELSE CHOOSE n \in S : \A m \in S : m <= n

-----------------------------------------------------------------------------
(* Trusted calls.                                                           *)

ControlOperations ==
    {"register", "import", "activate", "accept", "schedule", "tombstone",
     "offboard", "progress"}

NoSweep == [state |-> "idle", todo |-> {}]
NoCall == [operation |-> Missing, state |-> "closed", issued |-> 0, expires |-> 0]

\* One call is opened per operation, for as long as its context is open.
AuthorizeControlCall(c, operation) ==
    /\ controlCall[c].state = "closed"
    /\ sweep[c] = NoSweep
    /\ controlCall' = [controlCall EXCEPT ![c] =
          [operation |-> operation, state |-> "active",
           issued |-> controlClock, expires |-> controlClock + ControlTtl]]
    /\ UNCHANGED <<sourceTables, reading, report, sweep, controlClock>>

\* The operation claims the call before it touches the store.
Consumes(c, operation) ==
    /\ controlCall[c].state = "active"
    /\ controlCall[c].operation = operation
    /\ controlCall[c].issued <= controlClock
    /\ controlClock < controlCall[c].expires
    /\ controlCall' = [controlCall EXCEPT ![c].state = "consumed"]

CloseCall(c) ==
    /\ controlCall[c].state # "closed"
    /\ reading[c] = <<>>
    /\ controlCall' = [controlCall EXCEPT ![c] = NoCall]
    /\ report' = [report EXCEPT ![c] = <<>>]
    /\ UNCHANGED <<sourceTables, reading, sweep, controlClock>>

-----------------------------------------------------------------------------
(* Sources and their versions.                                              *)

NoSource == [request |-> Missing, lifecycle |-> "absent", version |-> 0,
             refusedBound |-> 0, intent |-> Missing]

\* What the declarations v1 to v4 make available.
Capabilities ==
    << {}, {"ingestionJobs"}, {"ingestionJobs", "readChanges"},
       {"ingestionJobs", "readChanges", "deleteObservations"} >>

SourceIsValid(row) ==
    /\ row.lifecycle = "absent" <=> row.request = Missing
    /\ row.lifecycle = "disabled" <=> row.intent # Missing
    /\ row.version \in IF row.lifecycle = "absent" THEN {0} ELSE DOMAIN Capabilities

IsActive(k) == sources[k].lifecycle = "active"
Has(k, capability) == capability \in Capabilities[sources[k].version]

\* A replay of the same request answers the Source it made; another request
\* under the same key is refused and changes nothing.
Registered(row, request) ==
    IF row.request = Missing
    THEN [row EXCEPT !.request = request, !.lifecycle = "active", !.version = 1]
    ELSE row

RegisterFileSource(c, k, request) ==
    /\ Consumes(c, "register")
    /\ sources' = [sources EXCEPT ![k] = Registered(@, request)]
    /\ UNCHANGED <<log, jobOf, mark, served, reading, report, sweep, controlClock>>

\* An activation moves exactly from the declarations before it, under the
\* Source's row lock; repeated, it answers the version it made.
Activated(row, before, version) ==
    IF row.version \in before THEN [row EXCEPT !.version = version] ELSE row

ActivateChangeFeed(c, k) ==
    /\ Consumes(c, "activate")
    /\ IsActive(k)
    /\ sources' = [sources EXCEPT ![k] = Activated(@, {1, 2}, 3)]
    /\ UNCHANGED <<log, jobOf, mark, served, reading, report, sweep, controlClock>>

ActivateDeleteObservations(c, k) ==
    /\ Consumes(c, "activate")
    /\ IsActive(k)
    /\ sources' = [sources EXCEPT ![k] = Activated(@, {3}, 4)]
    /\ UNCHANGED <<log, jobOf, mark, served, reading, report, sweep, controlClock>>

-----------------------------------------------------------------------------
(* The two ledgers.                                                         *)

NothingObserved == [p \in Paths |-> Missing]
NoMark == [outcome |-> Missing, at |-> 0]
NoJob == [state |-> Missing, category |-> Missing]
OpenJob == [state |-> "open", category |-> Missing]
UnservedResource == [revision |-> 0, content |-> Missing, tombstoned |-> FALSE]

ImportCheckpoint(k, p, content, key, page) ==
    [kind |-> "file_import", version |-> sources[k].version, path |-> p,
     content |-> content, key |-> key, page |-> page, complete |-> FALSE, bound |-> 0,
     observed |-> NothingObserved]

PageCheckpoint(k, observed, complete, bound) ==
    [kind |-> "file_change_page", version |-> sources[k].version,
     path |-> Missing, content |-> Missing, key |-> Missing, page |-> 0, complete |-> complete,
     bound |-> bound, observed |-> observed]

TombstoneCheckpoint(k, p) ==
    [kind |-> "file_tombstone", version |-> sources[k].version, path |-> p,
     content |-> Missing, key |-> Missing, page |-> 0, complete |-> FALSE, bound |-> 0,
     observed |-> NothingObserved]

CheckpointIsValid(row) ==
    /\ row.kind = "file_change_page" <=> row.path = Missing
    /\ row.kind = "file_import" <=> (row.key # Missing \/ row.page # 0)
    /\ row.kind # "file_change_page" =>
          row.observed = NothingObserved /\ ~row.complete

MarkIsValid(row, checkpoint) ==
    CASE row.outcome \in {"published", "replaced", "unchanged"} ->
            checkpoint.kind = "file_import"
      [] row.outcome = "tombstoned" -> checkpoint.kind = "file_tombstone"
      [] OTHER -> row = NoMark

\* The next sequence, under the Source's progress lock.
AppendCheckpoint(k, row, job, outcome) ==
    /\ Len(log[k]) < SequenceBound
    /\ log' = [log EXCEPT ![k] = Append(@, row)]
    /\ jobOf' = [jobOf EXCEPT ![k] = Append(@, job)]
    /\ mark' = [mark EXCEPT ![k] = Append(@, outcome)]

\* The watermark of an accepted checkpoint is written once.
AppendMark(k, n, outcome) ==
    IF mark[k][n] = NoMark
    THEN [mark EXCEPT ![k][n] = [outcome |-> outcome, at |-> controlClock]]
    ELSE mark

\* Direct imports are for a Source whose change feed is not activated.
DirectImportAllowed(k) == IsActive(k) /\ sources[k].version \in {1, 2}

\* v1 becomes v2 with the first direct import.  A replay of its key answers
\* the job it made; the key of another import is refused.
PreparesImport(k, key, p) ==
    \/ /\ \A n \in DOMAIN log[k] : log[k][n].key # key
       /\ AppendCheckpoint(k, [ImportCheckpoint(k, p, Missing, key, 0)
                                  EXCEPT !.version = 2], OpenJob, NoMark)
       /\ sources' = [sources EXCEPT ![k].version = 2]
    \/ /\ \E n \in DOMAIN log[k] : log[k][n].key = key /\ log[k][n].path = p
       /\ UNCHANGED <<sources, log, jobOf, mark>>

PrepareFileImport(c, k, key, p) ==
    /\ Consumes(c, "import")
    /\ DirectImportAllowed(k)
    /\ PreparesImport(k, key, p)
    /\ UNCHANGED <<served, reading, report, sweep, controlClock>>

PagesOf(k) == {n \in DOMAIN log[k] : log[k][n].kind = "file_change_page"}
PagesOfVersion(k) == {n \in PagesOf(k) : log[k][n].version = sources[k].version}
CompletePages(k) == {n \in PagesOfVersion(k) : log[k][n].complete}

Observations == [Paths -> Contents \cup {Missing}]
ObservedPaths(observed) == {p \in Paths : observed[p] # Missing}

\* A page of the active version, within the bound it was scanned under.  The
\* page that completes a scan withdraws the Source's scan refusal.
AcceptFileChangePage(c, k, observed, complete, bound) ==
    /\ Consumes(c, "accept")
    /\ IsActive(k)
    /\ Has(k, "readChanges")
    /\ Cardinality(ObservedPaths(observed)) <= bound
    /\ AppendCheckpoint(k, PageCheckpoint(k, observed, complete, bound), NoJob, NoMark)
    /\ sources' = IF complete /\ Has(k, "deleteObservations")
                 THEN [sources EXCEPT ![k].refusedBound = 0] ELSE sources
    /\ UNCHANGED <<served, reading, report, sweep, controlClock>>

\* The scan found more than its bound and stops before any page.
ReportScanBoundRefusal(c, k, bound) ==
    /\ Consumes(c, "accept")
    /\ IsActive(k)
    /\ sources' = [sources EXCEPT ![k].refusedBound = bound]
    /\ UNCHANGED <<log, jobOf, mark, served, reading, report, sweep, controlClock>>

\* The scan found exactly the complete baseline again.
ClearScanBoundRefusal(c, k) ==
    /\ Consumes(c, "accept")
    /\ IsActive(k)
    /\ CompletePages(k) # {}
    /\ sources' = [sources EXCEPT ![k].refusedBound = 0]
    /\ UNCHANGED <<log, jobOf, mark, served, reading, report, sweep, controlClock>>

\* The page of one observed path of the newest scan becomes a job, once.
ScheduleFileChangePage(c, k, p) ==
    LET head == MaxOf(PagesOf(k))
    IN  /\ Consumes(c, "schedule")
        /\ IsActive(k)
        /\ head \in PagesOfVersion(k)
        /\ log[k][head].observed[p] # Missing
        /\ \A n \in DOMAIN log[k] : ~(log[k][n].page = head /\ log[k][n].path = p)
        /\ AppendCheckpoint(k,
              ImportCheckpoint(k, p, log[k][head].observed[p], Missing, head), OpenJob, NoMark)
        /\ UNCHANGED <<sources, served, reading, report, sweep, controlClock>>

-----------------------------------------------------------------------------
(* The worker.                                                              *)

\* A scheduled job is current while its page is of the newest scan.
IsCurrent(k, n) ==
    log[k][n].page \in {0, MaxOf(PagesOf(k))}

\* The job reads content (the observed one, if it was scheduled).
Runs(k, n, content) ==
    /\ IsActive(k)
    /\ jobOf[k][n].state = "open"
    /\ IsCurrent(k, n)
    /\ log[k][n].content \in {Missing, content}
    /\ ~served[k][log[k][n].path].tombstoned

PublishActiveRevision(k, n, content) ==
    LET p == log[k][n].path
        outcome == IF served[k][p].revision = 0 THEN "published" ELSE "replaced"
    IN  /\ Runs(k, n, content)
        /\ served[k][p].content # content
        /\ served' = [served EXCEPT ![k][p] =
              [revision |-> n, content |-> content, tombstoned |-> FALSE]]
        /\ jobOf' = [jobOf EXCEPT ![k][n].state = "completed"]
        /\ mark' = AppendMark(k, n, outcome)
        /\ UNCHANGED <<controlCall, sources, log, reading, report, sweep, controlClock>>

PublishUnchanged(k, n) ==
    /\ Runs(k, n, served[k][log[k][n].path].content)
    /\ served[k][log[k][n].path].revision # 0
    /\ jobOf' = [jobOf EXCEPT ![k][n].state = "completed"]
    /\ mark' = AppendMark(k, n, "unchanged")
    /\ UNCHANGED <<controlCall, sources, log, served, reading, report, sweep, controlClock>>

Categories == {"invalid_utf8", "unsupported_construct", "unsupported_document_shape"}

\* A compilation refusal keeps its closed category; any other failure none.
FailImport(k, n, category) ==
    /\ IsActive(k)
    /\ jobOf[k][n].state = "open"
    /\ jobOf' = [jobOf EXCEPT ![k][n] = [state |-> "failed", category |-> category]]
    /\ UNCHANGED <<controlCall, sources, log, mark, served, reading, report,
                   sweep, controlClock>>

-----------------------------------------------------------------------------
(* Taking content away.                                                     *)

\* Checkpoint and watermark of a tombstone are one transaction.
TombstoneFileResource(c, k, p) ==
    /\ Consumes(c, "tombstone")
    /\ sources[k].lifecycle # "absent"
    /\ served[k][p].revision # 0
    /\ ~served[k][p].tombstoned
    /\ AppendCheckpoint(k, TombstoneCheckpoint(k, p), NoJob,
          [outcome |-> "tombstoned", at |-> controlClock])
    /\ served' = [served EXCEPT ![k][p].tombstoned = TRUE]
    /\ UNCHANGED <<sources, reading, report, sweep, controlClock>>

Cancelled(job) == IF job.state = "open" THEN [job EXCEPT !.state = "cancelled"] ELSE job

\* Offboarding disables the Source, records one cleanup intent and cancels
\* every open job; a replay answers the intent.
Offboards(k) ==
    IF IsActive(k)
    THEN /\ sources' = [sources EXCEPT ![k].lifecycle = "disabled",
                                     ![k].intent = "recorded"]
         /\ jobOf' = [jobOf EXCEPT ![k] = [n \in DOMAIN @ |-> Cancelled(@[n])]]
    ELSE UNCHANGED <<sources, jobOf>>

OffboardSource(c, k) ==
    /\ Consumes(c, "offboard")
    /\ sources[k].lifecycle # "absent"
    /\ Offboards(k)
    /\ UNCHANGED <<log, mark, served, reading, report, sweep, controlClock>>

-----------------------------------------------------------------------------
(* Reading progress.                                                        *)

PublicationBearing(row) == row.kind # "file_change_page"

\* The newest outcome, however many changes before it are unfinished.
NewestMark(k) == MaxOf({n \in DOMAIN mark[k] : mark[k][n] # NoMark})

\* The newest outcome with no unfinished change at or before it.
VisibleWatermark(k) ==
    MaxOf({n \in DOMAIN mark[k] :
              /\ mark[k][n] # NoMark
              /\ \A m \in 1 .. n :
                    PublicationBearing(log[k][m]) => mark[k][m] # NoMark})

\* The newest page of any version.
ScanHead(k) == MaxOf(PagesOf(k))

\* The bound of the newest page of the active version; 0 when there is none.
HeadScanBound(k) ==
    LET n == MaxOf(PagesOfVersion(k)) IN IF n = 0 THEN 0 ELSE log[k][n].bound

\* The newest complete scan, of an active v4 Source.
CompleteBaseline(k) ==
    IF IsActive(k) /\ sources[k].version = 4 THEN MaxOf(CompletePages(k)) ELSE 0

\* The complete scan that page n was compared with; 0 for none.
BaselineOf(k, n) ==
    MaxOf({m \in PagesOf(k) : /\ m < n
                              /\ log[k][m].complete
                              /\ log[k][m].version = log[k][n].version})

NovelPaths(observed, baseline) ==
    {p \in ObservedPaths(observed) : observed[p] # baseline[p]}

NovelOf(k, n) ==
    NovelPaths(log[k][n].observed,
        IF BaselineOf(k, n) = 0 THEN NothingObserved
        ELSE log[k][BaselineOf(k, n)].observed)

\* The pages of the newest v4 scan that bring news and have no job yet, as
\* pairs of a scan and its path.
PendingSchedules(k) ==
    LET head == MaxOf(PagesOfVersion(k))
    IN  IF head = 0 \/ ~IsActive(k) \/ sources[k].version # 4 THEN {}
        ELSE {<<head, p>> : p \in
                {q \in NovelOf(k, head) : \A m \in DOMAIN log[k] :
                    ~(log[k][m].page = head /\ log[k][m].path = q)}}

ReadProgress(k) ==
    [checkpoint |-> Len(log[k]), watermark |-> VisibleWatermark(k),
     head |-> ScanHead(k), headBound |-> HeadScanBound(k),
     baseline |-> CompleteBaseline(k), pending |-> PendingSchedules(k),
     refusedBound |-> sources[k].refusedBound]

\* The refusals of the paths the newest complete scan observed: the category
\* of the last job made for exactly that content.
CurrentRefusals(k) ==
    LET terminal == MaxOf(CompletePages(k))
        jobsFor(p) == {n \in DOMAIN log[k] :
                          /\ log[k][n].kind = "file_import"
                          /\ log[k][n].version = sources[k].version
                          /\ log[k][n].path = p
                          /\ log[k][n].content = log[k][terminal].observed[p]}
    IN  IF terminal = 0 THEN {}
        ELSE {p \in ObservedPaths(log[k][terminal].observed) :
                /\ jobsFor(p) # {}
                /\ jobOf[k][MaxOf(jobsFor(p))].category # Missing}

\* succeeded is 0 for a Source that never published.
ReadStatus(k) ==
    [resources |-> Cardinality({p \in Paths : /\ served[k][p].revision # 0
                                              /\ ~served[k][p].tombstoned}),
     succeeded |-> MaxOf({1 + mark[k][n].at : n \in {m \in DOMAIN mark[k] :
                             mark[k][m].outcome \in
                                {"published", "replaced", "unchanged"}}}),
     refusals |-> CurrentRefusals(k)]

\* What the answer's own checks accept of a progress row.
ProgressIsConsistent(progress, versionOf) ==
    /\ progress.watermark <= progress.checkpoint
    /\ progress.head <= progress.checkpoint
    /\ progress.head # 0 => progress.headBound # 0
    /\ progress.baseline <= progress.checkpoint
    /\ progress.baseline # 0 /\ progress.head # 0 =>
          versionOf[progress.baseline] = versionOf[progress.head]
    /\ progress.pending # {} =>
          /\ progress.head # 0
          /\ \A page \in progress.pending :
                versionOf[page[1]] = versionOf[progress.head]

VersionOf(k) == [n \in DOMAIN log[k] |-> log[k][n].version]

Answer(k, progress, status) ==
    IF ProgressIsConsistent(progress, VersionOf(k))
    THEN [source |-> k, progress |-> progress, status |-> status]
    ELSE [source |-> k, progress |-> <<>>, status |-> <<>>]

\* The statement's snapshot is taken: the stable functions read this one.
BeginReadProgress(c, k) ==
    /\ Consumes(c, "progress")
    /\ sources[k].lifecycle # "absent"
    /\ reading' = [reading EXCEPT ![c] =
          <<[source |-> k, progress |-> ReadProgress(k), asOf |-> ReadStatus(k)]>>]
    /\ UNCHANGED <<sourceTables, report, sweep, controlClock>>

\* The status function is volatile: its query reads what is committed now.
EndReadProgress(c) ==
    /\ reading[c] # <<>>
    /\ LET k == reading[c][1].source
       IN  report' = [report EXCEPT ![c] =
              <<Answer(k, reading[c][1].progress, ReadStatus(k)), reading[c][1].asOf>>]
    /\ reading' = [reading EXCEPT ![c] = <<>>]
    /\ UNCHANGED <<controlCall, sourceTables, sweep, controlClock>>

-----------------------------------------------------------------------------
(* The source-wide scan: one bounded cycle after another.                   *)

\* The active Sources are listed under one call.
BeginScanAll(c) ==
    /\ controlCall[c].state = "closed"
    /\ sweep[c] = NoSweep
    /\ sweep' = [sweep EXCEPT ![c] =
          [state |-> "running", todo |-> {k \in Keys : IsActive(k)}]]
    /\ UNCHANGED <<controlCall, sourceTables, reading, report, controlClock>>

\* The Source is done, scanned or refused, and the next one is scanned.
ScanContinues(c, k) == sweep' = [sweep EXCEPT ![c].todo = @ \ {k}]

\* The whole command stops at Source k.
ScanAborts(c, k) ==
    sweep' = [sweep EXCEPT ![c] = [state |-> "aborted", todo |-> @.todo \ {k}]]

\* What a cycle appends: rows, with jobs for the imports among them.
AppendRows(k, rows) ==
    /\ Len(log[k]) + Len(rows) <= SequenceBound
    /\ log' = [log EXCEPT ![k] = @ \o rows]
    /\ jobOf' = [jobOf EXCEPT ![k] = @ \o [i \in DOMAIN rows |->
          IF rows[i].kind = "file_import" THEN OpenJob ELSE NoJob]]
    /\ mark' = [mark EXCEPT ![k] = @ \o [i \in DOMAIN rows |-> NoMark]]

\* The paths in the order a scan takes them, which nothing here depends on.
InSomeOrder(paths) == CHOOSE f \in [1 .. Cardinality(paths) -> paths] : IsInjective(f)

\* The jobs of the given paths of a scan.
Scheduled(k, paths, observed, page) ==
    LET order == InSomeOrder(paths)
    IN  [i \in DOMAIN order |->
            ImportCheckpoint(k, order[i], observed[order[i]], Missing, page)]

\* The complete baseline is the durable head and was observed again.
ReplaysCompleteBaseline(k, observed) ==
    /\ CompleteBaseline(k) # 0
    /\ CompleteBaseline(k) = ScanHead(k)
    /\ log[k][CompleteBaseline(k)].observed = observed

\* The accepted scan and the jobs of its news.
AcceptedScan(k, observed, bound, page) ==
    LET baseline == CompleteBaseline(k)
        before == IF baseline = 0 THEN NothingObserved ELSE log[k][baseline].observed
    IN  <<PageCheckpoint(k, observed, TRUE, bound)>>
           \o Scheduled(k, NovelPaths(observed, before), observed, page)

\* The cycle of a v4 Source whose progress was read.  The pending pages are
\* scheduled first, up to one whose file is not what was accepted: that
\* refuses the cycle, as an unstable root does.  A root beyond the bound is
\* reported and stops the command.  The baseline found again withdraws the
\* refusal; anything else is accepted and its news become jobs.
ScanCycle(c, k, observed, bound, stable, reconciled) ==
    LET pending == {page[2] : page \in PendingSchedules(k)}
        head == MaxOf(PagesOfVersion(k))
        drifted == {p \in reconciled : observed[p] # log[k][head].observed[p]}
        reconcile == IF reconciled = {} THEN <<>>
                     ELSE Scheduled(k, reconciled, log[k][head].observed, head)
    IN  /\ reconciled \subseteq pending
        /\ Cardinality(drifted) <= 1
        /\ drifted = {} => reconciled = pending
        /\ IF drifted # {} \/ ~stable
           THEN /\ ScanContinues(c, k)
                /\ AppendRows(k, reconcile)
                /\ UNCHANGED sources
           ELSE IF Cardinality(ObservedPaths(observed)) > bound
           THEN /\ ScanAborts(c, k)
                /\ AppendRows(k, reconcile)
                /\ sources' = [sources EXCEPT ![k].refusedBound = bound]
           ELSE /\ ScanContinues(c, k)
                /\ sources' = [sources EXCEPT ![k].refusedBound = 0]
                /\ AppendRows(k, reconcile \o
                      IF ReplaysCompleteBaseline(k, observed) THEN <<>>
                      ELSE AcceptedScan(k, observed, bound,
                                        Len(log[k]) + Len(reconcile) + 1))
        /\ UNCHANGED served

\* The next Source of the command: below v4 it is refused, and one that is
\* no longer active or whose progress cannot be read stops the command.
ScanNext(c, k) ==
    /\ sweep[c].state = "running"
    /\ k \in sweep[c].todo
    /\ \/ /\ IsActive(k)
          /\ sources[k].version # 4
          /\ ScanContinues(c, k)
          /\ UNCHANGED sourceTables
       \/ /\ \/ ~IsActive(k)
             \/ /\ sources[k].version = 4
                /\ ~ProgressIsConsistent(ReadProgress(k), VersionOf(k))
          /\ ScanAborts(c, k)
          /\ UNCHANGED sourceTables
       \/ /\ IsActive(k)
          /\ sources[k].version = 4
          /\ ProgressIsConsistent(ReadProgress(k), VersionOf(k))
          /\ \E observed \in Observations, bound \in ScanBounds, stable \in BOOLEAN,
                reconciled \in SUBSET Paths :
                ScanCycle(c, k, observed, bound, stable, reconciled)
    /\ UNCHANGED <<controlCall, reading, report, controlClock>>

\* Every listed Source is done, or the refusal is printed.
EndScanAll(c) ==
    /\ sweep[c].state = "aborted" \/ (sweep[c].state = "running" /\ sweep[c].todo = {})
    /\ sweep' = [sweep EXCEPT ![c] = NoSweep]
    /\ UNCHANGED <<controlCall, sourceTables, reading, report, controlClock>>

ControlTick ==
    /\ controlClock < ControlClockBound
    /\ controlClock' = controlClock + 1
    /\ UNCHANGED <<controlCall, sourceTables, reading, report, sweep>>

-----------------------------------------------------------------------------
ProgressInit ==
    /\ controlCall = [c \in ControlCallers |-> NoCall]
    /\ sources = [k \in Keys |-> NoSource]
    /\ log = [k \in Keys |-> <<>>]
    /\ jobOf = [k \in Keys |-> <<>>]
    /\ mark = [k \in Keys |-> <<>>]
    /\ served = [k \in Keys |-> [p \in Paths |-> UnservedResource]]
    /\ reading = [c \in ControlCallers |-> <<>>]
    /\ report = [c \in ControlCallers |-> <<>>]
    /\ sweep = [c \in ControlCallers |-> NoSweep]
    /\ controlClock = 0

ControlStep(c) ==
    \/ \E operation \in ControlOperations : AuthorizeControlCall(c, operation)
    \/ CloseCall(c)
    \/ EndReadProgress(c)
    \/ BeginScanAll(c) \/ EndScanAll(c)
    \/ \E k \in Keys : ScanNext(c, k)
    \/ \E k \in Keys :
          \/ \E request \in Requests : RegisterFileSource(c, k, request)
          \/ ActivateChangeFeed(c, k) \/ ActivateDeleteObservations(c, k)
          \/ \E key \in ImportKeys, p \in Paths : PrepareFileImport(c, k, key, p)
          \/ \E observed \in Observations, complete \in BOOLEAN, bound \in ScanBounds :
                AcceptFileChangePage(c, k, observed, complete, bound)
          \/ \E bound \in ScanBounds : ReportScanBoundRefusal(c, k, bound)
          \/ ClearScanBoundRefusal(c, k)
          \/ \E p \in Paths :
                ScheduleFileChangePage(c, k, p) \/ TombstoneFileResource(c, k, p)
          \/ OffboardSource(c, k)
          \/ BeginReadProgress(c, k)

WorkerStep(k) ==
    \E n \in {m \in DOMAIN log[k] : log[k][m].kind = "file_import"} :
        \/ \E content \in Contents : PublishActiveRevision(k, n, content)
        \/ PublishUnchanged(k, n)
        \/ \E category \in {"unsupported_construct", Missing} : FailImport(k, n, category)

ProgressNext ==
    \/ \E c \in ControlCallers : ControlStep(c)
    \/ \E k \in Keys : WorkerStep(k)
    \/ ControlTick

ProgressSpec == ProgressInit /\ [][ProgressNext]_progressVars

-----------------------------------------------------------------------------
\* Every change a Source accepted at or before the publish watermark it
\* reports is one Runtime reflects: its import published or found nothing
\* new, its tombstone hides the Resource.  A failed or cancelled import, or
\* one still running, holds the watermark before it, and every row of the
\* two ledgers satisfies its table's constraints.
WatermarkReflectsVisibility ==
    \A k \in Keys :
        /\ SourceIsValid(sources[k])
        /\ \A n \in DOMAIN log[k] :
              /\ CheckpointIsValid(log[k][n])
              /\ MarkIsValid(mark[k][n], log[k][n])
        /\ \A n \in 1 .. ReadProgress(k).watermark :
              /\ log[k][n].kind = "file_import" =>
                    /\ jobOf[k][n].state = "completed"
                    /\ served[k][log[k][n].path].revision # 0
              /\ log[k][n].kind = "file_tombstone" => served[k][log[k][n].path].tombstoned

\* Neither of the two signals of a Source ever moves back, whatever is
\* accepted, fails, is superseded, activated or offboarded in between
\* ("Persistent monotonic visibility progress", CONTEXT.md).
ProgressIsMonotone ==
    [][\A k \in Keys :
          /\ ReadProgress(k).checkpoint <= ReadProgress(k)'.checkpoint
          /\ ReadProgress(k).watermark <= ReadProgress(k)'.watermark]_progressVars

\* The progress and the status of one answer belong to one snapshot.
AnswersAreOneSnapshot ==
    \A c \in ControlCallers :
        report[c] # <<>> => report[c][1].status \in {<<>>, report[c][2]}

\* The progress of every registered Source can be read.
ProgressIsReadable ==
    \A k \in Keys :
        sources[k].lifecycle # "absent" =>
            ProgressIsConsistent(ReadProgress(k), VersionOf(k))

\* A scan-all that stops leaves no listed Source unscanned: a Source's own
\* refusal "does not prevent later discovered Sources from scanning".
ScanAllReachesEverySource ==
    \A c \in ControlCallers : sweep[c].state = "aborted" => sweep[c].todo = {}
=============================================================================
