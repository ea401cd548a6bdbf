--------------------------- MODULE FilePublication ---------------------------
(***************************************************************************)
(* The File import job, its WorkerLease and the recoverable publication of *)
(* one Revision per job: available -> leased -> running -> prepared ->     *)
(* ready -> completed, with failed and cancelled as the other ends.  Each  *)
(* SQL function the worker calls is one transaction (it locks the job row, *)
(* then the ingestion guard of the Resource), hence one action here.  The  *)
(* worker process (engine/persistence/file_imports.py, `run`) is a second  *)
(* state machine around them: it may crash between any two of its calls,   *)
(* and it keeps calling with a lease that another worker has replaced.     *)
(*                                                                         *)
(* One Organization, one File Source.  Time is the phase of a lease: live, *)
(* expired, and due (expired, and the backoff of its generation elapsed).  *)
(* The ServicePrincipal is enabled throughout: no code disables one.       *)
(***************************************************************************)
EXTENDS Integers, FiniteSets

CONSTANTS
    Jobs,            \* file_import_job rows
    Resources,       \* context_resource rows: one per relative path
    ResourceOf,      \* the Resource that the path of a job names
    Contents,        \* content identities (bytes, compiler, config, profile)
    Workers,         \* worker processes
    None,            \* SQL NULL
    DispatchMaxGeneration, \* FILE_DISPATCH_MAX_LEASE_GENERATION (4)
    GenerationBound, \* bound: last generation the Control role issues
    ScanEpochBound   \* bound: last scan epoch

ASSUME ConstantsAssumption ==
    /\ ResourceOf \in [Jobs -> Resources]
    /\ None \notin Contents \cup Jobs
    /\ None \notin 0 .. ScanEpochBound
    /\ None \notin Jobs \X (1 .. GenerationBound)
    /\ None \notin {"running", "prepared", "ready"}
    /\ DispatchMaxGeneration \in Nat \ {0}
    /\ GenerationBound \in Nat
    /\ ScanEpochBound \in Nat
    /\ DispatchMaxGeneration <= GenerationBound

VARIABLES
    \* file_import_job, with the columns of its file_acquisition
    state, recoveryFrom, generation, lease, dispatchClaimed, pageEpoch,
    expected, revisionId, effectCount,
    \* file_publication_recovery, one row at most per job
    checkpoint, recRevision, recPrevious, recContent,
    \* context_resource and the resource_access_policy of the audience;
    \* revision_publication_event and file_revision_snapshot
    activeRevision, tombstoned, access, published, snapshot,
    \* context_source, the latest file_change_page, the audience Membership
    sourceActive, scanEpoch, membership,
    \* the worker processes
    pc, wJob, wGeneration, wContent, wRevision

jobVars == <<state, recoveryFrom, generation, lease, dispatchClaimed,
             pageEpoch, expected, revisionId, effectCount>>
recoveryVars == <<checkpoint, recRevision, recPrevious, recContent>>
resourceVars == <<activeRevision, tombstoned, access, published, snapshot>>
sourceVars == <<sourceActive, scanEpoch, membership>>
workerVars == <<pc, wJob, wGeneration, wContent, wRevision>>
vars == <<jobVars, recoveryVars, resourceVars, sourceVars, workerVars>>

Revisions == Jobs \X (1 .. GenerationBound)
InFlight == {"leased", "running", "prepared", "ready"}
Terminal == {"completed", "failed", "cancelled"}
States == {"absent", "available"} \cup InFlight \cup Terminal

-----------------------------------------------------------------------------
Init ==
    /\ state = [j \in Jobs |-> "absent"]
    /\ recoveryFrom = [j \in Jobs |-> None]
    /\ generation = [j \in Jobs |-> 0]
    /\ lease = [j \in Jobs |-> "none"]
    /\ dispatchClaimed = [j \in Jobs |-> FALSE]
    /\ pageEpoch = [j \in Jobs |-> None]
    /\ expected = [j \in Jobs |-> None]
    /\ revisionId = [j \in Jobs |-> None]
    /\ effectCount = [j \in Jobs |-> 0]
    /\ checkpoint = [j \in Jobs |-> "none"]
    /\ recRevision = [j \in Jobs |-> None]
    /\ recPrevious = [j \in Jobs |-> None]
    /\ recContent = [j \in Jobs |-> None]
    /\ activeRevision = [r \in Resources |-> None]
    /\ tombstoned = [r \in Resources |-> FALSE]
    /\ access = [r \in Resources |-> "none"]
    /\ published = [v \in Revisions |-> "absent"]
    /\ snapshot = [v \in Revisions |-> None]
    /\ sourceActive = TRUE
    /\ scanEpoch = 0
    /\ membership = TRUE
    /\ pc = [w \in Workers |-> "idle"]
    /\ wJob = [w \in Workers |-> None]
    /\ wGeneration = [w \in Workers |-> 0]
    /\ wContent = [w \in Workers |-> None]
    /\ wRevision = [w \in Workers |-> None]

-----------------------------------------------------------------------------
(* Control: how jobs, scan epochs and their loss of authority arise.       *)

\* A direct import of one path: no accepted page; the minimal UI also pins
\* the content it previewed (c # None).  Both need the capability version a
\* Source has before its change feed is activated.
PrepareFileImport(j, c) ==
    /\ state[j] = "absent"
    /\ sourceActive
    /\ scanEpoch = 0
    /\ membership
    /\ state' = [state EXCEPT ![j] = "available"]
    /\ expected' = [expected EXCEPT ![j] = c]
    /\ UNCHANGED <<recoveryFrom, generation, lease, dispatchClaimed, pageEpoch,
                   revisionId, effectCount, recoveryVars, resourceVars,
                   sourceVars, workerVars>>

\* An upsert of a page of the current scan becomes a job that is pinned to
\* that scan epoch and to the observed content.  A scan observes a path once.
ScheduleChange(j, c) ==
    /\ state[j] = "absent"
    /\ sourceActive
    /\ membership
    /\ scanEpoch > 0
    /\ \A k \in Jobs :
          ResourceOf[k] = ResourceOf[j] => pageEpoch[k] # scanEpoch
    /\ state' = [state EXCEPT ![j] = "available"]
    /\ pageEpoch' = [pageEpoch EXCEPT ![j] = scanEpoch]
    /\ expected' = [expected EXCEPT ![j] = c]
    /\ UNCHANGED <<recoveryFrom, generation, lease, dispatchClaimed,
                   revisionId, effectCount, recoveryVars, resourceVars,
                   sourceVars, workerVars>>

\* The first page of a new scan supersedes the scan epoch before it.
AcceptInitialPage ==
    /\ sourceActive
    /\ scanEpoch < ScanEpochBound
    /\ scanEpoch' = scanEpoch + 1
    /\ UNCHANGED <<jobVars, recoveryVars, resourceVars, sourceActive, membership,
                   workerVars>>

\* The validity of the audience Membership ends.
MembershipEnds ==
    /\ membership
    /\ membership' = FALSE
    /\ UNCHANGED <<jobVars, recoveryVars, resourceVars, sourceActive,
                   scanEpoch, workerVars>>

\* The grant that a first publication made is taken back; it is never renewed.
RevokeResourceAccess(r) ==
    /\ access[r] = "allowed"
    /\ access' = [access EXCEPT ![r] = "revoked"]
    /\ UNCHANGED <<jobVars, recoveryVars, activeRevision, tombstoned,
                   published, snapshot, sourceVars, workerVars>>

\* The visible Resource is hidden; its active pointer is kept.  Tombstones
\* are accepted for a disabled Source too.
Tombstone(r) ==
    /\ activeRevision[r] # None
    /\ ~tombstoned[r]
    /\ tombstoned' = [tombstoned EXCEPT ![r] = TRUE]
    /\ UNCHANGED <<jobVars, recoveryVars, activeRevision, access, published,
                   snapshot, sourceVars, workerVars>>

MutantCancellableAll == States \ {"absent"}

MutantCancellableUnstarted == {"available", "leased"}

Cancellable == {"available"} \cup InFlight

\* The Source is disabled and every unfinished job of it is cancelled.
Offboard ==
    /\ sourceActive
    /\ sourceActive' = FALSE
    /\ state' = [j \in Jobs |->
                    IF state[j] \in Cancellable THEN "cancelled"
                                             ELSE state[j]]
    /\ UNCHANGED <<recoveryFrom, generation, lease, dispatchClaimed, pageEpoch,
                   expected, revisionId, effectCount, recoveryVars,
                   resourceVars, scanEpoch, membership, workerVars>>

-----------------------------------------------------------------------------
(* Leases: the Scheduler's claim, the Control issue, and time.             *)

MutantEpochCurrent(j) == pageEpoch[j] \in {None} \cup 0 .. scanEpoch

EpochCurrent(j) == pageEpoch[j] \in {None, scanEpoch}

\* What a lease of generation g + 1 resumes from: a job that was leased and
\* never redeemed keeps the state that the lease before it would resume.
ResumeState(j) ==
    CASE state[j] = "available" -> None
      [] state[j] = "leased" -> recoveryFrom[j]
      [] OTHER -> state[j]

Mint(w, j) ==
    /\ state' = [state EXCEPT ![j] = "leased"]
    /\ recoveryFrom' = [recoveryFrom EXCEPT ![j] = ResumeState(j)]
    /\ generation' = [generation EXCEPT ![j] = @ + 1]
    /\ lease' = [lease EXCEPT ![j] = "live"]
    /\ pc' = [pc EXCEPT ![w] = "claimed"]
    /\ wJob' = [wJob EXCEPT ![w] = j]
    /\ wGeneration' = [wGeneration EXCEPT ![w] = generation[j] + 1]
    /\ UNCHANGED <<pageEpoch, expected, revisionId, effectCount, recoveryVars,
                   resourceVars, sourceVars, wContent, wRevision>>

DispatchEligible(j) ==
    /\ sourceActive
    /\ membership
    /\ pageEpoch[j] = scanEpoch

\* The first claim of a scheduled job.
ClaimFirst(w, j) ==
    /\ pc[w] = "idle"
    /\ state[j] = "available"
    /\ generation[j] = 0
    /\ DispatchEligible(j)
    /\ dispatchClaimed' = [dispatchClaimed EXCEPT ![j] = TRUE]
    /\ Mint(w, j)

MutantReclaimable(j) == generation[j] \in 1 .. (DispatchMaxGeneration - 2)

\* The last generation is left untouched after its lease has expired.
Reclaimable(j) == generation[j] \in 1 .. (DispatchMaxGeneration - 1)

\* The claim of a job whose lease has expired and whose backoff is over.
Reclaim(w, j) ==
    /\ pc[w] = "idle"
    /\ dispatchClaimed[j]
    /\ state[j] \in InFlight
    /\ Reclaimable(j)
    /\ lease[j] = "due"
    /\ DispatchEligible(j)
    /\ UNCHANGED dispatchClaimed
    /\ Mint(w, j)

\* An operator issues a lease for one exact job: no backoff, no last
\* generation, no look at the scan epoch or the Membership.
IssueLease(w, j) ==
    /\ pc[w] = "idle"
    /\ sourceActive
    /\ \/ state[j] = "available"
       \/ state[j] \in InFlight /\ lease[j] \in {"expired", "due"}
    /\ generation[j] < GenerationBound
    /\ UNCHANGED dispatchClaimed
    /\ Mint(w, j)

\* The time of a lease is looked at only while its job is unfinished.
Expire(j) ==
    /\ state[j] \in InFlight
    /\ lease[j] = "live"
    /\ lease' = [lease EXCEPT ![j] = "expired"]
    /\ UNCHANGED <<state, recoveryFrom, generation, dispatchClaimed, pageEpoch,
                   expected, revisionId, effectCount, recoveryVars,
                   resourceVars, sourceVars, workerVars>>

BackoffElapses(j) ==
    /\ state[j] \in InFlight
    /\ lease[j] = "expired"
    /\ lease' = [lease EXCEPT ![j] = "due"]
    /\ UNCHANGED <<state, recoveryFrom, generation, dispatchClaimed, pageEpoch,
                   expected, revisionId, effectCount, recoveryVars,
                   resourceVars, sourceVars, workerVars>>

-----------------------------------------------------------------------------
(* The worker: `run`, from redemption to publication or failure.           *)

MutantLeaseHeld(w) == sourceActive /\ lease[wJob[w]] = "live"

\* Job row, generation, nonce and expiry are matched by every worker call;
\* row security hides the jobs of a disabled Source from all of them.
LeaseHeld(w) ==
    /\ sourceActive
    /\ generation[wJob[w]] = wGeneration[w]
    /\ lease[wJob[w]] = "live"

Leave(w) ==
    /\ pc' = [pc EXCEPT ![w] = "idle"]
    /\ wJob' = [wJob EXCEPT ![w] = None]
    /\ wGeneration' = [wGeneration EXCEPT ![w] = 0]
    /\ wContent' = [wContent EXCEPT ![w] = None]
    /\ wRevision' = [wRevision EXCEPT ![w] = None]

Goto(w, label) ==
    /\ pc' = [pc EXCEPT ![w] = label]
    /\ UNCHANGED <<wJob, wGeneration, wContent, wRevision>>

\* A refused call changes no row; `run` answers it with `_fail`.
Rejected(w) ==
    /\ Goto(w, "failing")
    /\ UNCHANGED <<jobVars, recoveryVars, resourceVars, sourceVars>>

\* A crash, also between a committed claim and the delivery of its token.
Crash(w) ==
    /\ pc[w] # "idle"
    /\ Leave(w)
    /\ UNCHANGED <<jobVars, recoveryVars, resourceVars, sourceVars>>

\* A superseded scan epoch makes redemption raise, so the job stays leased.
Redeemable(w) ==
    /\ LeaseHeld(w)
    /\ state[wJob[w]] = "leased"
    /\ EpochCurrent(wJob[w])

MutantRedeemedNull(j) == recoveryFrom[j]

MutantRedeemedRunning(j) == "running"

\* COALESCE(recovery_from_state, 'running')
RedeemedState(j) == IF recoveryFrom[j] = None THEN "running" ELSE recoveryFrom[j]

Redeem(w) ==
    LET j == wJob[w] IN
    /\ pc[w] = "claimed"
    /\ Redeemable(w)
    /\ state' = [state EXCEPT ![j] = RedeemedState(j)]
    /\ recoveryFrom' = [recoveryFrom EXCEPT ![j] = None]
    /\ Goto(w, "redeemed")
    /\ UNCHANGED <<generation, lease, dispatchClaimed, pageEpoch, expected,
                   revisionId, effectCount, recoveryVars, resourceVars,
                   sourceVars>>

RedeemRejected(w) ==
    /\ pc[w] = "claimed"
    /\ ~Redeemable(w)
    /\ Leave(w)
    /\ UNCHANGED <<jobVars, recoveryVars, resourceVars, sourceVars>>

MutantAsObserved(j, c) == c \in Contents

AsObserved(j, c) == expected[j] \in {None, c}

\* The file holds any content by now; one that is not the observed content,
\* that cannot be read or that does not compile ends in `_fail`.
ReadAndCompile(w, c) ==
    /\ pc[w] = "redeemed"
    /\ AsObserved(wJob[w], c)
    /\ pc' = [pc EXCEPT ![w] = "loaded"]
    /\ wContent' = [wContent EXCEPT ![w] = c]
    /\ UNCHANGED <<jobVars, recoveryVars, resourceVars, sourceVars, wJob,
                   wGeneration, wRevision>>

ReadOrCompileRefused(w) ==
    /\ pc[w] = "redeemed"
    /\ Rejected(w)

-----------------------------------------------------------------------------
(* context_worker_acquire_file_publication: resume, wait, no-op or start.  *)

Open == {"acquired", "prepared", "ready"}

CheckpointOf == [running |-> "acquired", prepared |-> "prepared",
                 ready |-> "ready"]

AtAcquire(w) == pc[w] \in {"loaded", "waiting"}

\* The recovery row of the job, for the same content, at the job's state.
Resumable(w) ==
    LET j == wJob[w] IN
    /\ LeaseHeld(w)
    /\ state[j] \in DOMAIN CheckpointOf
    /\ checkpoint[j] = CheckpointOf[state[j]]
    /\ recContent[j] = wContent[w]
    /\ revisionId[j] = recRevision[j]

MutantFresh(w) == LeaseHeld(w) /\ state[wJob[w]] = "running"

\* A redeemed job that has not started to publish.
Fresh(w) ==
    LET j == wJob[w] IN
    /\ LeaseHeld(w)
    /\ state[j] = "running"
    /\ checkpoint[j] = "none"
    /\ revisionId[j] = None

MutantBlockersStaged(j) ==
    {k \in Jobs \ {j} : /\ ResourceOf[k] = ResourceOf[j]
                        /\ checkpoint[k] \in {"prepared", "ready"}}

MutantBlockersLive(j) ==
    {k \in Jobs \ {j} : /\ ResourceOf[k] = ResourceOf[j]
                        /\ checkpoint[k] \in Open
                        /\ lease[k] = "live"}

Blockers(j) ==
    {k \in Jobs \ {j} : ResourceOf[k] = ResourceOf[j] /\ checkpoint[k] \in Open}

Contended(j) == Blockers(j) # {}

MutantUnchanged(w) ==
    /\ activeRevision[ResourceOf[wJob[w]]] # None
    /\ snapshot[activeRevision[ResourceOf[wJob[w]]]] = wContent[w]
    /\ membership
    /\ access[ResourceOf[wJob[w]]] = "allowed"

\* The visible active Revision already has this content.
Unchanged(w) ==
    LET r == ResourceOf[wJob[w]] IN
    /\ activeRevision[r] # None
    /\ ~tombstoned[r]
    /\ snapshot[activeRevision[r]] = wContent[w]
    /\ membership
    /\ access[r] = "allowed"

\* A first publication, or the replacement of a visible active Revision.
Publishable(w) ==
    LET r == ResourceOf[wJob[w]] IN
    /\ ~Unchanged(w)
    /\ membership
    /\ activeRevision[r] # None => ~tombstoned[r] /\ access[r] = "allowed"

ResumePublication(w) ==
    LET j == wJob[w] IN
    /\ AtAcquire(w)
    /\ Resumable(w)
    /\ pc' = [pc EXCEPT ![w] = checkpoint[j]]
    /\ wRevision' = [wRevision EXCEPT ![w] = recRevision[j]]
    /\ UNCHANGED <<jobVars, recoveryVars, resourceVars, sourceVars, wJob,
                   wGeneration, wContent>>

AwaitConcurrentPublication(w) ==
    /\ AtAcquire(w)
    /\ Fresh(w)
    /\ Contended(wJob[w])
    /\ Goto(w, "waiting")
    /\ UNCHANGED <<jobVars, recoveryVars, resourceVars, sourceVars>>

\* The no-op is an outcome of the job, so the scan-epoch fence applies to it.
ObserveUnchanged(w) ==
    LET j == wJob[w] IN
    /\ AtAcquire(w)
    /\ Fresh(w)
    /\ ~Contended(j)
    /\ Unchanged(w)
    /\ EpochCurrent(j)
    /\ state' = [state EXCEPT ![j] = "completed"]
    /\ revisionId' = [revisionId EXCEPT ![j] = activeRevision[ResourceOf[j]]]
    /\ Leave(w)
    /\ UNCHANGED <<recoveryFrom, generation, lease, dispatchClaimed, pageEpoch,
                   expected, effectCount, recoveryVars, resourceVars,
                   sourceVars>>

StartPublication(w) ==
    LET j == wJob[w]
        revision == <<j, wGeneration[w]>> IN
    /\ AtAcquire(w)
    /\ Fresh(w)
    /\ ~Contended(j)
    /\ Publishable(w)
    /\ checkpoint' = [checkpoint EXCEPT ![j] = "acquired"]
    /\ recRevision' = [recRevision EXCEPT ![j] = revision]
    /\ recPrevious' = [recPrevious EXCEPT ![j] = activeRevision[ResourceOf[j]]]
    /\ recContent' = [recContent EXCEPT ![j] = wContent[w]]
    /\ revisionId' = [revisionId EXCEPT ![j] = revision]
    /\ pc' = [pc EXCEPT ![w] = "acquired"]
    /\ wRevision' = [wRevision EXCEPT ![w] = revision]
    /\ UNCHANGED <<state, recoveryFrom, generation, lease, dispatchClaimed,
                   pageEpoch, expected, effectCount, resourceVars, sourceVars,
                   wJob, wGeneration, wContent>>

AcquireRejected(w) ==
    LET j == wJob[w] IN
    /\ AtAcquire(w)
    /\ ~Resumable(w)
    /\ Fresh(w) => /\ ~Contended(j)
                   /\ ~Publishable(w)
                   /\ ~(Unchanged(w) /\ EpochCurrent(j))
    /\ Rejected(w)

\* The bounded wait for a concurrent publication is over.
GiveUpWaiting(w) ==
    /\ pc[w] = "waiting"
    /\ Rejected(w)

-----------------------------------------------------------------------------
(* Prepare, index, activate, and the two ways to fail a job.               *)

MutantBaseStands(j) == activeRevision[ResourceOf[j]] = recPrevious[j]

\* The Resource still has the active Revision of acquisition and is visible.
BaseStands(j) ==
    /\ activeRevision[ResourceOf[j]] = recPrevious[j]
    /\ ~tombstoned[ResourceOf[j]]

Preparable(w) ==
    LET j == wJob[w] IN
    /\ LeaseHeld(w)
    /\ state[j] = "running"
    /\ revisionId[j] = wRevision[w]
    /\ checkpoint[j] = "acquired"
    /\ recRevision[j] = wRevision[w]
    /\ recContent[j] = wContent[w]
    /\ membership
    /\ recPrevious[j] # None => access[ResourceOf[j]] = "allowed"
    /\ BaseStands(j)

\* A first publication also grants the audience access to the Resource.
Prepare(w) ==
    LET j == wJob[w]
        r == ResourceOf[j] IN
    /\ pc[w] = "acquired"
    /\ Preparable(w)
    /\ published' = [published EXCEPT ![wRevision[w]] = "prepared"]
    /\ snapshot' = [snapshot EXCEPT ![wRevision[w]] = recContent[j]]
    /\ access' = [access EXCEPT ![r] = IF recPrevious[j] = None
                                       THEN "allowed" ELSE @]
    /\ checkpoint' = [checkpoint EXCEPT ![j] = "prepared"]
    /\ state' = [state EXCEPT ![j] = "prepared"]
    /\ Goto(w, "prepared")
    /\ UNCHANGED <<recoveryFrom, generation, lease, dispatchClaimed, pageEpoch,
                   expected, revisionId, effectCount, recRevision, recPrevious,
                   recContent, activeRevision, tombstoned, sourceVars>>

PrepareRejected(w) ==
    /\ pc[w] = "acquired"
    /\ ~Preparable(w)
    /\ Rejected(w)

\* The embedding provider refuses the document.  `run` still calls `_fail`.
Refusable(w) ==
    LET j == wJob[w] IN
    /\ LeaseHeld(w)
    /\ state[j] = "running"
    /\ revisionId[j] # None
    /\ checkpoint[j] = "acquired"
    /\ recRevision[j] = revisionId[j]

\* The job fails.  The DELETE of its recovery row removes nothing: it runs
\* with row security on, as a role without BYPASSRLS, on a table that forces
\* row security and has no DELETE policy for that role.
RefuseAcquired(w) ==
    LET j == wJob[w] IN
    /\ pc[w] = "acquired"
    /\ Refusable(w)
    /\ state' = [state EXCEPT ![j] = "failed"]
    /\ revisionId' = [revisionId EXCEPT ![j] = None]
    /\ Goto(w, "failing")
    /\ UNCHANGED <<recoveryFrom, generation, lease, dispatchClaimed, pageEpoch,
                   expected, effectCount, recoveryVars, resourceVars,
                   sourceVars>>

\* The provider is unavailable: an event is recorded, the lease runs out and
\* a later generation resumes.
ProviderUnavailable(w) ==
    /\ pc[w] = "acquired"
    /\ Leave(w)
    /\ UNCHANGED <<jobVars, recoveryVars, resourceVars, sourceVars>>

Indexable(w) ==
    LET j == wJob[w] IN
    /\ LeaseHeld(w)
    /\ state[j] = "prepared"
    /\ revisionId[j] = wRevision[w]
    /\ checkpoint[j] = "prepared"
    /\ recRevision[j] = wRevision[w]
    /\ recContent[j] = wContent[w]
    /\ snapshot[wRevision[w]] = recContent[j]

Index(w) ==
    LET j == wJob[w] IN
    /\ pc[w] = "prepared"
    /\ Indexable(w)
    /\ published' = [published EXCEPT ![wRevision[w]] = "indexed"]
    /\ checkpoint' = [checkpoint EXCEPT ![j] = "ready"]
    /\ state' = [state EXCEPT ![j] = "ready"]
    /\ Goto(w, "ready")
    /\ UNCHANGED <<recoveryFrom, generation, lease, dispatchClaimed, pageEpoch,
                   expected, revisionId, effectCount, recRevision, recPrevious,
                   recContent, activeRevision, tombstoned, access, snapshot,
                   sourceVars>>

IndexRejected(w) ==
    /\ pc[w] = "prepared"
    /\ ~Indexable(w)
    /\ Rejected(w)

\* The trigger on the publish watermark raises for a superseded scan epoch,
\* which rolls the whole activation back.
Activatable(w) ==
    LET j == wJob[w] IN
    /\ LeaseHeld(w)
    /\ state[j] = "ready"
    /\ revisionId[j] = wRevision[w]
    /\ checkpoint[j] = "ready"
    /\ recRevision[j] = wRevision[w]
    /\ published[wRevision[w]] = "indexed"
    /\ BaseStands(j)
    /\ membership
    /\ access[ResourceOf[j]] = "allowed"
    /\ EpochCurrent(j)

Activate(w) ==
    LET j == wJob[w] IN
    /\ pc[w] = "ready"
    /\ Activatable(w)
    /\ activeRevision' = [activeRevision EXCEPT ![ResourceOf[j]] = wRevision[w]]
    /\ published' = [published EXCEPT ![wRevision[w]] = "active"]
    /\ checkpoint' = [checkpoint EXCEPT ![j] = "completed"]
    /\ state' = [state EXCEPT ![j] = "completed"]
    /\ effectCount' = [effectCount EXCEPT ![j] = 1]
    /\ Leave(w)
    /\ UNCHANGED <<recoveryFrom, generation, lease, dispatchClaimed, pageEpoch,
                   expected, revisionId, recRevision, recPrevious, recContent,
                   tombstoned, access, snapshot, sourceVars>>

ActivateRejected(w) ==
    /\ pc[w] = "ready"
    /\ ~Activatable(w)
    /\ Rejected(w)

\* `_fail` seals only a job that has left no trace of a publication.
Sealable(w) == Fresh(w)

Fail(w) ==
    /\ pc[w] = "failing"
    /\ Sealable(w)
    /\ state' = [state EXCEPT ![wJob[w]] = "failed"]
    /\ Leave(w)
    /\ UNCHANGED <<recoveryFrom, generation, lease, dispatchClaimed, pageEpoch,
                   expected, revisionId, effectCount, recoveryVars,
                   resourceVars, sourceVars>>

FailRejected(w) ==
    /\ pc[w] = "failing"
    /\ ~Sealable(w)
    /\ Leave(w)
    /\ UNCHANGED <<jobVars, recoveryVars, resourceVars, sourceVars>>

-----------------------------------------------------------------------------
Control ==
    \/ \E j \in Jobs, c \in Contents \cup {None} : PrepareFileImport(j, c)
    \/ \E j \in Jobs, c \in Contents : ScheduleChange(j, c)
    \/ AcceptInitialPage
    \/ MembershipEnds
    \/ \E r \in Resources : RevokeResourceAccess(r) \/ Tombstone(r)
    \/ Offboard

Claim == \E w \in Workers, j \in Jobs : ClaimFirst(w, j) \/ Reclaim(w, j)

Time == \E j \in Jobs : Expire(j) \/ BackoffElapses(j)

\* The steps of `run`.
Work(w) ==
    \/ Redeem(w) \/ RedeemRejected(w)
    \/ \E c \in Contents : ReadAndCompile(w, c)
    \/ ReadOrCompileRefused(w)
    \/ ResumePublication(w) \/ AwaitConcurrentPublication(w)
    \/ ObserveUnchanged(w) \/ StartPublication(w) \/ AcquireRejected(w)
    \/ GiveUpWaiting(w)
    \/ Prepare(w) \/ PrepareRejected(w)
    \/ RefuseAcquired(w) \/ ProviderUnavailable(w)
    \/ Index(w) \/ IndexRejected(w)
    \/ Activate(w) \/ ActivateRejected(w)
    \/ Fail(w) \/ FailRejected(w)

Next ==
    \/ Control
    \/ Claim
    \/ \E w \in Workers, j \in Jobs : IssueLease(w, j)
    \/ Time
    \/ \E w \in Workers : Work(w) \/ Crash(w)

Spec == Init /\ [][Next]_vars

-----------------------------------------------------------------------------
(* Properties.                                                             *)

JobTypes ==
    /\ state \in [Jobs -> States]
    /\ recoveryFrom \in [Jobs -> {"running", "prepared", "ready", None}]
    /\ generation \in [Jobs -> 0 .. GenerationBound]
    /\ lease \in [Jobs -> {"none", "live", "expired", "due"}]
    /\ pageEpoch \in [Jobs -> (1 .. ScanEpochBound) \cup {None}]
    /\ expected \in [Jobs -> Contents \cup {None}]
    /\ revisionId \in [Jobs -> Revisions \cup {None}]
    /\ effectCount \in [Jobs -> 0 .. 1]

RecoveryTypes ==
    /\ checkpoint \in [Jobs -> Open \cup {"none", "completed"}]
    /\ recRevision \in [Jobs -> Revisions \cup {None}]
    /\ recPrevious \in [Jobs -> Revisions \cup {None}]
    /\ recContent \in [Jobs -> Contents \cup {None}]

ResourceTypes ==
    /\ activeRevision \in [Resources -> Revisions \cup {None}]
    /\ access \in [Resources -> {"none", "allowed", "revoked"}]
    /\ published \in
          [Revisions -> {"absent", "prepared", "indexed", "active"}]
    /\ snapshot \in [Revisions -> Contents \cup {None}]

FlagTypes ==
    /\ dispatchClaimed \in [Jobs -> BOOLEAN]
    /\ tombstoned \in [Resources -> BOOLEAN]
    /\ sourceActive \in BOOLEAN
    /\ membership \in BOOLEAN

WorkerTypes ==
    /\ pc \in [Workers -> {"idle", "claimed", "redeemed", "loaded", "waiting",
                           "acquired", "prepared", "ready", "failing"}]
    /\ wJob \in [Workers -> Jobs \cup {None}]
    /\ wGeneration \in [Workers -> 0 .. GenerationBound]
    /\ wContent \in [Workers -> Contents \cup {None}]
    /\ wRevision \in [Workers -> Revisions \cup {None}]

\* Every column, row and program counter has its type: a redeemed job is in a
\* state a job can be in, and a reclaim never passes the last generation.
TypeOK ==
    /\ JobTypes
    /\ RecoveryTypes
    /\ ResourceTypes
    /\ FlagTypes
    /\ scanEpoch \in 0 .. ScanEpochBound
    /\ WorkerTypes

\* Two jobs never publish to one Resource at a time: of the unfinished
\* recovery rows of a Resource there is at most one.
OneOpenRecovery ==
    \A j, k \in Jobs :
        /\ ResourceOf[j] = ResourceOf[k]
        /\ checkpoint[j] \in Open
        /\ checkpoint[k] \in Open
        => j = k

\* No lost update: while a recovery row is unfinished, whatever crashes,
\* reclaims and other jobs happen in between, the active Revision of its
\* Resource is still the one the publication was acquired against.
RecoveryBaseIsActive ==
    \A j \in Jobs :
        checkpoint[j] \in Open => activeRevision[ResourceOf[j]] = recPrevious[j]

\* The state a job is in, or will be in once its new lease is redeemed.
DurableState(j) ==
    CASE state[j] = "leased" /\ recoveryFrom[j] # None -> recoveryFrom[j]
      [] state[j] = "leased" /\ recoveryFrom[j] = None -> "running"
      [] OTHER -> state[j]

\* The job row and its recovery row agree after every commit, so that a job
\* can be resumed by the next lease generation from wherever it stopped.
RecoveryMatchesJob ==
    \A j \in Jobs :
        /\ DurableState(j) = "running" =>
              \/ checkpoint[j] = "none" /\ revisionId[j] = None
              \/ checkpoint[j] = "acquired" /\ revisionId[j] = recRevision[j]
        /\ DurableState(j) \in {"prepared", "ready"} =>
              /\ checkpoint[j] = DurableState(j)
              /\ revisionId[j] = recRevision[j]
              /\ snapshot[recRevision[j]] = recContent[j]
              /\ published[recRevision[j]] =
                    IF checkpoint[j] = "ready" THEN "indexed" ELSE "prepared"
        /\ checkpoint[j] = "completed" <=> effectCount[j] = 1
        /\ effectCount[j] = 1 => state[j] = "completed"

\* The interrupted publication of an unfinished job can always be resumed, by
\* one job and to the right effect: its job row and its recovery row agree, no other job of the
\* Resource is publishing, and the Revision it was acquired against is still
\* the active one (`_publish` under any crash, expiry, reclaim and rival job).
RecoveryIsSound ==
    OneOpenRecovery /\ RecoveryBaseIsActive /\ RecoveryMatchesJob

\* What readers see is whole: an active Revision went through prepare, index
\* and activation of a job that is completed with one effect, and holds the
\* content that this job was acquired for and, when scheduled, expected.
ActiveRevisionIsWhole ==
    \A r \in Resources :
        activeRevision[r] # None =>
            LET revision == activeRevision[r]
                j == revision[1] IN
            /\ published[revision] = "active"
            /\ ResourceOf[j] = r
            /\ state[j] = "completed"
            /\ effectCount[j] = 1
            /\ revisionId[j] = revision
            /\ snapshot[revision] = recContent[j]
            /\ expected[j] \in {None, snapshot[revision]}

\* Offboarding leaves no unfinished job behind.
OffboardedJobsAreOver ==
    ~sourceActive => \A j \in Jobs : state[j] \in Terminal \cup {"absent"}

\* A publication advances, and a job ends, only by a step of the worker that
\* holds the current lease generation, while that lease is live: a worker that
\* was replaced, or whose lease has expired, changes nothing.
OnlyTheLeaseHolderActs ==
    [][\A j \in Jobs :
          \/ checkpoint'[j] # checkpoint[j]
          \/ state'[j] # state[j] /\ state'[j] \in {"completed", "failed"}
          => /\ lease[j] = "live"
             /\ sourceActive
             /\ \E w \in Workers : /\ pc'[w] # pc[w]
                                   /\ wJob[w] = j
                                   /\ wGeneration[w] = generation[j]]_vars

\* However often a job is reclaimed, it resumes one Revision, one content and
\* one base: an unfinished recovery row is advanced, never rewritten and never
\* removed (not by a refusal or an offboarding either, which end the job).
StableRecovery ==
    [][\A j \in Jobs :
          checkpoint[j] \in Open =>
              /\ checkpoint'[j] # "none"
              /\ recRevision'[j] = recRevision[j]
              /\ recContent'[j] = recContent[j]
              /\ recPrevious'[j] = recPrevious[j]]_vars

\* Withdrawal is final and immediate: once a Resource is tombstoned, or the
\* grant of its audience revoked, no publication under way at that moment, and
\* no later one, gives it another active Revision.
WithdrawnResourceIsFrozen ==
    [][\A r \in Resources :
          tombstoned[r] \/ access[r] = "revoked" =>
              /\ activeRevision'[r] = activeRevision[r]
              /\ tombstoned[r] => tombstoned'[r]
              /\ access[r] = "revoked" => access'[r] = "revoked"]_vars

\* A job pinned to a scan never completes once a later scan has begun.
NoEffectOfASupersededScan ==
    [][\A j \in Jobs :
          state[j] # "completed" /\ state'[j] = "completed"
          => pageEpoch[j] \in {None, scanEpoch}]_vars

\* "unchanged" is never a false no-op: a job that completes without an effect
\* points at the active, visible Revision, whose content is what was expected.
UnchangedIsTrue ==
    [][\A j \in Jobs :
          state[j] # "completed" /\ state'[j] = "completed"
                                 /\ effectCount'[j] = 0
          => LET r == ResourceOf[j] IN
             /\ revisionId'[j] = activeRevision'[r]
             /\ activeRevision'[r] # None
             /\ ~tombstoned[r]
             /\ access[r] = "allowed"
             /\ expected[j] \in {None, snapshot[activeRevision[r]]}]_vars

\* A job ends once: completed, failed and cancelled are never left, and a
\* completed job keeps its Revision.
EndsAreFinal ==
    [][\A j \in Jobs :
          state[j] \in Terminal => /\ state'[j] = state[j]
                                   /\ revisionId'[j] = revisionId[j]
                                   /\ effectCount'[j] = effectCount[j]]_vars

-----------------------------------------------------------------------------
\* Workers that do not crash go on, the Scheduler keeps polling, time passes;
\* nothing else is fair.
Fairness ==
    /\ \A w \in Workers : WF_vars(Work(w))
    /\ WF_vars(Claim)
    /\ \A j \in Jobs : WF_vars(Expire(j)) /\ WF_vars(BackoffElapses(j))

FairSpec == Spec /\ Fairness

Exhausted(j) ==
    /\ state[j] \in InFlight
    /\ generation[j] >= DispatchMaxGeneration
    /\ lease[j] = "due"

\* A job that the Scheduler once claimed does not hang: it ends, or uses up
\* its lease generations, or loses the authority it was scheduled with.
ClaimedJobsSettle ==
    \A j \in Jobs :
        dispatchClaimed[j] ~> \/ state[j] \in Terminal
                              \/ Exhausted(j)
                              \/ ~DispatchEligible(j)

\* "ineligible or exhausted work does not block fresh work" (ADR 0060): a
\* worker with a first claim does not wait for a publication that only an
\* exhausted job could finish.
ExhaustedWorkDoesNotBlock ==
    \A w \in Workers :
        LET j == wJob[w] IN
        pc[w] = "waiting" /\ dispatchClaimed[j] /\ generation[j] = 1 =>
            \/ ~Contended(j)
            \/ \E k \in Blockers(j) : ~(dispatchClaimed[k] /\ Exhausted(k))

\* "Discard only acquired recovery state and seal one closed refusal"
\* (`_refuse_acquired_embedding_document`): a failed job leaves no unfinished
\* recovery row, for which every later job of its Resource would wait.
RefusedRecoveryIsDiscarded ==
    \A j \in Jobs : state[j] = "failed" => checkpoint[j] \notin Open
====
