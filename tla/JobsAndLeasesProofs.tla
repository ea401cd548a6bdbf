------------------------ MODULE JobsAndLeasesProofs -------------------------
(***************************************************************************)
(* Proofs about the file import job and about the leases of no-op jobs, for*)
(* every set of jobs, Resources, workers, keys and contents: types, the    *)
(* exclusive and resumable publication, what readers see, and the fences of*)
(* lease, scan epoch, Source and withdrawn Resource.                       *)
(***************************************************************************)
EXTENDS FilePublication, WorkerLease, WellFoundedInduction, TLAPS

-----------------------------------------------------------------------------
(* Type correctness.                                                       *)

\* A worker that is not idle holds a job and a lease generation; one that is
\* publishing also holds the Revision that the database answered.
WorkersHoldJobs ==
    \A w \in Workers :
        /\ pc[w] # "idle" => /\ wJob[w] \in Jobs
                             /\ wGeneration[w] \in 1 .. GenerationBound
        /\ pc[w] \in Open => wRevision[w] \in Revisions

\* A recovery row names a Revision of its own job.
RecoveryOwnsRevision ==
    \A j \in Jobs :
        checkpoint[j] # "none" => recRevision[j] \in {j} \X (1 .. GenerationBound)

RecoveryOK == RecoveryTypes /\ RecoveryOwnsRevision

WorkerOK == WorkerTypes /\ WorkersHoldJobs

EpochOK == scanEpoch \in 0 .. ScanEpochBound

RowsOK == JobTypes /\ RecoveryOK /\ ResourceTypes /\ EpochOK /\ WorkerOK

TypeInv == RowsOK /\ FlagTypes

\* The empty tables are well typed.
LEMMA TypeInit == Init => TypeInv
<1> SUFFICES ASSUME Init
             PROVE  TypeInv
  OBVIOUS
<1>1. JobTypes
  BY ConstantsAssumption DEF Init, JobTypes, States
<1>2. RecoveryOK
  BY Zenon DEF Init, RecoveryOK, RecoveryTypes, RecoveryOwnsRevision
<1>3. ResourceTypes /\ EpochOK
  BY ConstantsAssumption DEF Init, ResourceTypes, EpochOK
<1>4. WorkerOK
  BY ConstantsAssumption DEF Init, WorkerOK, WorkerTypes, WorkersHoldJobs, Open
<1>5. FlagTypes
  BY Zenon DEF Init, FlagTypes
<1> QED
  BY <1>1, <1>2, <1>3, <1>4, <1>5, Zenon DEF TypeInv, RowsOK

\* What a step leaves alone keeps its type.
LEMMA Frames ==
  /\ JobTypes /\ UNCHANGED jobVars => JobTypes'
  /\ RecoveryOK /\ UNCHANGED recoveryVars => RecoveryOK'
  /\ ResourceTypes /\ UNCHANGED resourceVars => ResourceTypes'
  /\ EpochOK /\ UNCHANGED sourceVars => EpochOK'
  /\ WorkerOK /\ UNCHANGED workerVars => WorkerOK'
<1>1. JobTypes /\ UNCHANGED jobVars => JobTypes'
  BY Zenon DEF JobTypes, jobVars
<1>2. RecoveryOK /\ UNCHANGED recoveryVars => RecoveryOK'
  BY Zenon DEF RecoveryOK, RecoveryTypes, RecoveryOwnsRevision, recoveryVars
<1>3. ResourceTypes /\ UNCHANGED resourceVars => ResourceTypes'
  BY Zenon DEF ResourceTypes, resourceVars
<1>4. EpochOK /\ UNCHANGED sourceVars => EpochOK'
  BY Zenon DEF EpochOK, sourceVars
<1>5. WorkerOK /\ UNCHANGED workerVars => WorkerOK'
  BY Zenon DEF WorkerOK, WorkerTypes, WorkersHoldJobs, workerVars
<1> QED
  BY <1>1, <1>2, <1>3, <1>4, <1>5, Zenon 

\* The control operations keep the types.
LEMMA TypeControl ==
  ASSUME RowsOK, Control
  PROVE  RowsOK'
<1> USE DEF RowsOK
<1>1. ASSUME NEW j \in Jobs, NEW c \in Contents \cup {None},
             PrepareFileImport(j, c)
      PROVE  RowsOK'
  <2>1. JobTypes'
    BY <1>1, Zenon DEF PrepareFileImport, JobTypes, States
  <2> QED
    BY <1>1, <2>1, Frames, Zenon DEF PrepareFileImport
<1>2. ASSUME NEW j \in Jobs, NEW c \in Contents, ScheduleChange(j, c)
      PROVE  RowsOK'
  <2>1. JobTypes'
    BY <1>2, ConstantsAssumption
    DEF ScheduleChange, JobTypes, EpochOK, States
  <2> QED
    BY <1>2, <2>1, Frames, Zenon DEF ScheduleChange
<1>3. CASE AcceptInitialPage \/ MembershipEnds
  <2>1. EpochOK'
    BY <1>3, ConstantsAssumption DEF AcceptInitialPage, MembershipEnds, EpochOK
  <2> QED
    BY <1>3, <2>1, Frames, Zenon DEF AcceptInitialPage, MembershipEnds
<1>4. ASSUME NEW r \in Resources, RevokeResourceAccess(r) \/ Tombstone(r)
      PROVE  RowsOK'
  <2>1. ResourceTypes'
    BY <1>4, Zenon DEF RevokeResourceAccess, Tombstone, ResourceTypes
  <2> QED
    BY <1>4, <2>1, Frames, Zenon DEF RevokeResourceAccess, Tombstone
<1>5. CASE Offboard
  <2>1. JobTypes'
    BY <1>5, Zenon DEF Offboard, JobTypes, States, Terminal
  <2>2. EpochOK'
    BY <1>5, Zenon DEF Offboard, EpochOK
  <2> QED
    BY <1>5, <2>1, <2>2, Frames, Zenon DEF Offboard
<1> QED
  BY <1>1, <1>2, <1>3, <1>4, <1>5, Zenon DEF Control

\* Claims, leases and the clock keep the types.
LEMMA TypeLeases ==
  ASSUME RowsOK,
         \/ Claim
         \/ Time
         \/ \E w \in Workers, j \in Jobs : IssueLease(w, j)
  PROVE  RowsOK'
<1> USE DEF RowsOK
<1>1. ASSUME NEW w \in Workers, NEW j \in Jobs,
             ClaimFirst(w, j) \/ Reclaim(w, j) \/ IssueLease(w, j)
      PROVE  RowsOK'
  <2>1. /\ Mint(w, j)
        /\ state[j] \in {"available"} \cup InFlight
        /\ generation[j] \in {0} \cup 1 .. (DispatchMaxGeneration - 1)
              \/ generation[j] < GenerationBound
    BY <1>1, Zenon DEF ClaimFirst, Reclaim, IssueLease, Reclaimable
  <2>a. generation[j] < GenerationBound /\ generation[j] \in 0 .. GenerationBound
    BY <2>1, ConstantsAssumption DEF JobTypes
  <2>2. ResumeState(j) \in {"running", "prepared", "ready", None}
    BY <2>1, Zenon DEF ResumeState, InFlight, JobTypes
  <2>3. JobTypes'
    BY <2>1, <2>2, <2>a, ConstantsAssumption
    DEF Mint, JobTypes, States, InFlight
  <2>4. WorkerOK'
    BY <2>1, <2>a, ConstantsAssumption
    DEF Mint, JobTypes, WorkerOK, WorkerTypes, WorkersHoldJobs, Open
  <2> QED
    BY <2>1, <2>3, <2>4, Frames, Zenon DEF Mint
<1>2. ASSUME NEW j \in Jobs, Expire(j) \/ BackoffElapses(j)
      PROVE  RowsOK'
  <2>1. JobTypes'
    BY <1>2, Zenon DEF Expire, BackoffElapses, JobTypes
  <2> QED
    BY <1>2, <2>1, Frames, Zenon DEF Expire, BackoffElapses
<1> QED
  BY <1>1, <1>2, Zenon DEF Claim, Time

\* The steps of `run` that change no row of the database and load nothing.
Quiet(w) ==
    \/ RedeemRejected(w) \/ ReadOrCompileRefused(w)
    \/ AwaitConcurrentPublication(w) \/ AcquireRejected(w) \/ GiveUpWaiting(w)
    \/ PrepareRejected(w) \/ ProviderUnavailable(w) \/ IndexRejected(w)
    \/ ActivateRejected(w) \/ FailRejected(w) \/ Crash(w)

\* They only move a worker.
LEMMA QuietSteps ==
  ASSUME NEW w \in Workers, Quiet(w)
  PROVE  /\ pc[w] # "idle"
         /\ UNCHANGED <<jobVars, recoveryVars, resourceVars, sourceVars>>
         /\ \/ Leave(w)
            \/ Goto(w, "failing")
            \/ Goto(w, "waiting") /\ AtAcquire(w)
  BY Zenon DEF Quiet, RedeemRejected, ReadOrCompileRefused,
         AwaitConcurrentPublication, AcquireRejected, GiveUpWaiting,
         PrepareRejected, ProviderUnavailable, IndexRejected, ActivateRejected,
         FailRejected, Crash, Rejected, AtAcquire

\* The calls of `run`, by what they write.
LEMMA WorkCases ==
  ASSUME NEW w \in Workers, Work(w) \/ Crash(w)
  PROVE  \/ Quiet(w) \/ Redeem(w) \/ ResumePublication(w)
         \/ \E c \in Contents : ReadAndCompile(w, c)
         \/ ObserveUnchanged(w) \/ StartPublication(w) \/ Prepare(w)
         \/ RefuseAcquired(w) \/ Index(w) \/ Activate(w) \/ Fail(w)
  BY Zenon DEF Work, Quiet

\* The calls of `run` keep the types.
LEMMA TypeWork ==
  ASSUME RowsOK, NEW w \in Workers, Work(w) \/ Crash(w)
  PROVE  RowsOK'
<1> USE DEF RowsOK
<1>a. /\ pc[w] # "idle" => /\ wJob[w] \in Jobs
                           /\ wGeneration[w] \in 1 .. GenerationBound
      /\ pc[w] \in Open => wRevision[w] \in Revisions
  BY Zenon DEF WorkerOK, WorkersHoldJobs
<1>b. ASSUME Leave(w) \/ Goto(w, "failing") \/ Goto(w, "waiting"),
             pc[w] # "idle"
      PROVE  WorkerOK'
  <2>1. CASE Leave(w)
    BY <2>1, ConstantsAssumption
    DEF Leave, WorkerOK, WorkerTypes, WorkersHoldJobs, Open
  <2>2. CASE Goto(w, "failing") \/ Goto(w, "waiting")
    BY <1>b, <2>2, Zenon DEF Goto, WorkerOK, WorkerTypes, WorkersHoldJobs, Open
  <2> QED
    BY <1>b, <2>1, <2>2, Zenon 
<1>1. CASE Redeem(w)
  <2>1. JobTypes'
    BY <1>1, <1>a, Zenon DEF Redeem, RedeemedState, JobTypes, States, InFlight
  <2>2. WorkerOK'
    BY <1>1, <1>a, Zenon
    DEF Redeem, Goto, WorkerOK, WorkerTypes, WorkersHoldJobs, Open
  <2> QED
    BY <1>1, <2>1, <2>2, Frames, Zenon DEF Redeem
<1>2. ASSUME NEW c \in Contents, ReadAndCompile(w, c)
      PROVE  RowsOK'
  <2>1. WorkerOK'
    BY <1>2, Zenon
    DEF ReadAndCompile, WorkerOK, WorkerTypes, WorkersHoldJobs, Open
  <2> QED
    BY <1>2, <2>1, Frames, Zenon DEF ReadAndCompile
<1>3. CASE ResumePublication(w)
  <2>1. wJob[w] \in Jobs /\ checkpoint[wJob[w]] \in Open
    BY <1>3, <1>a
    DEF ResumePublication, AtAcquire, Resumable, CheckpointOf, Open
  <2>2. recRevision[wJob[w]] \in Revisions
    BY <2>1, Zenon DEF RecoveryOK, RecoveryOwnsRevision, Revisions, Open
  <2>3. WorkerOK'
    BY <1>3, <1>a, <2>1, <2>2, Zenon
    DEF ResumePublication, AtAcquire, WorkerOK, WorkerTypes, WorkersHoldJobs,
        Open
  <2> QED
    BY <1>3, <2>3, Frames, Zenon DEF ResumePublication
<1>4. CASE ObserveUnchanged(w)
  <2>1. JobTypes'
    BY <1>4, <1>a, ConstantsAssumption, Zenon
    DEF ObserveUnchanged, AtAcquire, JobTypes, ResourceTypes, States, Terminal
  <2>2. WorkerOK'
    BY <1>4, <1>b, Zenon DEF ObserveUnchanged, AtAcquire
  <2> QED
    BY <1>4, <2>1, <2>2, Frames, Zenon DEF ObserveUnchanged
<1>5. CASE StartPublication(w)
  <2>1. wJob[w] \in Jobs /\ wGeneration[w] \in 1 .. GenerationBound
    BY <1>5, <1>a, Zenon DEF StartPublication, AtAcquire
  <2>2. /\ <<wJob[w], wGeneration[w]>> \in Revisions
        /\ <<wJob[w], wGeneration[w]>> \in {wJob[w]} \X (1 .. GenerationBound)
    BY <2>1, Zenon DEF Revisions
  <2>3. JobTypes'
    BY <1>5, <2>1, <2>2, Zenon DEF StartPublication, JobTypes
  <2>4. RecoveryOK'
    BY <1>5, <2>1, <2>2, ConstantsAssumption, ZenonT(60)
    DEF StartPublication, RecoveryOK, RecoveryTypes, RecoveryOwnsRevision, Open,
        ResourceTypes, WorkerOK, WorkerTypes
  <2>5. WorkerOK'
    BY <1>5, <1>a, <2>1, <2>2, Zenon
    DEF StartPublication, WorkerOK, WorkerTypes, WorkersHoldJobs, Open
  <2> QED
    BY <1>5, <2>3, <2>4, <2>5, Frames, Zenon DEF StartPublication
<1>6. CASE Prepare(w)
  <2>1. JobTypes'
    BY <1>6, <1>a, Zenon DEF Prepare, JobTypes, States, InFlight
  <2>2. RecoveryOK'
    BY <1>6, <1>a, Zenon
    DEF Prepare, Preparable, RecoveryOK, RecoveryTypes, RecoveryOwnsRevision,
        Open
  <2>3. ResourceTypes'
    BY <1>6, <1>a, Zenon
    DEF Prepare, ResourceTypes, RecoveryOK, RecoveryTypes, Open
  <2>4. WorkerOK'
    BY <1>6, <1>a, Zenon
    DEF Prepare, Goto, WorkerOK, WorkerTypes, WorkersHoldJobs, Open
  <2> QED
    BY <1>6, <2>1, <2>2, <2>3, <2>4, Frames, Zenon DEF Prepare
<1>7. CASE RefuseAcquired(w)
  <2>1. JobTypes'
    BY <1>7, <1>a, Zenon DEF RefuseAcquired, JobTypes, States, Terminal
  <2>2. WorkerOK'
    BY <1>7, <1>b, Zenon DEF RefuseAcquired
  <2> QED
    BY <1>7, <2>1, <2>2, Frames, Zenon DEF RefuseAcquired
<1>8. CASE Index(w)
  <2>1. JobTypes'
    BY <1>8, <1>a, Zenon DEF Index, JobTypes, States, InFlight
  <2>2. RecoveryOK'
    BY <1>8, <1>a, Zenon
    DEF Index, Indexable, RecoveryOK, RecoveryTypes, RecoveryOwnsRevision, Open
  <2>3. ResourceTypes'
    BY <1>8, <1>a, Zenon DEF Index, ResourceTypes, Open
  <2>4. WorkerOK'
    BY <1>8, <1>a, Zenon
    DEF Index, Goto, WorkerOK, WorkerTypes, WorkersHoldJobs, Open
  <2> QED
    BY <1>8, <2>1, <2>2, <2>3, <2>4, Frames, Zenon DEF Index
<1>9. CASE Activate(w)
  <2>1. JobTypes'
    BY <1>9, <1>a DEF Activate, JobTypes, States, Terminal
  <2>2. RecoveryOK'
    BY <1>9, <1>a, Zenon
    DEF Activate, Activatable, RecoveryOK, RecoveryTypes, RecoveryOwnsRevision,
        Open
  <2>3. ResourceTypes'
    BY <1>9, <1>a, Zenon DEF Activate, ResourceTypes, Open
  <2>a. Leave(w) /\ pc[w] # "idle"
    BY <1>9, Zenon DEF Activate
  <2>4. WorkerOK'
    BY <1>b, <2>a, Zenon 
  <2> QED
    BY <1>9, <2>1, <2>2, <2>3, <2>4, Frames, Zenon DEF Activate
<1>10. CASE Fail(w)
  <2>1. JobTypes'
    BY <1>10, <1>a, Zenon DEF Fail, JobTypes, States, Terminal
  <2>2. WorkerOK'
    BY <1>10, <1>b, Zenon DEF Fail
  <2> QED
    BY <1>10, <2>1, <2>2, Frames, Zenon DEF Fail
<1>11. CASE Quiet(w)
  <2>1. WorkerOK'
    BY <1>11, <1>b, QuietSteps, Zenon 
  <2> QED
    BY <1>11, <2>1, QuietSteps, Frames, Zenon 
<1> QED
  BY <1>1, <1>2, <1>3, <1>4, <1>5, <1>6, <1>7, <1>8, <1>9, <1>10, <1>11,
     WorkCases, Zenon 

\* The Boolean columns stay Boolean.
LEMMA FlagsStep ==
  ASSUME FlagTypes, [Next]_vars
  PROVE  FlagTypes'
<1> USE DEF FlagTypes
<1>1. CASE UNCHANGED vars
  BY <1>1, Zenon DEF vars, jobVars, resourceVars, sourceVars
<1>2. CASE Control
  <2>1. ASSUME UNCHANGED <<dispatchClaimed, tombstoned, sourceActive>>,
               membership' \in {membership, FALSE}
        PROVE  FlagTypes'
    BY <2>1, Zenon 
  <2>2. CASE \E j \in Jobs : \E c \in Contents \cup {None} :
                PrepareFileImport(j, c) \/ ScheduleChange(j, c)
    BY <2>1, <2>2, Zenon
    DEF PrepareFileImport, ScheduleChange, resourceVars, sourceVars
  <2>3. CASE AcceptInitialPage \/ MembershipEnds
    BY <2>1, <2>3, Zenon
    DEF AcceptInitialPage, MembershipEnds, jobVars, resourceVars
  <2>4. CASE \E r \in Resources : RevokeResourceAccess(r) \/ Tombstone(r)
    BY <2>4, Zenon DEF RevokeResourceAccess, Tombstone, jobVars, sourceVars
  <2>5. CASE Offboard
    BY <2>5, Zenon DEF Offboard, resourceVars
  <2> QED
    BY <1>2, <2>2, <2>3, <2>4, <2>5, Zenon DEF Control
<1>3. ASSUME NEW w \in Workers, NEW j \in Jobs,
             ClaimFirst(w, j) \/ Reclaim(w, j) \/ IssueLease(w, j)
      PROVE  FlagTypes'
  BY <1>3, Zenon
  DEF ClaimFirst, Reclaim, IssueLease, Mint, resourceVars, sourceVars
<1>4. CASE Time
  BY <1>4, Zenon DEF Time, Expire, BackoffElapses, resourceVars, sourceVars
<1>5. ASSUME NEW w \in Workers, Work(w) \/ Crash(w)
      PROVE  UNCHANGED <<dispatchClaimed, tombstoned, sourceActive, membership>>
  <2>1. CASE Quiet(w)
    BY <2>1, QuietSteps, Zenon DEF jobVars, resourceVars, sourceVars
  <2>2. CASE Redeem(w)
    BY <2>2, Zenon DEF Redeem, resourceVars, sourceVars
  <2>3. CASE ResumePublication(w)
    BY <2>3, Zenon DEF ResumePublication, jobVars, resourceVars, sourceVars
  <2>4. CASE ObserveUnchanged(w)
    BY <2>4, Zenon DEF ObserveUnchanged, resourceVars, sourceVars
  <2>5. CASE \E c \in Contents : ReadAndCompile(w, c)
    BY <2>5, Zenon DEF ReadAndCompile, jobVars, resourceVars, sourceVars
  <2>6. CASE StartPublication(w)
    BY <2>6, Zenon DEF StartPublication, resourceVars, sourceVars
  <2>7. CASE RefuseAcquired(w) \/ Fail(w)
    BY <2>7, Zenon DEF RefuseAcquired, Fail, resourceVars, sourceVars
  <2>8. CASE Prepare(w)
    BY <2>8, Zenon DEF Prepare, sourceVars
  <2>9. CASE Index(w)
    BY <2>9, Zenon DEF Index, sourceVars
  <2>10. CASE Activate(w)
    BY <2>10, Zenon DEF Activate, sourceVars
  <2> QED
    BY <1>5, <2>1, <2>2, <2>3, <2>4, <2>5, <2>6, <2>7, <2>8, <2>9, <2>10,
       WorkCases, Zenon 
<1> QED
  BY <1>1, <1>2, <1>3, <1>4, <1>5, Zenon DEF Next, Claim

\* Every operation keeps the types.
LEMMA TypeStep == TypeInv /\ [Next]_vars => TypeInv'
<1> SUFFICES ASSUME TypeInv, [Next]_vars
             PROVE  RowsOK'
  BY FlagsStep, Zenon DEF TypeInv
<1>1. CASE UNCHANGED vars
  BY <1>1, Frames, Zenon DEF vars, TypeInv, RowsOK
<1>2. CASE Next
  BY <1>2, TypeControl, TypeLeases, TypeWork, Zenon DEF Next, TypeInv
<1> QED
  BY <1>1, <1>2, Zenon 

\* The columns, rows and program counters keep their types, and no worker acts
\* without a job or publishes without the Revision it was answered.
THEOREM TypeCorrectness == Spec => []TypeInv
  BY TypeInit, TypeStep, PTL DEF Spec

\* Every column of a job, recovery row, Resource and Source, and every local of
\* a worker, stays in its declared domain under all the operations.
THEOREM TypeOKHolds == Spec => []TypeOK
<1>1. TypeInv => TypeOK
  BY Zenon DEF TypeInv, RowsOK, RecoveryOK, WorkerOK, EpochOK, TypeOK
<1> QED
  BY <1>1, TypeCorrectness, PTL

-----------------------------------------------------------------------------
(* The job row and the recovery row.                                       *)

USE DEF jobVars, recoveryVars, resourceVars, sourceVars, workerVars

-----------------------------------------------------------------------------
(* Which steps touch the publication state.                                *)

\* Only these steps write a recovery row or move an active Revision.
LEMMA PublicationSteps ==
  ASSUME [Next]_vars
  PROVE  \/ UNCHANGED <<recoveryVars, activeRevision, published, snapshot,
                        effectCount>>
         \/ \E w \in Workers : \/ StartPublication(w)
                               \/ Prepare(w)
                               \/ Index(w)
                               \/ Activate(w)
<1>1. CASE UNCHANGED vars
  BY <1>1, Zenon DEF vars
<1>2. CASE Control
  BY <1>2, Zenon
  DEF Control, PrepareFileImport, ScheduleChange, AcceptInitialPage,
              MembershipEnds, RevokeResourceAccess, Tombstone, Offboard
<1>3. CASE \/ Claim
           \/ \E w \in Workers, j \in Jobs : IssueLease(w, j)
  BY <1>3 DEF Claim, ClaimFirst, Reclaim, IssueLease, Mint
<1>4. CASE Time
  BY <1>4, Zenon DEF Time, Expire, BackoffElapses
<1>5. ASSUME NEW w \in Workers, Work(w) \/ Crash(w)
      PROVE  \/ UNCHANGED <<recoveryVars, activeRevision, published, snapshot,
                            effectCount>>
             \/ StartPublication(w) \/ Prepare(w) \/ Index(w) \/ Activate(w)
  BY <1>5, WorkCases, QuietSteps, Zenon
  DEF Redeem, ReadAndCompile, ResumePublication, ObserveUnchanged,
      RefuseAcquired, Fail
<1> QED
  BY <1>1, <1>2, <1>3, <1>4, <1>5, Zenon DEF Next

-----------------------------------------------------------------------------
(* Exclusive publication, and no lost update.                              *)

PublicationInv == TypeInv /\ OneOpenRecovery /\ RecoveryBaseIsActive

\* No recovery row exists at first.
LEMMA PublicationInit == Init => PublicationInv
  BY TypeInit
  DEF Init, PublicationInv, OneOpenRecovery, RecoveryBaseIsActive, Open

\* Every operation keeps an unfinished publication exclusive and its base active.
LEMMA PublicationStep == PublicationInv /\ [Next]_vars => PublicationInv'
<1> SUFFICES ASSUME PublicationInv, [Next]_vars
             PROVE  PublicationInv'
  OBVIOUS
<1> USE DEF PublicationInv, OneOpenRecovery, RecoveryBaseIsActive, Open
<1>0. TypeInv'
  BY TypeStep, Zenon 
<1>t. RecoveryTypes /\ ResourceTypes /\ WorkersHoldJobs
  BY Zenon DEF TypeInv, RowsOK, RecoveryOK, WorkerOK
<1>1. CASE UNCHANGED <<recoveryVars, activeRevision, published, snapshot,
                       effectCount>>
  BY <1>0, <1>1, Zenon 
<1>2. ASSUME NEW w \in Workers, StartPublication(w)
      PROVE  PublicationInv'
  <2>1. wJob[w] \in Jobs
    BY <1>2, <1>t, Zenon DEF StartPublication, AtAcquire, WorkersHoldJobs
  <2>2. /\ checkpoint' = [checkpoint EXCEPT ![wJob[w]] = "acquired"]
        /\ recPrevious' =
              [recPrevious EXCEPT
                  ![wJob[w]] = activeRevision[ResourceOf[wJob[w]]]]
        /\ UNCHANGED activeRevision
        /\ \A k \in Jobs \ {wJob[w]} :
              ~(ResourceOf[k] = ResourceOf[wJob[w]] /\ checkpoint[k] \in Open)
    BY <1>2, Zenon DEF StartPublication, Contended, Blockers
  <2> QED
    BY <1>0, <1>t, <2>1, <2>2, Zenon DEF RecoveryTypes
<1>3. ASSUME NEW w \in Workers, Prepare(w) \/ Index(w)
      PROVE  PublicationInv'
  <2>1. wJob[w] \in Jobs
    BY <1>3, <1>t, Zenon DEF Prepare, Index, WorkersHoldJobs
  <2>2. /\ checkpoint[wJob[w]] \in Open
        /\ \E c \in Open : checkpoint' = [checkpoint EXCEPT ![wJob[w]] = c]
        /\ UNCHANGED <<recPrevious, activeRevision>>
    BY <1>3, Zenon DEF Prepare, Preparable, Index, Indexable
  <2> QED
    BY <1>0, <1>t, <2>1, <2>2, Zenon DEF RecoveryTypes
<1>4. ASSUME NEW w \in Workers, Activate(w)
      PROVE  PublicationInv'
  <2>1. wJob[w] \in Jobs
    BY <1>4, <1>t, Zenon DEF Activate, WorkersHoldJobs
  <2>2. /\ checkpoint[wJob[w]] \in Open
        /\ checkpoint' = [checkpoint EXCEPT ![wJob[w]] = "completed"]
        /\ UNCHANGED recPrevious
        /\ activeRevision' =
              [activeRevision EXCEPT ![ResourceOf[wJob[w]]] = wRevision[w]]
    BY <1>4, Zenon DEF Activate, Activatable
  <2> QED
    BY <1>0, <1>t, <2>1, <2>2, ConstantsAssumption
    DEF RecoveryTypes, ResourceTypes
<1> QED
  BY <1>1, <1>2, <1>3, <1>4, PublicationSteps, Zenon 

\* The inductive invariant of the publication protocol: exclusion of other jobs
\* and an unmoved base, under every interleaving of run's database calls.
THEOREM PublicationCorrectness == Spec => []PublicationInv
  BY PublicationInit, PublicationStep, PTL DEF Spec

\* Two jobs never publish to one Resource at a time, whatever the number of
\* workers, crashes and lease generations.
THEOREM ExclusivePublication == Spec => []OneOpenRecovery
  BY PublicationCorrectness, PTL DEF PublicationInv

\* The active Revision an unfinished publication was acquired against is still
\* the active Revision of its Resource: no publication is lost or overwritten.
THEOREM NoLostUpdate == Spec => []RecoveryBaseIsActive
  BY PublicationCorrectness, PTL DEF PublicationInv

-----------------------------------------------------------------------------
(* The job row and its recovery row.                                       *)

\* A job that was never claimed has left no trace of a publication.
UnclaimedIsUntouched ==
    \A j \in Jobs :
        state[j] \in {"absent", "available"} =>
            checkpoint[j] = "none" /\ revisionId[j] = None

JobInv == PublicationInv /\ RecoveryMatchesJob /\ UnclaimedIsUntouched

\* No job exists at first.
LEMMA JobInit == Init => JobInv
  BY PublicationInit
  DEF Init, JobInv, RecoveryMatchesJob, UnclaimedIsUntouched, DurableState

\* Control, claims and the clock keep job and recovery rows in step.
LEMMA JobLeases ==
  ASSUME JobInv,
         \/ Control
         \/ Claim
         \/ Time
         \/ \E w \in Workers, j \in Jobs : IssueLease(w, j)
  PROVE  (RecoveryMatchesJob /\ UnclaimedIsUntouched)'
<1> USE ConstantsAssumption
    DEF JobInv, RecoveryMatchesJob, UnclaimedIsUntouched, DurableState
<1>0. JobTypes
  BY Zenon DEF PublicationInv, TypeInv, RowsOK
<1>1. ASSUME NEW w \in Workers, NEW j \in Jobs, Mint(w, j),
             state[j] \in {"available"} \cup InFlight
      PROVE  (RecoveryMatchesJob /\ UnclaimedIsUntouched)'
  BY <1>0, <1>1 DEF Mint, ResumeState, InFlight, JobTypes
<1>2. ASSUME NEW w \in Workers, NEW j \in Jobs,
             ClaimFirst(w, j) \/ Reclaim(w, j) \/ IssueLease(w, j)
      PROVE  (RecoveryMatchesJob /\ UnclaimedIsUntouched)'
  <2>1. Mint(w, j) /\ state[j] \in {"available"} \cup InFlight
    BY <1>2, Zenon DEF ClaimFirst, Reclaim, IssueLease
  <2> QED
    BY <1>1, <2>1, Zenon 
<1>3. ASSUME NEW j \in Jobs, Expire(j) \/ BackoffElapses(j)
      PROVE  (RecoveryMatchesJob /\ UnclaimedIsUntouched)'
  BY <1>3 DEF Expire, BackoffElapses
<1>4. ASSUME NEW j \in Jobs,
             \/ \E c \in Contents \cup {None} : PrepareFileImport(j, c)
             \/ \E c \in Contents : ScheduleChange(j, c)
      PROVE  (RecoveryMatchesJob /\ UnclaimedIsUntouched)'
  BY <1>0, <1>4 DEF PrepareFileImport, ScheduleChange, JobTypes
<1>5. CASE \/ AcceptInitialPage
           \/ MembershipEnds
           \/ \E r \in Resources : RevokeResourceAccess(r) \/ Tombstone(r)
  BY <1>5 DEF AcceptInitialPage, MembershipEnds, RevokeResourceAccess, Tombstone
<1>6. CASE Offboard
  BY <1>0, <1>6, ZenonT(60) DEF Offboard, Cancellable, InFlight, JobTypes
<1> QED
  BY <1>2, <1>3, <1>4, <1>5, <1>6, Zenon DEF Control, Claim, Time

\* The calls of `run` keep job and recovery rows in step.
LEMMA JobWork ==
  ASSUME JobInv, NEW w \in Workers, Work(w) \/ Crash(w)
  PROVE  (RecoveryMatchesJob /\ UnclaimedIsUntouched)'
<1> USE ConstantsAssumption
    DEF JobInv, RecoveryMatchesJob, UnclaimedIsUntouched, DurableState
<1>0. JobTypes /\ RecoveryTypes /\ ResourceTypes /\ RecoveryOwnsRevision
  BY Zenon DEF PublicationInv, TypeInv, RowsOK, RecoveryOK
<1>a. pc[w] # "idle" => wJob[w] \in Jobs /\ wGeneration[w] \in 1 .. GenerationBound
  BY Zenon DEF PublicationInv, TypeInv, RowsOK, WorkerOK, WorkersHoldJobs
<1>1. CASE Redeem(w)
  BY <1>0, <1>a, <1>1, SMTT(60) DEF Redeem, Redeemable, RedeemedState, JobTypes
<1>2. CASE ObserveUnchanged(w)
  BY <1>0, <1>a, <1>2, SMTT(60) DEF ObserveUnchanged, AtAcquire, Fresh, JobTypes
<1>3. CASE StartPublication(w)
  BY <1>0, <1>a, <1>3, SMTT(60)
  DEF StartPublication, AtAcquire, Fresh, JobTypes, RecoveryTypes
<1>4. CASE Prepare(w)
  <2>1. \A k \in Jobs : k # wJob[w] /\ checkpoint[k] # "none" =>
                           recRevision[k] # wRevision[w]
    BY <1>0, <1>a, <1>4, SMTT(60) DEF Prepare, Preparable, RecoveryOwnsRevision
  <2> QED
    BY <1>0, <1>a, <1>4, <2>1, SMTT(60)
    DEF Prepare, Preparable, JobTypes, RecoveryTypes, ResourceTypes,
        RecoveryOwnsRevision, Revisions
<1>5. CASE RefuseAcquired(w)
  BY <1>0, <1>a, <1>5, SMTT(60) DEF RefuseAcquired, Refusable, JobTypes
<1>6. CASE Index(w)
  <2>1. \A k \in Jobs : k # wJob[w] /\ checkpoint[k] # "none" =>
                           recRevision[k] # wRevision[w]
    BY <1>0, <1>a, <1>6, SMTT(60) DEF Index, Indexable, RecoveryOwnsRevision
  <2> QED
    BY <1>0, <1>a, <1>6, <2>1, SMTT(60)
    DEF Index, Indexable, JobTypes, RecoveryTypes, ResourceTypes,
        RecoveryOwnsRevision, Revisions
<1>7. CASE Activate(w)
  <2>1. \A k \in Jobs : k # wJob[w] /\ checkpoint[k] # "none" =>
                           recRevision[k] # wRevision[w]
    BY <1>0, <1>a, <1>7, SMTT(60) DEF Activate, Activatable, RecoveryOwnsRevision
  <2> QED
    BY <1>0, <1>a, <1>7, <2>1, SMTT(60)
    DEF Activate, Activatable, JobTypes, RecoveryTypes, ResourceTypes,
        RecoveryOwnsRevision, Revisions
<1>8. CASE Fail(w)
  BY <1>0, <1>a, <1>8 DEF Fail, Sealable, Fresh, JobTypes
<1>9. CASE UNCHANGED <<jobVars, recoveryVars, resourceVars, sourceVars>>
  BY <1>9
<1> QED
  BY <1>1, <1>2, <1>3, <1>4, <1>5, <1>6, <1>7, <1>8, <1>9,
     WorkCases, QuietSteps, ZenonT(60)
  DEF ReadAndCompile, ResumePublication

\* Every operation keeps job and recovery rows in step.
LEMMA JobStep == JobInv /\ [Next]_vars => JobInv'
<1> SUFFICES ASSUME JobInv, [Next]_vars
             PROVE  JobInv'
  OBVIOUS
<1>1. PublicationInv'
  BY PublicationStep, Zenon DEF JobInv
<1>2. CASE UNCHANGED vars
  BY <1>1, <1>2
  DEF vars, JobInv, RecoveryMatchesJob, UnclaimedIsUntouched, DurableState
<1>3. CASE Next
  BY <1>1, <1>3, JobLeases, JobWork, Zenon DEF Next, JobInv
<1> QED
  BY <1>2, <1>3, Zenon 

\* The job row (`state`, `recovery_from`) and the recovery row move in step, so
\* the invariant of the publication protocol extends to the job table.
THEOREM JobCorrectness == Spec => []JobInv
  BY JobInit, JobStep, PTL DEF Spec

\* After every commit the job row and its recovery row agree, so the next lease
\* generation can resume the publication from wherever it stopped.
THEOREM RecoveryAgrees == Spec => []RecoveryMatchesJob
  BY JobCorrectness, PTL DEF JobInv

\* An interrupted publication of `_publish` can be resumed by its job alone and
\* against the Revision it was acquired for, however many workers, rival jobs,
\* crashes and lease generations there are.
THEOREM SoundRecovery == Spec => []RecoveryIsSound
  BY ExclusivePublication, NoLostUpdate, RecoveryAgrees, PTL DEF RecoveryIsSound

-----------------------------------------------------------------------------
(* What readers see, and finished jobs.                                    *)

USE DEF jobVars, recoveryVars, resourceVars, sourceVars, workerVars

\* The content a worker has loaded, and the content of a recovery row, is the
\* content the job was scheduled for; a job that a worker holds exists.
ContentIsExpected ==
    /\ \A w \in Workers :
          /\ pc[w] # "idle" => state[wJob[w]] # "absent"
          /\ pc[w] \in {"loaded", "waiting"} =>
                expected[wJob[w]] \in {None, wContent[w]}
    /\ \A j \in Jobs :
          checkpoint[j] # "none" => expected[j] \in {None, recContent[j]}

ContentInv == JobInv /\ ContentIsExpected

\* Nothing has been read at first.
LEMMA ContentInit == Init => ContentInv
  BY JobInit DEF Init, ContentInv, ContentIsExpected

\* Contents read, recorded and observed stay those of the job.
LEMMA ContentStep == ContentInv /\ [Next]_vars => ContentInv'
<1> SUFFICES ASSUME ContentInv, [Next]_vars
             PROVE  ContentIsExpected'
  BY JobStep, Zenon DEF ContentInv
<1> USE DEF ContentIsExpected
<1>0. /\ JobTypes /\ RecoveryTypes /\ WorkerTypes
      /\ WorkersHoldJobs /\ UnclaimedIsUntouched /\ ContentIsExpected
  BY Zenon
  DEF ContentInv, JobInv, PublicationInv, TypeInv, RowsOK, RecoveryOK, WorkerOK
<1>1. CASE UNCHANGED vars
  BY <1>0, <1>1, Zenon DEF vars
<1>2. ASSUME NEW j \in Jobs,
             \/ \E c \in Contents \cup {None} : PrepareFileImport(j, c)
             \/ \E c \in Contents : ScheduleChange(j, c)
      PROVE  ContentIsExpected'
  BY <1>0, <1>2
  DEF PrepareFileImport, ScheduleChange, JobTypes, WorkersHoldJobs,
      UnclaimedIsUntouched
<1>3. CASE \/ AcceptInitialPage
           \/ MembershipEnds
           \/ \E r \in Resources : RevokeResourceAccess(r) \/ Tombstone(r)
           \/ Time
  BY <1>0, <1>3, Zenon
  DEF AcceptInitialPage, MembershipEnds, RevokeResourceAccess, Tombstone, Time,
      Expire, BackoffElapses
<1>4. CASE Offboard
  BY <1>0, <1>4, Zenon
  DEF Offboard, Cancellable, InFlight, JobTypes, WorkersHoldJobs
<1>5. ASSUME NEW w \in Workers, NEW j \in Jobs,
             ClaimFirst(w, j) \/ Reclaim(w, j) \/ IssueLease(w, j)
      PROVE  ContentIsExpected'
  <2>1. Mint(w, j)
    BY <1>5, Zenon DEF ClaimFirst, Reclaim, IssueLease
  <2> QED
    BY <1>0, <2>1, ZenonT(60) DEF Mint, JobTypes, WorkerTypes, WorkersHoldJobs
<1>6. ASSUME NEW w \in Workers, Work(w) \/ Crash(w)
      PROVE  ContentIsExpected'
  <2>1. pc[w] # "idle" => wJob[w] \in Jobs
    BY <1>0, Zenon DEF WorkersHoldJobs
  <2>2. CASE Redeem(w)
    BY <1>0, <2>1, <2>2, ConstantsAssumption
    DEF Redeem, RedeemedState, Goto, JobTypes, RecoveryTypes, WorkerTypes,
        WorkersHoldJobs
  <2>3. ASSUME NEW c \in Contents, ReadAndCompile(w, c)
        PROVE  ContentIsExpected'
    BY <1>0, <2>1, <2>3, Zenon DEF ReadAndCompile, AsObserved, WorkerTypes
  <2>4. CASE ResumePublication(w)
    BY <1>0, <2>1, <2>4, ZenonT(60)
    DEF ResumePublication, Resumable, AtAcquire, CheckpointOf, WorkerTypes
  <2>5. CASE ObserveUnchanged(w)
    BY <1>0, <2>1, <2>5
    DEF ObserveUnchanged, AtAcquire, Leave, JobTypes, RecoveryTypes, WorkerTypes,
        WorkersHoldJobs
  <2>6. CASE StartPublication(w)
    BY <1>0, <2>1, <2>6, ZenonT(60)
    DEF StartPublication, AtAcquire, Fresh, RecoveryTypes, WorkerTypes,
        WorkersHoldJobs
  <2>7. CASE Prepare(w) \/ Index(w)
    BY <1>0, <2>1, <2>7, SMTT(60)
    DEF Prepare, Preparable, Index, Indexable, Goto, JobTypes, RecoveryTypes, WorkerTypes,
        WorkersHoldJobs
  <2>8. CASE RefuseAcquired(w)
    BY <1>0, <2>1, <2>8, SMTT(60)
    DEF RefuseAcquired, Goto, JobTypes, WorkerTypes, WorkersHoldJobs
  <2>9. CASE Activate(w)
    BY <1>0, <2>1, <2>9
    DEF Activate, Activatable, Leave, JobTypes, RecoveryTypes, WorkerTypes,
        WorkersHoldJobs
  <2>10. CASE Fail(w)
    BY <1>0, <2>1, <2>10 DEF Fail, Leave, JobTypes, RecoveryTypes, WorkerTypes,
        WorkersHoldJobs
  <2>11. CASE AwaitConcurrentPublication(w)
    BY <1>0, <2>1, <2>11, ZenonT(60)
    DEF AwaitConcurrentPublication, AtAcquire, Goto, WorkerTypes
  <2>12. CASE Crash(w) \/ RedeemRejected(w) \/ ProviderUnavailable(w)
              \/ FailRejected(w)
    BY <1>0, <2>12
    DEF Crash, RedeemRejected, ProviderUnavailable, FailRejected, Leave, WorkerTypes
  <2>13. CASE \/ ReadOrCompileRefused(w) \/ AcquireRejected(w)
              \/ GiveUpWaiting(w) \/ PrepareRejected(w) \/ IndexRejected(w)
              \/ ActivateRejected(w)
    BY <1>0, <2>1, <2>13, ZenonT(60)
    DEF ReadOrCompileRefused, AcquireRejected, GiveUpWaiting, PrepareRejected,
        IndexRejected, ActivateRejected, Rejected, AtAcquire, Goto, WorkerTypes
  <2> QED
    BY <1>6, <2>2, <2>3, <2>4, <2>5, <2>6, <2>7, <2>8, <2>9, <2>10, <2>11,
       <2>12, <2>13, Zenon
    DEF Work
<1> QED
  BY <1>1, <1>2, <1>3, <1>4, <1>5, <1>6, Zenon DEF Next, Control, Claim

\* A finished job, and its recovery row, are never written again.
LEMMA FinishedIsFrozen ==
  ASSUME TypeInv, [Next]_vars, NEW j \in Jobs, state[j] \in Terminal
  PROVE  /\ state'[j] = state[j]
         /\ revisionId'[j] = revisionId[j]
         /\ effectCount'[j] = effectCount[j]
         /\ expected'[j] = expected[j]
         /\ checkpoint'[j] = checkpoint[j]
         /\ recRevision'[j] = recRevision[j]
         /\ recContent'[j] = recContent[j]
<1> USE DEF Terminal
<1>0. JobTypes /\ RecoveryTypes
  BY Zenon DEF TypeInv, RowsOK, RecoveryOK
<1>1. CASE UNCHANGED vars
  BY <1>1, Zenon DEF vars
<1>2. CASE Control
  <2>1. CASE \E k \in Jobs : \E c \in Contents \cup {None} :
                PrepareFileImport(k, c) \/ ScheduleChange(k, c)
    BY <1>0, <2>1 DEF PrepareFileImport, ScheduleChange, JobTypes
  <2>2. CASE \/ AcceptInitialPage \/ MembershipEnds
             \/ \E r \in Resources : RevokeResourceAccess(r) \/ Tombstone(r)
    BY <2>2, Zenon
    DEF AcceptInitialPage, MembershipEnds, RevokeResourceAccess, Tombstone
  <2>3. CASE Offboard
    BY <2>3, Zenon DEF Offboard, Cancellable, InFlight
  <2> QED
    BY <1>2, <2>1, <2>2, <2>3, Zenon DEF Control
<1>3. CASE \/ Claim
           \/ \E w \in Workers, k \in Jobs : IssueLease(w, k)
  <2>1. PICK w \in Workers, k \in Jobs : Mint(w, k) /\ k # j
    BY <1>3, Zenon DEF Claim, ClaimFirst, Reclaim, IssueLease, InFlight
  <2> QED
    BY <1>0, <2>1, Zenon DEF Mint, JobTypes
<1>4. CASE Time
  BY <1>4, Zenon DEF Time, Expire, BackoffElapses
<1>5. ASSUME NEW w \in Workers, Work(w) \/ Crash(w)
      PROVE  /\ state'[j] = state[j]
             /\ revisionId'[j] = revisionId[j]
             /\ effectCount'[j] = effectCount[j]
             /\ expected'[j] = expected[j]
             /\ checkpoint'[j] = checkpoint[j]
             /\ recRevision'[j] = recRevision[j]
             /\ recContent'[j] = recContent[j]
  <2>1. CASE Redeem(w) \/ ObserveUnchanged(w) \/ Fail(w)
    BY <1>0, <2>1, Zenon
    DEF Redeem, Redeemable, ObserveUnchanged, Fresh, Fail,
                      Sealable, JobTypes
  <2>2. CASE StartPublication(w)
    BY <1>0, <2>2, ZenonT(60) DEF StartPublication, Fresh, JobTypes, RecoveryTypes
  <2>3. CASE Prepare(w) \/ RefuseAcquired(w)
    BY <1>0, <2>3
    DEF Prepare, Preparable, RefuseAcquired, Refusable, JobTypes,
                      RecoveryTypes
  <2>4. CASE Index(w) \/ Activate(w)
    BY <1>0, <2>4, ZenonT(60)
    DEF Index, Indexable, Activate, Activatable, JobTypes,
                      RecoveryTypes
  <2>5. CASE UNCHANGED <<jobVars, recoveryVars>>
    BY <2>5, Zenon 
  <2> QED
    BY <1>5, <2>1, <2>2, <2>3, <2>4, <2>5, WorkCases, QuietSteps, Zenon
    DEF ReadAndCompile, ResumePublication
<1> QED
  BY <1>1, <1>2, <1>3, <1>4, <1>5, Zenon DEF Next

\* A job ends once: completed, failed and cancelled are never left.
THEOREM JobsEndOnce == Spec => EndsAreFinal
<1>1. TypeInv /\ [Next]_vars =>
         [\A j \in Jobs :
             state[j] \in Terminal => /\ state'[j] = state[j]
                                      /\ revisionId'[j] = revisionId[j]
                                      /\ effectCount'[j] = effectCount[j]]_vars
  BY FinishedIsFrozen, Zenon 
<1> QED
  BY <1>1, TypeCorrectness, PTL DEF Spec, EndsAreFinal

ReaderInv == ContentInv /\ ActiveRevisionIsWhole

\* No Revision is active at first.
LEMMA ReaderInit == Init => ReaderInv
  BY ContentInit DEF Init, ReaderInv, ActiveRevisionIsWhole

\* Only activation changes what readers see.
LEMMA ReaderStep == ReaderInv /\ [Next]_vars => ReaderInv'
<1> SUFFICES ASSUME ReaderInv, [Next]_vars,
                    NEW r \in Resources, activeRevision'[r] # None
             PROVE  LET revision == activeRevision'[r]
                        j == revision[1] IN
                    /\ published'[revision] = "active"
                    /\ ResourceOf[j] = r
                    /\ state'[j] = "completed"
                    /\ effectCount'[j] = 1
                    /\ revisionId'[j] = revision
                    /\ snapshot'[revision] = recContent'[j]
                    /\ expected'[j] \in {None, snapshot'[revision]}
  BY ContentStep, Zenon DEF ReaderInv, ActiveRevisionIsWhole
<1> DEFINE revision == activeRevision'[r]
           j == revision[1]
<1>0. /\ TypeInv /\ JobTypes /\ ResourceTypes
      /\ WorkersHoldJobs /\ RecoveryOwnsRevision
  BY Zenon DEF ReaderInv, ContentInv, JobInv, PublicationInv, TypeInv, RowsOK,
         RecoveryOK, WorkerOK
<1>1. ResourceTypes'
  BY <1>0, TypeStep, Zenon DEF TypeInv, RowsOK
<1>2. revision \in Revisions /\ j \in Jobs
  BY <1>1, Zenon DEF ResourceTypes, Revisions
<1>3. CASE activeRevision'[r] = activeRevision[r]
  <2>1. /\ published[revision] = "active"
        /\ ResourceOf[j] = r
        /\ state[j] = "completed"
        /\ effectCount[j] = 1
        /\ revisionId[j] = revision
        /\ snapshot[revision] = recContent[j]
        /\ expected[j] \in {None, snapshot[revision]}
    BY <1>3 DEF ReaderInv, ActiveRevisionIsWhole
  <2>2. /\ state'[j] = state[j]
        /\ revisionId'[j] = revisionId[j]
        /\ effectCount'[j] = effectCount[j]
        /\ expected'[j] = expected[j]
        /\ recContent'[j] = recContent[j]
    BY <1>0, <1>2, <2>1, FinishedIsFrozen, Zenon DEF Terminal
  <2>3. /\ published'[revision] = published[revision]
        /\ snapshot'[revision] = snapshot[revision]
    <3>1. ASSUME NEW w \in Workers, Prepare(w) \/ Index(w) \/ Activate(w)
          PROVE  /\ wRevision[w] # revision
                 /\ wRevision[w] \in Revisions
      <4>1. /\ pc[w] \in Open
            /\ state[wJob[w]] # "completed"
            /\ recRevision[wJob[w]] = wRevision[w]
            /\ checkpoint[wJob[w]] # "none"
        BY <3>1, Zenon DEF Prepare, Preparable, Index, Indexable, Activate,
                    Activatable, Open
      <4>2. wJob[w] \in Jobs /\ wRevision[w] \in Revisions
        BY <1>0, <4>1, Zenon DEF WorkersHoldJobs, Open
      <4> QED
        BY <1>0, <2>1, <4>1, <4>2, ZenonT(60) DEF RecoveryOwnsRevision
    <3>2. ASSUME NEW w \in Workers, Prepare(w) \/ Index(w) \/ Activate(w)
          PROVE  /\ published'[revision] = published[revision]
                 /\ snapshot'[revision] = snapshot[revision]
      BY <1>0, <1>2, <3>1, <3>2, Zenon
      DEF Prepare, Index, Activate, ResourceTypes
    <3> QED
      BY <3>2, PublicationSteps, Zenon DEF StartPublication
  <2> QED
    BY <2>1, <2>2, <2>3, Zenon 
<1>4. CASE activeRevision'[r] # activeRevision[r]
  <2>1. PICK w \in Workers : Activate(w)
    BY <1>4, PublicationSteps, Zenon DEF StartPublication, Prepare, Index
  <2>2. wJob[w] \in Jobs /\ ResourceOf[wJob[w]] \in Resources
    BY <1>0, <2>1, ConstantsAssumption, Zenon DEF Activate, WorkersHoldJobs
  <2>3. ResourceOf[wJob[w]] = r /\ revision = wRevision[w]
    BY <1>0, <1>4, <2>1, <2>2, Zenon DEF Activate, ResourceTypes
  <2>4. /\ wRevision[w] = recRevision[wJob[w]]
        /\ checkpoint[wJob[w]] = "ready"
        /\ state[wJob[w]] = "ready"
        /\ revisionId[wJob[w]] = wRevision[w]
    BY <2>1, Zenon DEF Activate, Activatable
  <2>5. j = wJob[w]
    BY <1>0, <2>2, <2>3, <2>4, Zenon DEF RecoveryOwnsRevision
  <2>6. snapshot[revision] = recContent[j] /\ expected[j] \in {None, recContent[j]}
    BY <2>2, <2>3, <2>4, <2>5
    DEF ReaderInv, ContentInv, ContentIsExpected, JobInv, RecoveryMatchesJob,
        DurableState
  <2> QED
    BY <1>0, <1>2, <2>1, <2>2, <2>3, <2>4, <2>5, <2>6, Zenon
    DEF Activate, JobTypes, ResourceTypes
<1> QED
  BY <1>3, <1>4, Zenon 

\* The strengthening under which activation exposes nothing but what `_publish`
\* prepared and indexed for the job's own content.
THEOREM ReaderCorrectness == Spec => []ReaderInv
  BY ReaderInit, ReaderStep, PTL DEF Spec

\* Readers see whole publications only: an active Revision belongs to a job that
\* is completed with one effect and holds the content that job was scheduled for.
THEOREM ReadersSeeWholeRevisions == Spec => []ActiveRevisionIsWhole
  BY ReaderCorrectness, PTL DEF ReaderInv

-----------------------------------------------------------------------------
(* What a step may never do.                                               *)

USE DEF jobVars, recoveryVars, resourceVars, sourceVars, workerVars

\* The steps that advance a publication or end a job with a result.
Settles(w) ==
    \/ ObserveUnchanged(w) \/ StartPublication(w) \/ Prepare(w)
    \/ RefuseAcquired(w) \/ Index(w) \/ Activate(w) \/ Fail(w)

\* Every step that settles a job, or touches its publication, is one of run's.
LEMMA SettlingSteps ==
  ASSUME TypeInv, [Next]_vars, NEW j \in Jobs,
         \/ checkpoint'[j] # checkpoint[j]
         \/ state'[j] # state[j] /\ state'[j] \in {"completed", "failed"}
  PROVE  \E w \in Workers : wJob[w] = j /\ Settles(w)
<1>0. JobTypes /\ RecoveryTypes /\ WorkersHoldJobs
  BY Zenon DEF TypeInv, RowsOK, RecoveryOK, WorkerOK
<1>1. ~UNCHANGED vars
  BY Zenon DEF vars
<1>2. ~Control
  <2>1. ~\E k \in Jobs : \E c \in Contents \cup {None} :
            PrepareFileImport(k, c) \/ ScheduleChange(k, c)
    BY <1>0, ZenonT(60) DEF PrepareFileImport, ScheduleChange, JobTypes
  <2>2. ~Offboard
    BY Zenon DEF Offboard
  <2> QED
    BY <2>1, <2>2, Zenon
    DEF Control, AcceptInitialPage, MembershipEnds, RevokeResourceAccess,
        Tombstone
<1>3. ~Claim /\ ~\E w \in Workers, k \in Jobs : IssueLease(w, k)
  <2>1. ASSUME NEW w \in Workers, NEW k \in Jobs
        PROVE  ~Mint(w, k)
    BY <1>0, Zenon DEF Mint, JobTypes
  <2> QED
    BY <2>1, Zenon DEF Claim, ClaimFirst, Reclaim, IssueLease
<1>4. ~Time
  BY Zenon DEF Time, Expire, BackoffElapses
<1>5. ASSUME NEW w \in Workers, Work(w) \/ Crash(w)
      PROVE  wJob[w] = j /\ Settles(w)
  <2>1. ~UNCHANGED <<jobVars, recoveryVars>>
    OBVIOUS
  <2>2. ~Redeem(w)
    BY <1>0, ConstantsAssumption
    DEF Redeem, RedeemedState, WorkersHoldJobs, JobTypes
  <2>3. Settles(w)
    BY <1>5, <2>1, <2>2, WorkCases, QuietSteps, Zenon
    DEF ReadAndCompile, ResumePublication, Settles
  <2>4. \A k : k # wJob[w] =>
           \/ k \notin Jobs
           \/ checkpoint'[k] = checkpoint[k] /\ state'[k] = state[k]
    <3>1. CASE ObserveUnchanged(w) \/ Fail(w)
      BY <1>0, <3>1, Zenon DEF ObserveUnchanged, Fail, JobTypes
    <3>2. CASE StartPublication(w) \/ RefuseAcquired(w)
      BY <1>0, <3>2, ZenonT(60)
      DEF StartPublication, RefuseAcquired, JobTypes, RecoveryTypes
    <3>3. CASE Prepare(w) \/ Index(w) \/ Activate(w)
      BY <1>0, <3>3, ZenonT(60) DEF Prepare, Index, Activate, JobTypes, RecoveryTypes
    <3> QED
      BY <2>3, <3>1, <3>2, <3>3, Zenon DEF Settles
  <2> QED
    BY <2>3, <2>4, Zenon 
<1> QED
  BY <1>1, <1>2, <1>3, <1>4, <1>5, Zenon DEF Next

\* Only "unchanged" and activation complete a job.
LEMMA CompletingSteps ==
  ASSUME TypeInv, [Next]_vars, NEW j \in Jobs,
         state[j] # "completed", state'[j] = "completed"
  PROVE  \E w \in Workers : wJob[w] = j /\ (ObserveUnchanged(w) \/ Activate(w))
<1>0. JobTypes
  BY Zenon DEF TypeInv, RowsOK
<1>1. PICK w \in Workers : wJob[w] = j /\ Settles(w)
  BY SettlingSteps, Zenon 
<1>2. ~StartPublication(w) /\ ~Prepare(w) /\ ~Index(w)
  BY <1>0, <1>1, Zenon DEF StartPublication, Prepare, Index, JobTypes
<1>3. ~RefuseAcquired(w) /\ ~Fail(w)
  BY <1>0, <1>1, Zenon DEF RefuseAcquired, Fail, JobTypes
<1> QED
  BY <1>1, <1>2, <1>3, Zenon DEF Settles

\* "unchanged" is never a false no-op.
THEOREM NoOpsAreTrue == Spec => UnchangedIsTrue
<1>1. ContentInv /\ [Next]_vars =>
         [\A j \in Jobs :
             state[j] # "completed" /\ state'[j] = "completed"
                                    /\ effectCount'[j] = 0
             => LET r == ResourceOf[j] IN
                /\ revisionId'[j] = activeRevision'[r]
                /\ activeRevision'[r] # None
                /\ ~tombstoned[r]
                /\ access[r] = "allowed"
                /\ expected[j] \in {None, snapshot[activeRevision[r]]}]_vars
  <2> SUFFICES ASSUME ContentInv, [Next]_vars, NEW j \in Jobs,
                      state[j] # "completed", state'[j] = "completed",
                      effectCount'[j] = 0
               PROVE  LET r == ResourceOf[j] IN
                      /\ revisionId'[j] = activeRevision'[r]
                      /\ activeRevision'[r] # None
                      /\ ~tombstoned[r]
                      /\ access[r] = "allowed"
                      /\ expected[j] \in {None, snapshot[activeRevision[r]]}
    OBVIOUS
  <2>0. TypeInv /\ JobTypes /\ ContentIsExpected
    BY Zenon DEF ContentInv, JobInv, PublicationInv, TypeInv, RowsOK
  <2>1. PICK w \in Workers :
           wJob[w] = j /\ (ObserveUnchanged(w) \/ Activate(w))
    BY <2>0, CompletingSteps, Zenon 
  <2>2. ObserveUnchanged(w)
    BY <2>0, <2>1 DEF Activate, JobTypes
  <2>3. /\ revisionId'[j] = activeRevision[ResourceOf[j]]
        /\ activeRevision' = activeRevision
    BY <2>0, <2>1, <2>2, Zenon DEF ObserveUnchanged, JobTypes
  <2>4. /\ activeRevision[ResourceOf[j]] # None
        /\ ~tombstoned[ResourceOf[j]]
        /\ access[ResourceOf[j]] = "allowed"
        /\ snapshot[activeRevision[ResourceOf[j]]] = wContent[w]
    BY <2>1, <2>2, Zenon DEF ObserveUnchanged, Unchanged
  <2>5. expected[j] \in {None, wContent[w]}
    BY <2>0, <2>1, <2>2, Zenon
    DEF ObserveUnchanged, AtAcquire, ContentIsExpected
  <2> QED
    BY <2>3, <2>4, <2>5, Zenon 
<1>2. Spec => []ContentInv
  BY ContentInit, ContentStep, PTL DEF Spec
<1> QED
  BY <1>1, <1>2, PTL DEF Spec, UnchangedIsTrue

\* A recovery row is advanced, never rewritten or removed: every generation of
\* a job resumes one Revision, one content and one base.
THEOREM RecoveriesAreStable == Spec => StableRecovery
<1>1. TypeInv /\ [Next]_vars =>
         [\A j \in Jobs :
             checkpoint[j] \in Open =>
                 /\ checkpoint'[j] # "none"
                 /\ recRevision'[j] = recRevision[j]
                 /\ recContent'[j] = recContent[j]
                 /\ recPrevious'[j] = recPrevious[j]]_vars
  <2> SUFFICES ASSUME TypeInv, [Next]_vars, NEW j \in Jobs,
                      checkpoint[j] \in Open
               PROVE  /\ checkpoint'[j] # "none"
                      /\ recRevision'[j] = recRevision[j]
                      /\ recContent'[j] = recContent[j]
                      /\ recPrevious'[j] = recPrevious[j]
    OBVIOUS
  <2>0. RecoveryTypes /\ checkpoint[j] # "none"
    BY Zenon DEF TypeInv, RowsOK, RecoveryOK, Open
  <2>1. ASSUME NEW w \in Workers, StartPublication(w)
        PROVE  /\ checkpoint'[j] # "none"
               /\ recRevision'[j] = recRevision[j]
               /\ recContent'[j] = recContent[j]
               /\ recPrevious'[j] = recPrevious[j]
    <3>1. wJob[w] # j
      BY <2>1, Zenon DEF StartPublication, Fresh, Open
    <3> QED
      BY <2>0, <2>1, <3>1, Zenon DEF StartPublication, RecoveryTypes
  <2>2. ASSUME NEW w \in Workers, Prepare(w) \/ Index(w) \/ Activate(w)
        PROVE  checkpoint'[j] # "none"
    BY <2>0, <2>2, Zenon DEF Prepare, Index, Activate, RecoveryTypes
  <2> QED
    BY <2>0, <2>1, <2>2, PublicationSteps, Zenon DEF Prepare, Index, Activate
<1> QED
  BY <1>1, TypeCorrectness, PTL DEF Spec, StableRecovery

-----------------------------------------------------------------------------
(* Withdrawal.                                                             *)

\* An audience was granted access by a publication that is active, or that is
\* the unfinished one of its Resource.
GrantHasPublication ==
    \A r \in Resources :
        access[r] # "none" =>
            \/ activeRevision[r] # None
            \/ \E j \in Jobs : ResourceOf[j] = r /\ checkpoint[j] \in {"prepared", "ready"}

WithdrawalInv == PublicationInv /\ GrantHasPublication

\* Only these steps write a grant.
LEMMA AccessSteps ==
  ASSUME [Next]_vars
  PROVE  \/ UNCHANGED <<tombstoned, access>>
         \/ UNCHANGED <<activeRevision, checkpoint>>
            /\ \E r \in Resources : RevokeResourceAccess(r) \/ Tombstone(r)
         \/ \E w \in Workers : Prepare(w)
<1>1. CASE UNCHANGED vars
  BY <1>1, Zenon DEF vars
<1>2. CASE Control
  BY <1>2, ZenonT(60)
  DEF Control, PrepareFileImport, ScheduleChange, AcceptInitialPage,
              MembershipEnds, RevokeResourceAccess, Tombstone, Offboard
<1>3. CASE \/ Claim
           \/ \E w \in Workers, j \in Jobs : IssueLease(w, j)
  BY <1>3 DEF Claim, ClaimFirst, Reclaim, IssueLease, Mint
<1>4. CASE Time
  BY <1>4, Zenon DEF Time, Expire, BackoffElapses
<1>5. ASSUME NEW w \in Workers, Work(w) \/ Crash(w)
      PROVE  UNCHANGED <<tombstoned, access>> \/ Prepare(w)
  BY <1>5, WorkCases, QuietSteps, Zenon
  DEF Redeem, ReadAndCompile, ResumePublication, ObserveUnchanged,
      StartPublication, RefuseAcquired, Index, Activate, Fail
<1> QED
  BY <1>1, <1>2, <1>3, <1>4, <1>5, Zenon DEF Next

\* No grant exists at first.
LEMMA WithdrawalInit == Init => WithdrawalInv
  BY PublicationInit DEF Init, WithdrawalInv, GrantHasPublication

\* A grant stays backed by a publication.
LEMMA WithdrawalStep == WithdrawalInv /\ [Next]_vars => WithdrawalInv'
<1> SUFFICES ASSUME WithdrawalInv, [Next]_vars,
                    NEW r \in Resources, access'[r] # "none"
             PROVE  \/ activeRevision'[r] # None
                    \/ \E j \in Jobs : /\ ResourceOf[j] = r
                                       /\ checkpoint'[j] \in {"prepared", "ready"}
  BY PublicationStep, Zenon DEF WithdrawalInv, GrantHasPublication
<1>0. RecoveryTypes /\ ResourceTypes /\ WorkersHoldJobs
  BY Zenon
  DEF WithdrawalInv, PublicationInv, TypeInv, RowsOK, RecoveryOK, WorkerOK
<1>1. CASE access[r] # "none"
  <2>1. \/ activeRevision[r] # None
        \/ \E j \in Jobs : ResourceOf[j] = r /\ checkpoint[j] \in {"prepared", "ready"}
    BY <1>1, Zenon DEF WithdrawalInv, GrantHasPublication
  <2>2. CASE UNCHANGED <<recoveryVars, activeRevision, published, snapshot,
                         effectCount>>
    BY <2>1, <2>2, Zenon 
  <2>3. ASSUME NEW w \in Workers,
               StartPublication(w) \/ Prepare(w) \/ Index(w)
        PROVE  \/ activeRevision'[r] # None
               \/ \E j \in Jobs : /\ ResourceOf[j] = r
                                  /\ checkpoint'[j] \in {"prepared", "ready"}
    <3>1. UNCHANGED activeRevision
      BY <2>3, Zenon DEF StartPublication, Prepare, Index
    <3>2. ASSUME NEW j \in Jobs, checkpoint[j] \in {"prepared", "ready"}
          PROVE  checkpoint'[j] \in {"prepared", "ready"}
      <4>1. CASE StartPublication(w)
        BY <1>0, <3>2, <4>1, Zenon DEF StartPublication, Fresh, RecoveryTypes
      <4>2. CASE Prepare(w) \/ Index(w)
        BY <1>0, <3>2, <4>2, Zenon DEF Prepare, Index, RecoveryTypes
      <4> QED
        BY <2>3, <4>1, <4>2, Zenon 
    <3> QED
      BY <2>1, <3>1, <3>2, Zenon 
  <2>4. ASSUME NEW w \in Workers, Activate(w)
        PROVE  \/ activeRevision'[r] # None
               \/ \E j \in Jobs : /\ ResourceOf[j] = r
                                  /\ checkpoint'[j] \in {"prepared", "ready"}
    <3>1. wRevision[w] # None /\ wJob[w] \in Jobs
      BY <1>0, <2>4, ConstantsAssumption, Zenon
      DEF Activate, WorkersHoldJobs, Open, Revisions
    <3> QED
      BY <1>0, <2>1, <2>4, <3>1, Zenon
      DEF Activate, RecoveryTypes, ResourceTypes
  <2> QED
    BY <2>2, <2>3, <2>4, PublicationSteps, Zenon 
<1>2. CASE access[r] = "none"
  <2>1. PICK w \in Workers : Prepare(w)
    BY <1>0, <1>2, AccessSteps, Zenon
    DEF RevokeResourceAccess, Tombstone, ResourceTypes
  <2>2. wJob[w] \in Jobs /\ ResourceOf[wJob[w]] = r
    BY <1>0, <1>2, <2>1, Zenon DEF Prepare, ResourceTypes, WorkersHoldJobs
  <2> QED
    BY <1>0, <2>1, <2>2, Zenon DEF Prepare, RecoveryTypes
<1> QED
  BY <1>1, <1>2, Zenon 

\* Once a Resource is tombstoned, or its grant revoked, no publication gives it
\* another active Revision, and no first publication restores the grant.
THEOREM WithdrawalIsFinal == Spec => WithdrawnResourceIsFrozen
<1>1. WithdrawalInv /\ [Next]_vars =>
         [\A r \in Resources :
             tombstoned[r] \/ access[r] = "revoked" =>
                 /\ activeRevision'[r] = activeRevision[r]
                 /\ tombstoned[r] => tombstoned'[r]
                 /\ access[r] = "revoked" => access'[r] = "revoked"]_vars
  <2> SUFFICES ASSUME WithdrawalInv, [Next]_vars, NEW r \in Resources,
                      tombstoned[r] \/ access[r] = "revoked"
               PROVE  /\ activeRevision'[r] = activeRevision[r]
                      /\ tombstoned[r] => tombstoned'[r]
                      /\ access[r] = "revoked" => access'[r] = "revoked"
    OBVIOUS
  <2>0. ResourceTypes /\ FlagTypes /\ WorkersHoldJobs /\ OneOpenRecovery
    BY Zenon DEF WithdrawalInv, PublicationInv, TypeInv, RowsOK, WorkerOK
  <2>1. activeRevision'[r] = activeRevision[r]
    <3>1. ASSUME NEW w \in Workers, Activate(w)
          PROVE  activeRevision'[r] = activeRevision[r]
      BY <2>0, <3>1, Zenon
      DEF Activate, Activatable, BaseStands, ResourceTypes
    <3> QED
      BY <3>1, PublicationSteps, ZenonT(60) DEF StartPublication, Prepare, Index
  <2>2. tombstoned[r] => tombstoned'[r]
    BY <2>0, AccessSteps, Zenon
    DEF RevokeResourceAccess, Tombstone, Prepare, FlagTypes
  <2>3. ASSUME access[r] = "revoked"
        PROVE  access'[r] = "revoked"
    <3>1. ASSUME NEW w \in Workers, Prepare(w), ResourceOf[wJob[w]] = r
          PROVE  recPrevious[wJob[w]] # None
      BY <2>0, <2>3, <3>1, Zenon
      DEF Prepare, Preparable, BaseStands, WithdrawalInv, GrantHasPublication,
          OneOpenRecovery, WorkersHoldJobs, Open
    <3> QED
      BY <2>0, <2>3, <3>1, AccessSteps, ZenonT(60)
      DEF RevokeResourceAccess, Tombstone, Prepare, ResourceTypes
  <2> QED
    BY <2>1, <2>2, <2>3, Zenon 
<1>2. Spec => []WithdrawalInv
  BY WithdrawalInit, WithdrawalStep, PTL DEF Spec
<1> QED
  BY <1>1, <1>2, PTL DEF Spec, WithdrawnResourceIsFrozen

-----------------------------------------------------------------------------
(* The fences of the lease, of the scan epoch and of the Source.           *)

\* A worker that was replaced, or whose lease has expired, changes nothing.
THEOREM LeaseFencesWorkers == Spec => OnlyTheLeaseHolderActs
<1>1. TypeInv /\ [Next]_vars =>
         [\A j \in Jobs :
             \/ checkpoint'[j] # checkpoint[j]
             \/ state'[j] # state[j] /\ state'[j] \in {"completed", "failed"}
             => /\ lease[j] = "live"
                /\ sourceActive
                /\ \E w \in Workers : /\ pc'[w] # pc[w]
                                      /\ wJob[w] = j
                                      /\ wGeneration[w] = generation[j]]_vars
  <2> SUFFICES ASSUME TypeInv, [Next]_vars, NEW j \in Jobs,
                      \/ checkpoint'[j] # checkpoint[j]
                      \/ state'[j] # state[j] /\ state'[j] \in {"completed", "failed"}
               PROVE  /\ lease[j] = "live"
                      /\ sourceActive
                      /\ \E w \in Workers : /\ pc'[w] # pc[w]
                                            /\ wJob[w] = j
                                            /\ wGeneration[w] = generation[j]
    OBVIOUS
  <2>0. WorkerTypes
    BY Zenon DEF TypeInv, RowsOK, WorkerOK
  <2>1. PICK w \in Workers : wJob[w] = j /\ Settles(w)
    BY SettlingSteps, Zenon 
  <2>2. LeaseHeld(w)
    BY <2>1, Zenon
    DEF Settles, ObserveUnchanged, StartPublication, Fresh, Prepare,
                Preparable, RefuseAcquired, Refusable, Index, Indexable,
                Activate, Activatable, Fail, Sealable
  <2>3. pc'[w] # pc[w]
    <3>1. CASE ObserveUnchanged(w) \/ StartPublication(w)
      BY <2>0, <3>1, Zenon
      DEF ObserveUnchanged, StartPublication, AtAcquire, Leave, WorkerTypes
    <3>2. CASE Prepare(w) \/ RefuseAcquired(w) \/ Index(w)
      BY <2>0, <3>2, Zenon
      DEF Prepare, RefuseAcquired, Index, Goto, WorkerTypes
    <3>3. CASE Activate(w) \/ Fail(w)
      BY <2>0, <3>3, Zenon DEF Activate, Fail, Leave, WorkerTypes
    <3> QED
      BY <2>1, <3>1, <3>2, <3>3, Zenon DEF Settles
  <2> QED
    BY <2>1, <2>2, <2>3, Zenon DEF LeaseHeld
<1> QED
  BY <1>1, TypeCorrectness, PTL DEF Spec, OnlyTheLeaseHolderActs

\* A job pinned to a scan never completes once a later scan has begun.
THEOREM ScanFencesJobs == Spec => NoEffectOfASupersededScan
<1>1. TypeInv /\ [Next]_vars =>
         [\A j \in Jobs :
             state[j] # "completed" /\ state'[j] = "completed"
             => pageEpoch[j] \in {None, scanEpoch}]_vars
  BY CompletingSteps DEF ObserveUnchanged, Activate, Activatable, EpochCurrent
<1> QED
  BY <1>1, TypeCorrectness, PTL DEF Spec, NoEffectOfASupersededScan

OffboardInv == TypeInv /\ OffboardedJobsAreOver

\* No operation revives a job of an offboarded Source.
LEMMA OffboardStep == OffboardInv /\ [Next]_vars => OffboardInv'
<1> SUFFICES ASSUME OffboardInv, [Next]_vars
             PROVE  OffboardedJobsAreOver'
  BY TypeStep, Zenon DEF OffboardInv
<1>0. JobTypes
  BY Zenon DEF OffboardInv, TypeInv, RowsOK
<1>1. CASE sourceActive /\ ~sourceActive'
  <2>1. ASSUME NEW w \in Workers, Work(w) \/ Crash(w)
        PROVE  UNCHANGED sourceActive
    BY <2>1, WorkCases, QuietSteps, Zenon
    DEF Redeem, ReadAndCompile, ResumePublication, ObserveUnchanged,
        StartPublication, Prepare, RefuseAcquired, Index, Activate, Fail
  <2>2. ASSUME \/ Claim \/ Time
               \/ \E w \in Workers, j \in Jobs : IssueLease(w, j)
        PROVE  UNCHANGED sourceActive
    BY <2>2, ZenonT(60)
    DEF Claim, ClaimFirst, Reclaim, IssueLease, Mint, Time, Expire,
                BackoffElapses
  <2>3. Offboard
    BY <1>1, <2>1, <2>2, Zenon
    DEF vars, Next, Control, PrepareFileImport, ScheduleChange,
        AcceptInitialPage, MembershipEnds, RevokeResourceAccess, Tombstone
  <2> QED
    BY <1>0, <2>3, Zenon
    DEF Offboard, Cancellable, JobTypes, States, InFlight, Terminal,
        OffboardedJobsAreOver
<1>2. CASE ~sourceActive
  <2>1. ASSUME NEW w \in Workers, Work(w) \/ Crash(w)
        PROVE  UNCHANGED state
    BY <1>2, <2>1, WorkCases, QuietSteps, Zenon
    DEF Redeem, Redeemable, ReadAndCompile, ResumePublication,
        ObserveUnchanged, StartPublication, Fresh, Prepare, Preparable,
        RefuseAcquired, Refusable, Index, Indexable, Activate, Activatable,
        Fail, Sealable, LeaseHeld
  <2>2. ~Claim /\ ~\E w \in Workers, j \in Jobs : IssueLease(w, j)
    BY <1>2, Zenon
    DEF Claim, ClaimFirst, Reclaim, DispatchEligible, IssueLease
  <2>3. UNCHANGED state
    BY <1>2, <2>1, <2>2, ZenonT(60)
    DEF vars, Next, Control, PrepareFileImport, ScheduleChange,
        AcceptInitialPage, MembershipEnds, RevokeResourceAccess, Tombstone,
        Offboard, Time, Expire, BackoffElapses
  <2> QED
    BY <1>2, <2>3, Zenon DEF OffboardInv, OffboardedJobsAreOver
<1>3. CASE sourceActive'
  BY <1>3, Zenon DEF OffboardedJobsAreOver
<1> QED
  BY <1>1, <1>2, <1>3, Zenon 

\* Offboarding leaves no unfinished job, and none arises afterwards.
THEOREM OffboardingEndsJobs == Spec => []OffboardedJobsAreOver
<1>1. Init => OffboardInv
  BY TypeInit, Zenon DEF Init, OffboardInv, OffboardedJobsAreOver
<1> QED
  BY <1>1, OffboardStep, PTL DEF Spec, OffboardInv

-----------------------------------------------------------------------------
(* Worker leases.                                                          *)

-----------------------------------------------------------------------------
(* Natural numbers.                                                        *)

LEMMA LeastNatural ==
    ASSUME NEW S, S \subseteq Nat, S # {}
    PROVE  \E n \in S : \A m \in S : n <= m
<1>1. PICK x \in S : \A y \in S : ~ (<<y, x>> \in OpToRel(<, Nat))
  BY NatLessThanWellFounded, WFMin, Zenon 
<1>2. \A y \in S : ~ (y < x)
  BY <1>1, Zenon DEF OpToRel
<1> QED
  BY <1>2

LEMMA GreatestNatural ==
    ASSUME NEW S, S \subseteq Nat, S # {}, NEW top \in Nat, \A m \in S : m <= top
    PROVE  \E n \in S : \A m \in S : m <= n
<1> DEFINE D == {x \in Nat : top - x \in S}
<1>1. PICK m \in S : TRUE
  OBVIOUS
<1>2. top - m \in D
  BY <1>1
<1>3. PICK d \in D : \A e \in D : d <= e
  BY <1>2, LeastNatural, Zenon 
<1>4. \A k \in S : top - k \in D
  OBVIOUS
<1> QED
  BY <1>3, <1>4

-----------------------------------------------------------------------------
(* The signed lease.                                                       *)

JobRows == [state : {"available", "leased", "completed"}, version : Int, nonce : Int,
            issued : Int, expires : Int, redeemed : Int, effects : Int]

IssueRows == [job : NoopJobs, at : Nat, nonce : Nat \ {0}]

\* A worker that has verified a token has verified one of a no-op job.
OneNoopToken(tokens) == \E t : tokens = {t} /\ t.document.operation = "noop.complete"
HoldsAToken(w) == redeeming[w].pc # "idle" => OneNoopToken(redeeming[w].tokens)
RedeemingShape ==
    redeeming = [w \in LeaseWorkers |->
                    [pc |-> redeeming[w].pc, tokens |-> redeeming[w].tokens,
                     at |-> redeeming[w].at]]
TimesAreTicks(w) == redeeming[w].pc = "redeeming" => redeeming[w].at \in Nat

NoncesAreBounded ==
    LeaseIssuers # {} => \E top \in Nat : \A n \in UsedNonces : n \in 0 .. top

\* A receipt is of the lease that its completed row still carries.
ReceiptIsBacked(c) ==
    LET claims == c.token.document
    IN  /\ claims.operation = "noop.complete"
        /\ claims.job \in NoopJobs
        /\ noopJob[claims.job].state = "completed"
        /\ noopJob[claims.job].nonce = claims.nonce
        /\ noopJob[claims.job].redeemed \in claims.issued .. (claims.expires - 1)

OneReceiptPerJob ==
    \A c, d \in completions : c.token.document.job = d.token.document.job => c = d

LeaseInv ==
    /\ noopJob \in [NoopJobs -> JobRows]
    /\ \A j \in NoopJobs : JobRowIsValid(noopJob[j])
    /\ issuing \in [LeaseIssuers -> IssueRows \cup {NoIssue}]
    /\ leaseClock \in Nat
    /\ RedeemingShape
    /\ \A w \in LeaseWorkers : HoldsAToken(w) /\ TimesAreTicks(w)
    /\ NoncesAreBounded
    /\ OneReceiptPerJob
    /\ \A c \in completions : ReceiptIsBacked(c)

\* A lease is replaced by one whose window begins when it is over.
WindowsFollow ==
    \A j \in NoopJobs :
        noopJob'[j].nonce # noopJob[j].nonce => noopJob'[j].issued >= noopJob[j].expires

\* The nonce drawn is positive, and one more than all that were used.
LEMMA NoncesAreFresh ==
    ASSUME LeaseInv, NEW i \in LeaseIssuers
    PROVE  FreshNonce \in Nat \ {0} /\ \A n \in UsedNonces : n \in 0 .. FreshNonce
<1>1. PICK top \in Nat : \A n \in UsedNonces : n \in 0 .. top
  BY Zenon DEF LeaseInv, NoncesAreBounded
<1>2. UsedNonces \subseteq Nat /\ \A n \in UsedNonces : n <= top
  BY <1>1
<1>3. issuing[i].nonce \in UsedNonces
  BY Zenon DEF UsedNonces
<1>4. \E n \in UsedNonces : \A m \in UsedNonces : m <= n
  BY <1>2, <1>3, GreatestNatural, Zenon 
<1> DEFINE greatest == CHOOSE n \in UsedNonces : \A m \in UsedNonces : m <= n
<1>5. greatest \in UsedNonces /\ \A m \in UsedNonces : m <= greatest
  BY <1>4, Zenon 
<1>6. FreshNonce = 1 + greatest
  BY Zenon DEF FreshNonce
<1> HIDE DEF greatest
<1> QED
  BY <1>2, <1>5, <1>6

LEMMA WholeSeconds ==
    ASSUME NEW t \in Nat
    PROVE  WholeSecond(t) \in Nat
BY LeaseAssumption DEF WholeSecond

LEMMA NoncesKept ==
    ASSUME NoncesAreBounded, UsedNonces' \subseteq UsedNonces
    PROVE  NoncesAreBounded'
BY Zenon DEF NoncesAreBounded

\* The parts of the invariant a step leaves alone.
LEMMA JobsKept ==
    ASSUME LeaseInv, UNCHANGED <<noopJob, completions>>
    PROVE  /\ noopJob' \in [NoopJobs -> JobRows]
           /\ \A j \in NoopJobs : JobRowIsValid(noopJob'[j])
           /\ OneReceiptPerJob' /\ \A c \in completions' : ReceiptIsBacked(c)'
           /\ WindowsFollow
BY Zenon DEF LeaseInv, OneReceiptPerJob, ReceiptIsBacked, WindowsFollow

LEMMA WorkersKept ==
    ASSUME LeaseInv, UNCHANGED redeeming
    PROVE  RedeemingShape' /\ \A w \in LeaseWorkers : HoldsAToken(w)' /\ TimesAreTicks(w)'
BY Zenon DEF LeaseInv, RedeemingShape, HoldsAToken, TimesAreTicks

LEMMA BeginIssueKeeps ==
    ASSUME LeaseInv, NEW i \in LeaseIssuers, NEW j \in NoopJobs, BeginIssue(i, j)
    PROVE  LeaseInv' /\ WindowsFollow
<1>0. FreshNonce \in Nat \ {0} /\ \A n \in UsedNonces : n \in 0 .. FreshNonce
  BY NoncesAreFresh, Zenon 
<1>1. UNCHANGED <<noopJob, completions>> /\ UNCHANGED redeeming /\ UNCHANGED wire
      /\ UNCHANGED leaseClock
      /\ issuing' = [issuing EXCEPT ![i] = [job |-> j, at |-> leaseClock, nonce |-> FreshNonce]]
  BY Zenon DEF BeginIssue
<1> HIDE DEF FreshNonce
<1>2. leaseClock' \in Nat /\ leaseClock \in Nat
  BY <1>1, Zenon DEF LeaseInv
<1>3. issuing' \in [LeaseIssuers -> IssueRows \cup {NoIssue}]
  BY <1>0, <1>1, <1>2, Zenon DEF LeaseInv, IssueRows
<1>4. UsedNonces' \subseteq UsedNonces \cup {FreshNonce}
  BY <1>1, Zenon DEF UsedNonces, LeaseInv
<1>5. NoncesAreBounded'
  BY <1>0, <1>4 DEF NoncesAreBounded
<1> QED
  BY <1>1, <1>2, <1>3, <1>5, JobsKept, WorkersKept, Zenon DEF LeaseInv

LEMMA QuietStepsKeep ==
    ASSUME LeaseInv,
           UNCHANGED <<noopJob, issuing, redeeming, completions>>,
           leaseClock' \in Nat, UsedNonces' \subseteq UsedNonces
    PROVE  LeaseInv' /\ WindowsFollow
<1>1. NoncesAreBounded'
  BY NoncesKept, Zenon DEF LeaseInv
<1> QED
  BY <1>1, JobsKept, WorkersKept, Zenon DEF LeaseInv


LEMMA IssueFileKeeps ==
    ASSUME LeaseInv, NEW j \in FileJobs, IssueFileImportLease(j)
    PROVE  LeaseInv' /\ WindowsFollow
<1>1. /\ UNCHANGED <<noopJob, completions>> /\ UNCHANGED redeeming /\ UNCHANGED issuing
      /\ UNCHANGED leaseClock
      /\ wire' = wire \cup {Token(keyring,
                              FileImportClaims(j, WholeSecond(leaseClock), FreshNonce))}
  BY Zenon DEF IssueFileImportLease
<1>2. Token(keyring, FileImportClaims(j, WholeSecond(leaseClock), FreshNonce)).document.nonce
        = FreshNonce
  BY Zenon DEF Token, ClaimsDocument, FileImportClaims
<1>3. UsedNonces' \subseteq UsedNonces \cup {FreshNonce}
  <2> DEFINE t == Token(keyring, FileImportClaims(j, WholeSecond(leaseClock), FreshNonce))
  <2> HIDE DEF FreshNonce, t
  <2>1. wire' = wire \cup {t} /\ t.document.nonce = FreshNonce
    BY <1>1, <1>2, Zenon DEF t
  <2> QED
    BY <1>1, <2>1, Zenon DEF UsedNonces
<1>4. ASSUME LeaseIssuers # {}
      PROVE  \E top \in Nat : \A n \in UsedNonces' : n \in 0 .. top
  <2>1. FreshNonce \in Nat \ {0} /\ \A n \in UsedNonces : n \in 0 .. FreshNonce
    BY <1>4, NoncesAreFresh, Zenon 
  <2> HIDE DEF FreshNonce
  <2> QED
    BY <1>3, <2>1
<1>5. NoncesAreBounded'
  BY <1>4, Zenon DEF NoncesAreBounded
<1> QED
  BY <1>1, <1>5, JobsKept, WorkersKept, Zenon DEF LeaseInv

\* What the issuing function writes when it leases a row.
LeasedRow(claims) ==
    [state |-> "leased", version |-> claims.version, nonce |-> claims.nonce,
     issued |-> claims.issued, expires |-> claims.expires, redeemed |-> Never,
     effects |-> 0]

\* The row that a lease is written to: a key version and a nonce that are set, and a
\* window that ends after it begins, are a valid row.
LEMMA LeasedRowIsValid ==
    ASSUME NEW v \in Nat \ {0}, NEW n \in Nat \ {0}, NEW s \in Nat, NEW e \in Int, e > s
    PROVE  LET row == [state |-> "leased", version |-> v, nonce |-> n, issued |-> s,
                       expires |-> e, redeemed |-> Never, effects |-> 0]
           IN  row \in JobRows /\ JobRowIsValid(row)
<1>1. PICK row : row = [state |-> "leased", version |-> v, nonce |-> n, issued |-> s,
                        expires |-> e, redeemed |-> Never, effects |-> 0]
  OBVIOUS
<1>2. /\ v \in Int /\ n \in Int /\ s \in Int /\ e \in Int /\ Never \in Int /\ 0 \in Int
      /\ v > 0 /\ n > 0
  BY SMT DEF Never
<1>3. /\ row \in JobRows
      /\ row.state = "leased" /\ row.version = v /\ row.nonce = n
      /\ row.issued = s /\ row.expires = e /\ row.redeemed = Never /\ row.effects = 0
  BY <1>1, <1>2, ZenonT(60) DEF JobRows
<1>4. row.version > 0 /\ row.nonce > 0 /\ row.expires > row.issued
  BY <1>2, <1>3, Zenon
<1>5. JobRowIsValid(row)
  BY <1>3, <1>4, Zenon DEF JobRowIsValid
<1> QED
  BY <1>1, <1>3, <1>5, Zenon

\* A job that may be issued at a time is not completed, and the window of its last lease
\* is over by then.
LEMMA IssuableIsExpired ==
    ASSUME NEW row \in JobRows, JobRowIsValid(row), NEW at \in Nat, Issuable(row, at)
    PROVE  row.state # "completed" /\ at >= row.expires
<1>1. row.expires \in Int
  BY Zenon DEF JobRows
<1>2. CASE row = AvailableJob
  <2>1. row.state = "available" /\ row.expires = Never
    BY <1>2, Zenon DEF AvailableJob
  <2>2. at >= Never
    BY SMT DEF Never
  <2> QED
    BY <2>1, <2>2, Zenon
<1>3. CASE row.state = "available"
  BY <1>2, <1>3, Zenon DEF JobRowIsValid
<1>4. CASE row.state = "leased"
  BY <1>1, <1>4, SMT DEF Issuable
<1> QED
  BY <1>3, <1>4, Zenon DEF Issuable

\* One row of a no-op job is leased: no receipt is of it.
LEMMA LeasingKeeps ==
    ASSUME LeaseInv, NEW j \in NoopJobs, NEW row \in JobRows, JobRowIsValid(row),
           noopJob[j].state # "completed",
           row.issued >= noopJob[j].expires,
           noopJob' = [noopJob EXCEPT ![j] = row], completions' = completions
    PROVE  /\ noopJob' \in [NoopJobs -> JobRows]
           /\ \A k \in NoopJobs : JobRowIsValid(noopJob'[k])
           /\ OneReceiptPerJob' /\ \A c \in completions' : ReceiptIsBacked(c)'
           /\ WindowsFollow
<1>1. /\ noopJob' \in [NoopJobs -> JobRows]
      /\ noopJob'[j] = row /\ \A k \in NoopJobs \ {j} : noopJob'[k] = noopJob[k]
  BY Zenon DEF LeaseInv
<1>2. \A k \in NoopJobs : JobRowIsValid(noopJob'[k])
  BY <1>1, Zenon DEF LeaseInv
<1>3. OneReceiptPerJob'
  BY Zenon DEF LeaseInv, OneReceiptPerJob
<1>4. ASSUME NEW c \in completions'
      PROVE  ReceiptIsBacked(c)'
  <2>1. ReceiptIsBacked(c)
    BY Zenon DEF LeaseInv
  <2> QED
    BY <1>1, <2>1, Zenon DEF ReceiptIsBacked
<1>5. WindowsFollow
  BY <1>1, Zenon DEF WindowsFollow
<1> QED
  BY <1>1, <1>2, <1>3, <1>4, <1>5, Zenon 

LEMMA IssueNoopKeeps ==
    ASSUME LeaseInv, NEW i \in LeaseIssuers, NEW delivered \in BOOLEAN,
           IssueNoopLease(i, delivered)
    PROVE  LeaseInv' /\ WindowsFollow
<1> DEFINE j == issuing[i].job
           at == WholeSecond(issuing[i].at)
           claims == NoopClaims(j, at, issuing[i].nonce)
<1>0. /\ issuing[i] \in IssueRows
      /\ issuing' = [issuing EXCEPT ![i] = NoIssue]
      /\ UNCHANGED redeeming /\ UNCHANGED completions /\ UNCHANGED leaseClock
  BY Zenon DEF IssueNoopLease, LeaseInv
<1>1. /\ j \in NoopJobs /\ issuing[i].at \in Nat /\ issuing[i].nonce \in Nat \ {0}
      /\ at \in Nat
  BY <1>0, WholeSeconds, Zenon DEF IssueRows
<1>2. issuing' \in [LeaseIssuers -> IssueRows \cup {NoIssue}]
  BY <1>0, Zenon DEF LeaseInv
<1>3. ASSUME UNCHANGED <<noopJob, wire>>
      PROVE  LeaseInv' /\ WindowsFollow
  <2>1. UsedNonces' \subseteq UsedNonces \cup {0}
    BY <1>0, <1>3, Zenon DEF UsedNonces, LeaseInv, NoIssue
  <2>2. NoncesAreBounded'
    BY <2>1 DEF LeaseInv, NoncesAreBounded
  <2> QED
    BY <1>0, <1>2, <1>3, <2>2, JobsKept, WorkersKept, ZenonT(60) DEF LeaseInv
<1>4. ASSUME /\ Issuable(noopJob[j], at)
             /\ CanMint(keyring, claims)
             /\ noopJob' = [noopJob EXCEPT ![j] = LeasedRow(claims)]
             /\ wire' = wire \cup {Token(keyring, claims)} \/ wire' = wire
      PROVE  LeaseInv' /\ WindowsFollow
  <2>1. /\ claims.nonce = issuing[i].nonce /\ claims.issued = at
        /\ Token(keyring, claims).document.nonce = issuing[i].nonce
    BY Zenon DEF NoopClaims, Token, ClaimsDocument
  <2>2. claims.version \in Nat \ {0} /\ claims.expires > claims.issued
    <3>1. \A n \in 1 .. KeyVersionBound : n \in Nat \ {0}
      BY SMT
    <3> HIDE DEF claims
    <3>2. claims.version \in 1 .. KeyVersionBound /\ claims.expires > claims.issued
      BY <1>4, Zenon DEF CanMint, KeyringIsValid, ClaimsAreClosed
    <3> QED
      BY <3>1, <3>2, Zenon
  <2>3. claims.expires \in Int
    <3>1. TokenTtl \in Int /\ TicksPerSecond \in Int
      BY LeaseAssumption
    <3>2. \A x \in Nat, y, z \in Int : x + y * z \in Int
      BY SMT
    <3>3. claims.expires = at + TokenTtl * TicksPerSecond
      BY Zenon DEF NoopClaims
    <3> HIDE DEF claims, at
    <3> QED
      BY <1>1, <3>1, <3>2, <3>3, Zenon
  <2> HIDE DEF claims
  <2>4. LeasedRow(claims) \in JobRows /\ JobRowIsValid(LeasedRow(claims))
    <3> HIDE DEF at, j
    <3>1. PICK v, n, s, e : /\ v = claims.version /\ n = claims.nonce
                            /\ s = claims.issued /\ e = claims.expires
      OBVIOUS
    <3>2. v \in Nat \ {0} /\ n \in Nat \ {0} /\ s \in Nat /\ e \in Int /\ e > s
      BY <1>1, <2>1, <2>2, <2>3, <3>1, Zenon
    <3>3. LeasedRow(claims) = [state |-> "leased", version |-> v, nonce |-> n, issued |-> s,
                               expires |-> e, redeemed |-> Never, effects |-> 0]
      BY <3>1, Zenon DEF LeasedRow
    <3> QED
      BY <3>2, <3>3, LeasedRowIsValid, Zenon
  <2>5. noopJob[j].state # "completed" /\ at >= noopJob[j].expires
    <3> HIDE DEF at, j
    <3>1. PICK row : row = noopJob[j]
      OBVIOUS
    <3>2. row \in JobRows /\ JobRowIsValid(row)
      BY <1>1, <3>1, Zenon DEF LeaseInv
    <3>3. Issuable(row, at)
      BY <1>4, <3>1, Zenon
    <3> QED
      BY <1>1, <3>1, <3>2, <3>3, IssuableIsExpired, Zenon
  <2>6. UsedNonces' \subseteq UsedNonces \cup {0}
    <3> DEFINE t == Token(keyring, claims)
    <3>1. wire' \subseteq wire \cup {t} /\ t.document.nonce = issuing[i].nonce
      BY <1>4, <2>1, ZenonT(60) 
    <3> HIDE DEF t
    <3>2. LeasedRow(claims).nonce = issuing[i].nonce
      BY <2>1, Zenon DEF LeasedRow
    <3>3. \A k \in NoopJobs : noopJob'[k].nonce \in {noopJob[k].nonce, issuing[i].nonce}
      BY <1>1, <1>4, <3>2, Zenon DEF LeaseInv
    <3>4. \A k \in LeaseIssuers : issuing'[k].nonce \in {issuing[k].nonce, 0}
      BY <1>0, Zenon DEF LeaseInv, NoIssue
    <3> QED
      BY <3>1, <3>3, <3>4, SMTT(60) DEF UsedNonces
  <2>7. NoncesAreBounded'
    BY <2>6 DEF LeaseInv, NoncesAreBounded
  <2>8. LeasedRow(claims).issued >= noopJob[j].expires
    BY <2>1, <2>5, Zenon DEF LeasedRow
  <2>9. PICK row : row = LeasedRow(claims)
    OBVIOUS
  <2>10. PICK k \in NoopJobs : k = j
    BY <1>1, Zenon 
  <2>11. /\ noopJob' \in [NoopJobs -> JobRows]
         /\ \A m \in NoopJobs : JobRowIsValid(noopJob'[m])
         /\ OneReceiptPerJob' /\ \A c \in completions' : ReceiptIsBacked(c)'
         /\ WindowsFollow
    BY <1>0, <1>4, <2>4, <2>5, <2>8, <2>9, <2>10, LeasingKeeps, Zenon 
  <2> QED
    BY <1>0, <1>2, <2>7, <2>11, WorkersKept, Zenon DEF LeaseInv
<1> QED
  BY <1>3, <1>4, Zenon DEF IssueNoopLease, LeasedRow


\* One worker moves on, to a row with a token of a no-op job.
LEMMA WorkerSet ==
    ASSUME LeaseInv, NEW w \in LeaseWorkers, NEW stage, NEW tokens, NEW at,
           redeeming' = [redeeming EXCEPT ![w] = [pc |-> stage, tokens |-> tokens, at |-> at]],
           stage # "idle" => OneNoopToken(tokens),
           stage = "redeeming" => at \in Nat
    PROVE  RedeemingShape' /\ \A v \in LeaseWorkers : HoldsAToken(v)' /\ TimesAreTicks(v)'
<1>1. /\ RedeemingShape'
      /\ redeeming'[w] = [pc |-> stage, tokens |-> tokens, at |-> at]
      /\ \A v \in LeaseWorkers \ {w} : redeeming'[v] = redeeming[v]
  BY Zenon DEF LeaseInv, RedeemingShape
<1>2. HoldsAToken(w)' /\ TimesAreTicks(w)'
  BY <1>1 DEF HoldsAToken, TimesAreTicks
<1>3. ASSUME NEW v \in LeaseWorkers \ {w}
      PROVE  HoldsAToken(v)' /\ TimesAreTicks(v)'
  BY <1>1, Zenon DEF LeaseInv, HoldsAToken, TimesAreTicks
<1> QED
  BY <1>1, <1>2, <1>3, Zenon 

LEMMA RedeemingStepsKeep ==
    ASSUME LeaseInv, NEW w \in LeaseWorkers,
           \/ \E t \in wire, j \in NoopJobs \cup FileJobs : VerifyRedemption(w, t, j)
           \/ BeginCompletion(w) \/ StopWorker(w)
    PROVE  LeaseInv' /\ WindowsFollow
<1>0. /\ UNCHANGED <<noopJob, completions>> /\ UNCHANGED wire /\ UNCHANGED issuing
      /\ UNCHANGED leaseClock
  BY Zenon DEF VerifyRedemption, BeginCompletion, StopWorker
<1>1. UsedNonces' \subseteq UsedNonces
  BY <1>0, Zenon DEF UsedNonces
<1>2. NoncesAreBounded'
  BY <1>1, NoncesKept, Zenon DEF LeaseInv
<1>3. RedeemingShape' /\ \A v \in LeaseWorkers : HoldsAToken(v)' /\ TimesAreTicks(v)'
  <2>1. ASSUME NEW t \in wire, NEW j \in NoopJobs \cup FileJobs, VerifyRedemption(w, t, j)
        PROVE  RedeemingShape' /\ \A v \in LeaseWorkers : HoldsAToken(v)' /\ TimesAreTicks(v)'
    <3>1. /\ t.document.operation = "noop.complete"
          /\ redeeming' = [redeeming EXCEPT ![w] =
                              [pc |-> "verified", tokens |-> {t}, at |-> Never]]
      BY <2>1, Zenon DEF VerifyRedemption, Verifies
    <3>2. OneNoopToken({t})
      BY <3>1, ZenonT(60) DEF OneNoopToken
    <3>3. redeeming' = [redeeming EXCEPT ![w] =
                           [pc |-> "verified", tokens |-> {t}, at |-> Never]]
      BY <3>1, Zenon 
    <3>4. "verified" # "redeeming"
      OBVIOUS
    <3> QED
      BY <3>2, <3>3, <3>4, WorkerSet, ZenonT(60) 
  <2>2. ASSUME BeginCompletion(w)
        PROVE  RedeemingShape' /\ \A v \in LeaseWorkers : HoldsAToken(v)' /\ TimesAreTicks(v)'
    <3>1. /\ redeeming[w].pc = "verified" /\ leaseClock \in Nat
          /\ redeeming' = [redeeming EXCEPT ![w] =
                              [redeeming[w] EXCEPT !.pc = "redeeming", !.at = leaseClock]]
      BY <2>2, Zenon DEF BeginCompletion, LeaseInv
    <3>2. PICK t : redeeming[w].tokens = {t} /\ t.document.operation = "noop.complete"
      BY <3>1, Zenon DEF LeaseInv, HoldsAToken, OneNoopToken
    <3>3. PICK at \in Nat : at = leaseClock
      BY <3>1, Zenon 
    <3>4. redeeming' = [redeeming EXCEPT ![w] =
                           [pc |-> "redeeming", tokens |-> {t}, at |-> at]]
      <4>1. PICK p, q : redeeming[w] \in [pc : {p}, tokens : {{t}}, at : {q}]
        BY <3>2 DEF LeaseInv, RedeemingShape
      <4>2. PICK row : row = [redeeming[w] EXCEPT !.pc = "redeeming", !.at = leaseClock]
        BY Zenon 
      <4>3. row \in [pc : {"redeeming"}, tokens : {{t}}, at : {at}]
        BY <3>3, <4>1, <4>2, Zenon 
      <4>4. redeeming' = [redeeming EXCEPT ![w] = row]
        BY <3>1, <4>2, Zenon 
      <4> QED
        BY <4>3, <4>4, Zenon 
    <3>5. OneNoopToken({t})
      BY <3>2, ZenonT(60) DEF OneNoopToken
    <3> QED
      BY <3>4, <3>5, WorkerSet, Zenon 
  <2>3. ASSUME StopWorker(w)
        PROVE  RedeemingShape' /\ \A v \in LeaseWorkers : HoldsAToken(v)' /\ TimesAreTicks(v)'
    <3>1. redeeming' = [redeeming EXCEPT ![w] = [pc |-> "idle", tokens |-> {}, at |-> Never]]
      BY <2>3, Zenon DEF StopWorker, IdleWorker
    <3> QED
      BY <3>1, WorkerSet, ZenonT(60) 
  <2> QED
    BY <2>1, <2>2, <2>3, Zenon 
<1> QED
  BY <1>0, <1>2, <1>3, JobsKept, Zenon DEF LeaseInv

LEMMA CompletedIsValid ==
    ASSUME NEW old, NEW new, NEW at, JobRowIsValid(old), old.state = "leased", at >= old.issued,
           new.state = "completed", new.version = old.version, new.nonce = old.nonce,
           new.issued = old.issued, new.expires = old.expires, new.redeemed = at,
           new.effects = 1
    PROVE  JobRowIsValid(new)
<1>1. old # AvailableJob
  BY DEF AvailableJob
<1> QED
  BY <1>1, Zenon DEF JobRowIsValid

LEMMA CompleteNoopKeeps ==
    ASSUME LeaseInv, NEW w \in LeaseWorkers, NEW answered \in BOOLEAN,
           CompleteNoop(w, answered)
    PROVE  LeaseInv' /\ WindowsFollow
<1>0. /\ redeeming[w].pc = "redeeming" /\ redeeming[w].at \in Nat
      /\ redeeming' = [redeeming EXCEPT ![w] = [pc |-> "idle", tokens |-> {}, at |-> Never]]
      /\ UNCHANGED wire /\ UNCHANGED issuing /\ UNCHANGED leaseClock
  BY ZenonT(60) DEF CompleteNoop, LeaseInv, TimesAreTicks, IdleWorker
<1>1. RedeemingShape' /\ \A v \in LeaseWorkers : HoldsAToken(v)' /\ TimesAreTicks(v)'
  <2>1. redeeming' = [redeeming EXCEPT ![w] = [pc |-> "idle", tokens |-> {}, at |-> Never]]
    BY <1>0, Zenon 
  <2> QED
    BY <2>1, WorkerSet, ZenonT(60) 
<1>2. PICK t : /\ redeeming[w].tokens = {t}
               /\ t.document.operation = "noop.complete"
  BY <1>0, Zenon DEF LeaseInv, HoldsAToken, OneNoopToken
<1>3. (CHOOSE x \in redeeming[w].tokens : TRUE) = t
  BY <1>2, Zenon 
<1> DEFINE j == t.document.job
           at == redeeming[w].at
<1>4. ASSUME UNCHANGED <<noopJob, completions>>
      PROVE  LeaseInv' /\ WindowsFollow
  <2>1. UsedNonces' \subseteq UsedNonces
    BY <1>0, <1>4, Zenon DEF UsedNonces
  <2>2. NoncesAreBounded'
    BY <2>1, NoncesKept, Zenon DEF LeaseInv
  <2> QED
    BY <1>0, <1>1, <1>4, <2>2, JobsKept, Zenon DEF LeaseInv
<1>5. ASSUME /\ j \in NoopJobs
             /\ HoldsLease(noopJob[j], t.document, at)
             /\ noopJob' = [noopJob EXCEPT ![j] = CompletedRow(noopJob[j], at)]
             /\ \/ completions' = completions
                \/ completions' = completions \cup {[worker |-> w, token |-> t]}
      PROVE  LeaseInv' /\ WindowsFollow
  <2>1. noopJob[j] \in JobRows /\ JobRowIsValid(noopJob[j]) /\ at \in Nat
    BY <1>0, <1>5, Zenon DEF LeaseInv
  <2>2. /\ noopJob'[j] = CompletedRow(noopJob[j], at)
        /\ \A k \in NoopJobs \ {j} : noopJob'[k] = noopJob[k]
        /\ DOMAIN noopJob' = NoopJobs /\ noopJob' = [k \in NoopJobs |-> noopJob'[k]]
    BY <1>5, ZenonT(60) DEF LeaseInv
  <2>3. /\ CompletedRow(noopJob[j], at).state = "completed"
        /\ CompletedRow(noopJob[j], at).redeemed = at
        /\ CompletedRow(noopJob[j], at).effects = 1
        /\ CompletedRow(noopJob[j], at).version = noopJob[j].version
        /\ CompletedRow(noopJob[j], at).nonce = noopJob[j].nonce
        /\ CompletedRow(noopJob[j], at).issued = noopJob[j].issued
        /\ CompletedRow(noopJob[j], at).expires = noopJob[j].expires
        /\ CompletedRow(noopJob[j], at) \in JobRows
    <3> DEFINE r == noopJob[j]
               as(status, redeemed, effects) ==
                   [state : {status}, version : {r.version}, nonce : {r.nonce},
                    issued : {r.issued}, expires : {r.expires}, redeemed : {redeemed},
                    effects : {effects}]
    <3>1. /\ r \in as(r.state, r.redeemed, r.effects)
          /\ r.version \in Int /\ r.nonce \in Int /\ r.issued \in Int /\ r.expires \in Int
      BY <2>1, Zenon DEF JobRows
    <3> HIDE DEF r
    <3>2. CompletedRow(r, at) \in as("completed", at, 1)
      BY <3>1, Zenon DEF CompletedRow
    <3>3. PICK c : c = CompletedRow(r, at)
      OBVIOUS
    <3>4. /\ c.state = "completed" /\ c.redeemed = at /\ c.effects = 1
          /\ c.version = r.version /\ c.nonce = r.nonce /\ c.issued = r.issued
          /\ c.expires = r.expires /\ c \in JobRows
      BY <2>1, <3>1, <3>2, <3>3, SMTT(60) DEF JobRows
    <3> QED
      BY <3>3, <3>4, Zenon DEF r
  <2>4. JobRowIsValid(noopJob'[j])
    <3>1. PICK old, new : old = noopJob[j] /\ new = noopJob'[j]
      BY Zenon
    <3>2. /\ JobRowIsValid(old) /\ old.state = "leased" /\ at >= old.issued
          /\ new.state = "completed" /\ new.version = old.version /\ new.nonce = old.nonce
          /\ new.issued = old.issued /\ new.expires = old.expires /\ new.redeemed = at
          /\ new.effects = 1
      BY <1>5, <2>1, <2>2, <2>3, <3>1, Zenon DEF HoldsLease
    <3>3. JobRowIsValid(new)
      BY <3>2, CompletedIsValid, Zenon
    <3> QED
      BY <3>1, <3>3, Zenon
  <2>5. noopJob' \in [NoopJobs -> JobRows] /\ \A k \in NoopJobs : JobRowIsValid(noopJob'[k])
    <3>1. \A k \in NoopJobs : noopJob'[k] \in JobRows /\ JobRowIsValid(noopJob'[k])
      BY <2>2, <2>3, <2>4, ZenonT(60) DEF LeaseInv
    <3> QED
      BY <2>2, <3>1, Zenon 
  <2>6. \A c \in completions : c.token.document.job # j
    <3> SUFFICES ASSUME NEW c \in completions, c.token.document.job = j PROVE FALSE
      OBVIOUS
    <3>1. ReceiptIsBacked(c)
      BY Zenon DEF LeaseInv
    <3> QED
      BY <1>5, <3>1, Zenon DEF ReceiptIsBacked, HoldsLease
  <2> DEFINE receipt == [worker |-> w, token |-> t]
  <2>7. receipt.token = t
    OBVIOUS
  <2> HIDE DEF receipt
  <2>8. \A c \in completions' : c \in completions \/ c = receipt
    BY <1>5, Zenon DEF receipt
  <2>9. OneReceiptPerJob'
    BY <2>6, <2>7, <2>8, ZenonT(60) DEF LeaseInv, OneReceiptPerJob
  <2>10. ReceiptIsBacked(receipt)'
    <3>1. PICK lo, hi, row : lo = t.document.issued /\ hi = t.document.expires /\ row = noopJob'[j]
      BY Zenon
    <3>2. lo \in Int /\ hi \in Int /\ at >= lo /\ at < hi
      BY <1>5, <2>1, <3>1, Zenon DEF HoldsLease, JobRows
    <3>3. at \in lo .. (hi - 1)
      BY <2>1, <3>2
    <3>4. row.state = "completed" /\ row.nonce = t.document.nonce /\ row.redeemed = at
      BY <1>5, <2>2, <2>3, <3>1, Zenon DEF HoldsLease
    <3> QED
      BY <1>2, <1>5, <2>7, <3>1, <3>3, <3>4, Zenon DEF ReceiptIsBacked
  <2>11. ASSUME NEW c \in completions
         PROVE  ReceiptIsBacked(c)'
    <3>1. ReceiptIsBacked(c)
      BY Zenon DEF LeaseInv
    <3> QED
      BY <2>2, <2>6, <3>1, Zenon DEF ReceiptIsBacked
  <2>12. UsedNonces' \subseteq UsedNonces
    <3>1. \A k \in NoopJobs : noopJob'[k].nonce = noopJob[k].nonce
      BY <2>2, <2>3, Zenon 
    <3> QED
      BY <1>0, <3>1, Zenon DEF UsedNonces
  <2>13. NoncesAreBounded'
    BY <2>12, NoncesKept, Zenon DEF LeaseInv
  <2>14. WindowsFollow
    BY <2>2, <2>3, Zenon DEF WindowsFollow
  <2> QED
    BY <1>0, <1>1, <2>5, <2>8, <2>9, <2>10, <2>11, <2>13, <2>14, ZenonT(60) DEF LeaseInv
<1> QED
  BY <1>3, <1>4, <1>5, Zenon DEF CompleteNoop

LEMMA LeaseStep ==
    ASSUME LeaseInv, [LeaseNext]_leaseVars
    PROVE  LeaseInv' /\ WindowsFollow
<1>1. ASSUME (\E keep \in BOOLEAN : RotateKey(keep)) \/ DisablePrincipal \/ LeaseTick
             \/ UNCHANGED leaseVars
      PROVE  LeaseInv' /\ WindowsFollow
  <2>1. /\ UNCHANGED <<noopJob, issuing, redeeming, completions>> /\ UNCHANGED wire
        /\ leaseClock' \in Nat
    BY <1>1 DEF RotateKey, DisablePrincipal, LeaseTick, leaseVars, LeaseInv
  <2>2. UsedNonces' \subseteq UsedNonces
    BY <2>1, Zenon DEF UsedNonces
  <2> QED
    BY <2>1, <2>2, QuietStepsKeep, Zenon 
<1> QED
  BY <1>1, BeginIssueKeeps, IssueNoopKeeps, IssueFileKeeps, RedeemingStepsKeep,
     CompleteNoopKeeps, ZenonT(60) DEF LeaseNext

LEMMA LeaseStarts == LeaseInit => LeaseInv
<1> SUFFICES ASSUME LeaseInit PROVE LeaseInv
  OBVIOUS
<1>1. AvailableJob \in JobRows
  BY DEF AvailableJob, JobRows, Never
<1>2. /\ noopJob \in [NoopJobs -> JobRows] /\ \A j \in NoopJobs : JobRowIsValid(noopJob[j])
      /\ issuing \in [LeaseIssuers -> IssueRows \cup {NoIssue}]
      /\ leaseClock \in Nat /\ completions = {}
  BY <1>1, Zenon DEF LeaseInit, JobRowIsValid
<1>3. RedeemingShape /\ \A w \in LeaseWorkers : HoldsAToken(w) /\ TimesAreTicks(w)
  BY Zenon DEF LeaseInit, RedeemingShape, HoldsAToken, TimesAreTicks, IdleWorker
<1>4. UsedNonces \subseteq {0}
  BY Zenon DEF LeaseInit, UsedNonces, AvailableJob, NoIssue
<1>5. NoncesAreBounded
  BY <1>4 DEF NoncesAreBounded
<1> QED
  BY <1>2, <1>3, <1>5, ZenonT(60) DEF LeaseInv, OneReceiptPerJob

\* A no-op job has at most one receipt, of the lease its row carries last, and
\* two leases of one job never overlap, for every number of jobs, issuers,
\* workers, kept and late tokens and key rotations.
THEOREM LastLeasesAreReceipted == LeaseSpec => ReceiptsBelongToTheLastLease
<1>1. LeaseInv => /\ \A j \in NoopJobs : JobRowIsValid(noopJob[j])
                  /\ \A c, d \in completions :
                        c.token.document.job = d.token.document.job => c = d
                  /\ \A c \in completions :
                        LET claims == c.token.document IN
                        /\ claims.operation = "noop.complete"
                        /\ claims.job \in NoopJobs
                        /\ noopJob[claims.job].state = "completed"
                        /\ noopJob[claims.job].nonce = claims.nonce
                        /\ noopJob[claims.job].redeemed \in claims.issued .. (claims.expires - 1)
  BY Zenon DEF LeaseInv, OneReceiptPerJob, ReceiptIsBacked
<1>2. LeaseInv /\ [LeaseNext]_leaseVars => LeaseInv' /\ WindowsFollow
  BY LeaseStep, Zenon 
<1> QED
  BY <1>1, <1>2, LeaseStarts, PTL DEF LeaseSpec, ReceiptsBelongToTheLastLease, WindowsFollow
=============================================================================
