------------------------- MODULE ControlPlaneProofs -------------------------
(***************************************************************************)
(* Proofs about releases and about the progress of Sources: promotions form*)
(* a line, and what lies before a publish watermark is what Runtime shows, *)
(* for every set of runs, Sources, callers and paths.                      *)
(***************************************************************************)
EXTENDS Releases, SourceProgress, FiniteSetTheorems, TLAPS

-----------------------------------------------------------------------------
(* Releases.                                                               *)

-----------------------------------------------------------------------------
(* The rows of the runs.                                                   *)

RunShape(run) ==
    run = [stage |-> run.stage, contract |-> run.contract, evidence |-> run.evidence,
           profile |-> run.profile, keyVersion |-> run.keyVersion, runs |-> run.runs,
           candidate |-> run.candidate, evaluation |-> run.evaluation,
           issuedAt |-> run.issuedAt, expiresAt |-> run.expiresAt,
           observedAt |-> run.observedAt, receipt |-> run.receipt]

WithRuns(run, runs1) == [run EXCEPT !.runs = runs1]
Ended(run, runs1, receipt1) == [run EXCEPT !.runs = runs1, !.receipt = receipt1]
WithStage(run, stage1) == [run EXCEPT !.stage = stage1]
WithEvaluation(run, evaluation1) ==
    [run EXCEPT !.stage = "evaluated", !.evaluation = evaluation1]
WithCall(run, issued1, expires1) ==
    [run EXCEPT !.stage = "authorized", !.issuedAt = issued1, !.expiresAt = expires1]

\* What the invariant says of a run is read off these fields.
SameWork(new, run) ==
    /\ RunShape(new) /\ new.candidate = run.candidate /\ new.observedAt = run.observedAt
    /\ new.keyVersion = run.keyVersion

LEMMA RunParts ==
    ASSUME NEW run, RunShape(run)
    PROVE  run \in
       [stage : {run.stage}, contract : {run.contract}, evidence : {run.evidence},
        profile : {run.profile}, keyVersion : {run.keyVersion}, runs : {run.runs},
        candidate : {run.candidate}, evaluation : {run.evaluation},
        issuedAt : {run.issuedAt}, expiresAt : {run.expiresAt},
        observedAt : {run.observedAt}, receipt : {run.receipt}]
BY Zenon DEF RunShape

LEMMA RunsMove ==
    ASSUME NEW run, RunShape(run), NEW runs1
    PROVE  LET new == WithRuns(run, runs1)
           IN SameWork(new, run) /\ new.stage = run.stage /\ new.receipt = run.receipt
<1>0. run \in
       [stage : {run.stage}, contract : {run.contract}, evidence : {run.evidence},
        profile : {run.profile}, keyVersion : {run.keyVersion}, runs : {run.runs},
        candidate : {run.candidate}, evaluation : {run.evaluation},
        issuedAt : {run.issuedAt}, expiresAt : {run.expiresAt},
        observedAt : {run.observedAt}, receipt : {run.receipt}]
  BY RunParts, Zenon 
<1>1. WithRuns(run, runs1) \in
       [stage : {run.stage}, contract : {run.contract}, evidence : {run.evidence},
        profile : {run.profile}, keyVersion : {run.keyVersion}, runs : {runs1},
        candidate : {run.candidate}, evaluation : {run.evaluation},
        issuedAt : {run.issuedAt}, expiresAt : {run.expiresAt},
        observedAt : {run.observedAt}, receipt : {run.receipt}]
  BY <1>0, Zenon DEF WithRuns
<1> QED
  BY <1>1, Zenon DEF RunShape, SameWork

LEMMA RunEnds ==
    ASSUME NEW run, RunShape(run), NEW runs1, NEW receipt1
    PROVE  LET new == Ended(run, runs1, receipt1)
           IN SameWork(new, run) /\ new.stage = run.stage /\ new.receipt = receipt1
<1>0. run \in
       [stage : {run.stage}, contract : {run.contract}, evidence : {run.evidence},
        profile : {run.profile}, keyVersion : {run.keyVersion}, runs : {run.runs},
        candidate : {run.candidate}, evaluation : {run.evaluation},
        issuedAt : {run.issuedAt}, expiresAt : {run.expiresAt},
        observedAt : {run.observedAt}, receipt : {run.receipt}]
  BY RunParts, Zenon 
<1>1. Ended(run, runs1, receipt1) \in
       [stage : {run.stage}, contract : {run.contract}, evidence : {run.evidence},
        profile : {run.profile}, keyVersion : {run.keyVersion}, runs : {runs1},
        candidate : {run.candidate}, evaluation : {run.evaluation},
        issuedAt : {run.issuedAt}, expiresAt : {run.expiresAt},
        observedAt : {run.observedAt}, receipt : {receipt1}]
  BY <1>0, Zenon DEF Ended
<1> QED
  BY <1>1, Zenon DEF RunShape, SameWork

LEMMA StageMoves ==
    ASSUME NEW run, RunShape(run), NEW stage1
    PROVE  LET new == WithStage(run, stage1)
           IN SameWork(new, run) /\ new.stage = stage1 /\ new.receipt = run.receipt
<1>0. run \in
       [stage : {run.stage}, contract : {run.contract}, evidence : {run.evidence},
        profile : {run.profile}, keyVersion : {run.keyVersion}, runs : {run.runs},
        candidate : {run.candidate}, evaluation : {run.evaluation},
        issuedAt : {run.issuedAt}, expiresAt : {run.expiresAt},
        observedAt : {run.observedAt}, receipt : {run.receipt}]
  BY RunParts, Zenon 
<1>1. WithStage(run, stage1) \in
       [stage : {stage1}, contract : {run.contract}, evidence : {run.evidence},
        profile : {run.profile}, keyVersion : {run.keyVersion}, runs : {run.runs},
        candidate : {run.candidate}, evaluation : {run.evaluation},
        issuedAt : {run.issuedAt}, expiresAt : {run.expiresAt},
        observedAt : {run.observedAt}, receipt : {run.receipt}]
  BY <1>0, Zenon DEF WithStage
<1> QED
  BY <1>1, Zenon DEF RunShape, SameWork

LEMMA EvaluationMoves ==
    ASSUME NEW run, RunShape(run), NEW evaluation1
    PROVE  LET new == WithEvaluation(run, evaluation1)
           IN SameWork(new, run) /\ new.stage = "evaluated" /\ new.receipt = run.receipt
<1>0. run \in
       [stage : {run.stage}, contract : {run.contract}, evidence : {run.evidence},
        profile : {run.profile}, keyVersion : {run.keyVersion}, runs : {run.runs},
        candidate : {run.candidate}, evaluation : {run.evaluation},
        issuedAt : {run.issuedAt}, expiresAt : {run.expiresAt},
        observedAt : {run.observedAt}, receipt : {run.receipt}]
  BY RunParts, Zenon 
<1>1. WithEvaluation(run, evaluation1) \in
       [stage : {"evaluated"}, contract : {run.contract}, evidence : {run.evidence},
        profile : {run.profile}, keyVersion : {run.keyVersion}, runs : {run.runs},
        candidate : {run.candidate}, evaluation : {evaluation1},
        issuedAt : {run.issuedAt}, expiresAt : {run.expiresAt},
        observedAt : {run.observedAt}, receipt : {run.receipt}]
  BY <1>0, Zenon DEF WithEvaluation
<1> QED
  BY <1>1, Zenon DEF RunShape, SameWork

LEMMA CallMoves ==
    ASSUME NEW run, RunShape(run), NEW issued1, NEW expires1
    PROVE  LET new == WithCall(run, issued1, expires1)
           IN SameWork(new, run) /\ new.stage = "authorized" /\ new.receipt = run.receipt
<1>0. run \in
       [stage : {run.stage}, contract : {run.contract}, evidence : {run.evidence},
        profile : {run.profile}, keyVersion : {run.keyVersion}, runs : {run.runs},
        candidate : {run.candidate}, evaluation : {run.evaluation},
        issuedAt : {run.issuedAt}, expiresAt : {run.expiresAt},
        observedAt : {run.observedAt}, receipt : {run.receipt}]
  BY RunParts, Zenon 
<1>1. WithCall(run, issued1, expires1) \in
       [stage : {"authorized"}, contract : {run.contract}, evidence : {run.evidence},
        profile : {run.profile}, keyVersion : {run.keyVersion}, runs : {run.runs},
        candidate : {run.candidate}, evaluation : {run.evaluation},
        issuedAt : {issued1}, expiresAt : {expires1},
        observedAt : {run.observedAt}, receipt : {run.receipt}]
  BY <1>0, Zenon DEF WithCall
<1> QED
  BY <1>1, Zenon DEF RunShape, SameWork


-----------------------------------------------------------------------------
(* The inductive invariant.                                                *)

AuditRow == [generation : Nat, evaluation : Evaluation, observedAt : SUBSET Nat,
             promotedAt : Nat]

CorpusIsSound ==
    /\ revisions \in Seq(Profiles) /\ Len(revisions) <= PublicationBound
    /\ activeRevision \in [Resources -> 0 .. Len(revisions)]
    /\ releaseClock \in 0 .. ReleaseClockBound

TablesAreSound == ManifestTableIsValid /\ CandidateTableIsValid /\ EvaluationTableIsValid

\* The pointer is the last line of the audit.
LineIsSound ==
    /\ audit \in Seq(AuditRow)
    /\ ActivationTablesAreValid
    /\ pointer.generation = Len(audit)
    /\ pointer.manifest = IF audit = <<>> THEN NoManifest
                          ELSE audit[Len(audit)].evaluation.candidate.manifest
    /\ \A g \in DOMAIN audit :
          LET promoted == audit[g].evaluation.candidate
          IN /\ promoted.generation = g - 1
             /\ promoted.base = IF g = 1 THEN NoManifest
                                ELSE audit[g - 1].evaluation.candidate.manifest
             /\ GatesOf[promoted.evidence] = Gate
             /\ promoted.manifest.refs = audit[g].observedAt

\* The vectors of the active release are of its profile, for good: a Revision
\* is never embedded again.
ReleaseIsEmbedded ==
    \A v \in pointer.manifest.refs :
        v \in 1 .. Len(revisions) /\ revisions[v] = pointer.manifest.profile

\* What a run has observed: a candidate made against some past pointer, of
\* exactly the Revisions that were active.
RunIsSound(run) ==
    /\ RunShape(run)
    /\ run.receipt \in 0 .. Len(audit)
    /\ run.stage # "idle" =>
         /\ run.candidate \in Candidate
         /\ (run.candidate.generation = 0) <=> (run.candidate.base = NoManifest)
         /\ run.candidate.manifest.refs = run.observedAt
         /\ run.observedAt \subseteq 1 .. Len(revisions)
         /\ run.keyVersion \in KeyVersions

RunsAreSound ==
    /\ operator = [o \in Operators |-> operator[o]]
    /\ \A o \in Operators : RunIsSound(operator[o])

ReleaseInv ==
    CorpusIsSound /\ TablesAreSound /\ LineIsSound /\ ReleaseIsEmbedded /\ RunsAreSound

LEMMA NoManifestIsNone == NoManifest \notin Manifest
BY Zenon DEF NoManifest, Manifest

LEMMA PointerIsKnown ==
    ASSUME ReleaseInv
    PROVE  /\ Len(audit) \in Nat /\ pointer.generation \in Nat
           /\ (pointer.generation = 0) <=> (pointer.manifest = NoManifest)
           /\ pointer.manifest \in Manifest \cup {NoManifest}
           /\ audit # <<>> => pointer.manifest \in Manifest
<1>1. audit \in Seq(AuditRow) /\ pointer.generation = Len(audit)
  BY Zenon DEF ReleaseInv, LineIsSound
<1>2. CASE audit = <<>>
  BY <1>1, <1>2 DEF ReleaseInv, LineIsSound
<1>3. CASE audit # <<>>
  <2>1. Len(audit) \in DOMAIN audit /\ Len(audit) > 0
    BY <1>1, <1>3
  <2>2. PICK row \in AuditRow : row = audit[Len(audit)]
    BY <1>1, <2>1
  <2>3. row.evaluation.candidate.manifest \in Manifest
    BY <2>2, Zenon DEF AuditRow, Evaluation, Candidate
  <2>4. pointer.manifest \in Manifest
    BY <1>3, <2>2, <2>3, Zenon DEF ReleaseInv, LineIsSound
  <2> QED
    BY <1>1, <2>1, <2>4, NoManifestIsNone
<1> QED
  BY <1>2, <1>3, Zenon 

\* The invariant says what the property says.
LEMMA InvariantIsTheLine ==
    ASSUME ReleaseInv
    PROVE  PromotionsFormALine
<1>1. ~ MeetsMixedVectors
  BY Zenon DEF ReleaseInv, ReleaseIsEmbedded, MeetsMixedVectors, ReleaseScope, ObservedRelease
<1>2. \A o \in Operators : operator[o].receipt \in 0 .. Len(audit)
  BY Zenon DEF ReleaseInv, RunsAreSound, RunIsSound
<1>3. audit # <<>> => pointer.manifest = audit[Len(audit)].evaluation.candidate.manifest
  BY Zenon DEF ReleaseInv, LineIsSound
<1>4. /\ ManifestTableIsValid /\ CandidateTableIsValid /\ EvaluationTableIsValid
      /\ ActivationTablesAreValid /\ pointer.generation = Len(audit)
  BY Zenon DEF ReleaseInv, LineIsSound, TablesAreSound
<1>5. \A g \in DOMAIN audit :
          LET promoted == audit[g].evaluation.candidate
          IN /\ promoted.generation = g - 1
             /\ promoted.base = IF g = 1 THEN NoManifest
                                ELSE audit[g - 1].evaluation.candidate.manifest
             /\ GatesOf[promoted.evidence] = Gate
             /\ promoted.manifest.refs = audit[g].observedAt
  BY Zenon DEF ReleaseInv, LineIsSound
<1> QED
  BY <1>1, <1>2, <1>3, <1>4, <1>5, Zenon DEF PromotionsFormALine

-----------------------------------------------------------------------------
(* Steps of the runs.                                                      *)

\* One run moves; Revisions stay and no audit row goes.
LEMMA RunsStep ==
    ASSUME RunsAreSound, NEW o \in Operators, NEW new,
           operator' = [operator EXCEPT ![o] = new], RunIsSound(new)',
           revisions' = revisions, Len(audit) \in Nat, Len(audit') \in Nat,
           Len(audit) <= Len(audit')
    PROVE  RunsAreSound'
<1>1. /\ operator'[o] = new /\ \A p \in Operators \ {o} : operator'[p] = operator[p]
      /\ operator' = [p \in Operators |-> operator'[p]]
  BY Zenon DEF RunsAreSound
<1>2. ASSUME NEW p \in Operators \ {o}
      PROVE  RunIsSound(operator[p])'
  <2>1. PICK run : run = operator[p] /\ run = operator'[p] /\ RunIsSound(run)
    BY <1>1, Zenon DEF RunsAreSound
  <2>2. RunIsSound(run)'
    BY <2>1 DEF RunIsSound
  <2> QED
    BY <2>1, <2>2, Zenon 
<1>3. RunIsSound(operator[o])'
  BY <1>1, Zenon 
<1> QED
  BY <1>1, <1>2, <1>3, Zenon DEF RunsAreSound

LEMMA IdleRunIsSound ==
    ASSUME NEW runs1, NEW receipt1, receipt1 \in 0 .. Len(audit')
    PROVE  RunIsSound(Ended(IdleRun, runs1, receipt1))'
<1>0. PICK idle : idle = IdleRun
  BY Zenon 
<1>1. RunShape(idle) /\ idle.stage = "idle"
  BY <1>0, Zenon DEF IdleRun, RunShape
<1>2. PICK new : new = Ended(idle, runs1, receipt1)
  BY Zenon 
<1>3. RunShape(new) /\ new.stage = "idle" /\ new.receipt = receipt1
  BY <1>1, <1>2, RunEnds DEF SameWork
<1>4. RunIsSound(new)'
  BY <1>3, Zenon DEF RunIsSound
<1> QED
  BY <1>0, <1>2, <1>4, Zenon 

LEMMA EndedRuns ==
    ASSUME RunsAreSound, NEW o \in Operators, NEW receipt, End(o, receipt),
           receipt \in 0 .. Len(audit'),
           revisions' = revisions, Len(audit) \in Nat, Len(audit') \in Nat,
           Len(audit) <= Len(audit')
    PROVE  RunsAreSound'
<1>1. PICK runs1 : runs1 = operator[o].runs
  BY Zenon 
<1>2. PICK new : new = Ended(IdleRun, runs1, receipt)
  BY Zenon 
<1>3. operator' = [operator EXCEPT ![o] = new]
  BY <1>1, <1>2, Zenon DEF End, Ended
<1>4. RunIsSound(new)'
  BY <1>2, IdleRunIsSound, Zenon 
<1> QED
  BY <1>3, <1>4, RunsStep, Zenon 

\* Tables, line and corpus stay where a step leaves their columns.
LEMMA TablesStay ==
    ASSUME TablesAreSound, UNCHANGED lineageVars
    PROVE  TablesAreSound'
BY Zenon DEF TablesAreSound, lineageVars, ManifestTableIsValid, CandidateTableIsValid,
       EvaluationTableIsValid, Identifies

LEMMA LineStays ==
    ASSUME LineIsSound, UNCHANGED <<pointer, audit>>, manifests \subseteq manifests',
           evaluations \subseteq evaluations'
    PROVE  LineIsSound'
BY Zenon DEF LineIsSound, ActivationTablesAreValid

LEMMA CorpusStays ==
    ASSUME CorpusIsSound, ReleaseIsEmbedded, UNCHANGED <<revisions, activeRevision, releaseClock>>
    PROVE  CorpusIsSound' /\ (pointer' = pointer => ReleaseIsEmbedded')
BY Zenon DEF CorpusIsSound, ReleaseIsEmbedded

\* A step of a run that neither stores nor promotes anything.
LEMMA QuietRunStep ==
    ASSUME ReleaseInv, NEW o \in Operators, NEW new, RunIsSound(new)',
           operator' = [operator EXCEPT ![o] = new],
           UNCHANGED <<corpusVars, lineageVars, grant, pointer, audit, releaseClock>>
    PROVE  ReleaseInv'
<1>1. TablesAreSound'
  BY TablesStay, Zenon DEF ReleaseInv
<1>2. LineIsSound'
  BY LineStays, Zenon DEF ReleaseInv, lineageVars
<1>3. CorpusIsSound' /\ ReleaseIsEmbedded'
  BY CorpusStays, Zenon DEF ReleaseInv, corpusVars
<1>4. RunsAreSound'
  <2>1. /\ RunsAreSound /\ Len(audit) \in Nat /\ Len(audit') \in Nat /\ Len(audit) <= Len(audit')
        /\ revisions' = revisions
    BY PointerIsKnown DEF ReleaseInv, corpusVars
  <2> QED
    BY <2>1, RunsStep, Zenon 
<1> QED
  BY <1>1, <1>2, <1>3, <1>4, Zenon DEF ReleaseInv

LEMMA ObserveStep ==
    ASSUME ReleaseInv, NEW o \in Operators, NEW c \in Contracts, NEW e \in EvidenceFiles,
           NEW p \in Profiles, NEW k \in KeyVersions, ObserveSnapshot(o, c, e, p, k)
    PROVE  ReleaseInv'
<1>0. UNCHANGED <<corpusVars, lineageVars, grant, pointer, audit, releaseClock>>
  BY Zenon DEF ObserveSnapshot
<1>1. CASE GrantIsCurrent /\ ActiveRevisions # {}
  <2>1. PICK refs, gen, base, m, cand, runs1 :
           /\ refs = ActiveRevisions /\ gen = pointer.generation /\ base = pointer.manifest
           /\ m = [contract |-> c, refs |-> refs, profile |-> p]
           /\ cand = [manifest |-> m, generation |-> gen, base |-> base, evidence |-> e]
           /\ runs1 = operator[o].runs + 1
    BY Zenon 
  <2>2. PICK new : new =
           [stage |-> "observed", contract |-> c, evidence |-> e, profile |-> p,
            keyVersion |-> k, runs |-> runs1, candidate |-> cand, evaluation |-> "none",
            issuedAt |-> 0, expiresAt |-> 0, observedAt |-> refs, receipt |-> 0]
    BY Zenon 
  <2>3. operator' = [operator EXCEPT ![o] = new]
    BY <1>1, <2>1, <2>2, Zenon DEF ObserveSnapshot, NewCandidate, NewManifest
  <2>4. refs \subseteq 1 .. Len(revisions) /\ refs \subseteq 1 .. PublicationBound /\ refs # {}
    <3>1. /\ Len(revisions) \in Nat /\ PublicationBound \in Nat
          /\ Len(revisions) <= PublicationBound
          /\ activeRevision \in [Resources -> 0 .. Len(revisions)]
      BY ReleaseAssumption DEF ReleaseInv, CorpusIsSound
    <3>2. ASSUME NEW v \in refs
          PROVE  v \in 1 .. Len(revisions)
      <4>1. PICK r \in Resources : v = activeRevision[r] /\ activeRevision[r] # 0
        BY <2>1, Zenon DEF ActiveRevisions, Live
      <4> QED
        BY <3>1, <4>1
    <3> QED
      BY <1>1, <2>1, <3>1, <3>2
  <2>5. m \in Manifest
    BY <2>1, <2>4, Zenon DEF Manifest
  <2>6. /\ gen \in Nat /\ base \in Manifest \cup {NoManifest}
        /\ (gen = 0) <=> (base = NoManifest)
    BY <2>1, PointerIsKnown, Zenon 
  <2>7. cand \in Candidate
    BY <2>1, <2>5, <2>6, Zenon DEF Candidate
  <2>8. /\ RunShape(new) /\ new.receipt = 0 /\ new.candidate = cand /\ new.observedAt = refs
        /\ new.keyVersion = k
    BY <2>2, Zenon DEF RunShape
  <2>9. RunIsSound(new)'
    <3>1. 0 \in 0 .. Len(audit') /\ revisions' = revisions
      BY <1>0, PointerIsKnown DEF corpusVars
    <3>2. /\ cand.generation = gen /\ cand.base = base /\ cand.manifest = m /\ m.refs = refs
      BY <2>1, Zenon 
    <3> QED
      BY <2>4, <2>6, <2>7, <2>8, <3>1, <3>2, Zenon DEF RunIsSound
  <2> QED
    BY <1>0, <2>3, <2>9, QuietRunStep, Zenon 
<1>2. CASE ~ (GrantIsCurrent /\ ActiveRevisions # {})
  <2>1. PICK run, runs1 : run = operator[o] /\ runs1 = operator[o].runs + 1
    BY Zenon 
  <2>2. PICK new : new = WithRuns(run, runs1)
    BY Zenon 
  <2>3. operator' = [operator EXCEPT ![o] = new]
    BY <1>2, <2>1, <2>2, Zenon DEF ObserveSnapshot, WithRuns
  <2>4. RunIsSound(run) /\ RunShape(run)
    BY <2>1, Zenon DEF ReleaseInv, RunsAreSound, RunIsSound
  <2>5. SameWork(new, run) /\ new.stage = run.stage /\ new.receipt = run.receipt
    BY <2>2, <2>4, RunsMove, Zenon 
  <2>6. RunIsSound(new)'
    BY <1>0, <2>4, <2>5, Zenon DEF RunIsSound, SameWork, corpusVars
  <2> QED
    BY <1>0, <2>3, <2>6, QuietRunStep, Zenon 
<1> QED
  BY <1>1, <1>2, Zenon 


-----------------------------------------------------------------------------
(* Steps that store lineage.                                               *)

LEMMA PersistCandidateStep ==
    ASSUME ReleaseInv, NEW o \in Operators, PersistCandidate(o)
    PROVE  ReleaseInv'
<1>0. /\ UNCHANGED <<corpusVars, evaluations, grant, pointer, audit, releaseClock>>
      /\ operator[o].stage = "observed"
  BY Zenon DEF PersistCandidate
<1>1. PICK run, candidate, manifest :
         /\ run = operator[o] /\ candidate = run.candidate /\ manifest = candidate.manifest
  BY Zenon 
<1>2. /\ RunIsSound(run) /\ RunShape(run) /\ run.stage = "observed"
      /\ candidate \in Candidate /\ manifest \in Manifest
      /\ (candidate.generation = 0) <=> (candidate.base = NoManifest)
  BY <1>0, <1>1, Zenon DEF ReleaseInv, RunsAreSound, RunIsSound, Candidate
<1>3. CorpusIsSound' /\ ReleaseIsEmbedded'
  BY <1>0, CorpusStays, Zenon DEF ReleaseInv, corpusVars
<1>4. /\ RunsAreSound /\ Len(audit) \in Nat /\ Len(audit') \in Nat /\ Len(audit) <= Len(audit')
      /\ revisions' = revisions
  BY <1>0, PointerIsKnown DEF ReleaseInv, corpusVars
<1>5. CASE \/ Collides(manifests, ManifestRef, candidate.manifest)
           \/ Collides(candidates, CandidateRef, candidate)
  <2>1. End(o, 0) /\ UNCHANGED <<manifests, candidates>>
    BY <1>1, <1>5, Zenon DEF PersistCandidate
  <2>2. TablesAreSound' /\ LineIsSound'
    BY <1>0, <2>1, TablesStay, LineStays, Zenon DEF ReleaseInv, lineageVars
  <2>3. RunsAreSound'
    BY <1>4, <2>1, EndedRuns
  <2> QED
    BY <1>3, <2>2, <2>3, Zenon DEF ReleaseInv
<1>6. CASE ~ (\/ Collides(manifests, ManifestRef, candidate.manifest)
              \/ Collides(candidates, CandidateRef, candidate))
  <2>1. /\ manifests' = manifests \cup {manifest}
        /\ candidates' = candidates \cup {candidate}
        /\ operator' = [operator EXCEPT ![o] = WithStage(run, "persisted")]
    BY <1>1, <1>6, Zenon DEF PersistCandidate, WithStage
  <2>2. ManifestTableIsValid'
    <3>1. ManifestTableIsValid /\ ~ Collides(manifests, ManifestRef, manifest)
      BY <1>1, <1>6, Zenon DEF ReleaseInv, TablesAreSound
    <3>2. \A stored \in manifests : ManifestRef(stored) = ManifestRef(manifest) => stored = manifest
      BY <3>1, Zenon DEF Collides
    <3> QED
      BY <1>2, <2>1, <3>1, <3>2, Zenon DEF ManifestTableIsValid, Identifies
  <2>3. CandidateTableIsValid'
    <3>1. CandidateTableIsValid /\ ~ Collides(candidates, CandidateRef, candidate)
      BY <1>1, <1>6, Zenon DEF ReleaseInv, TablesAreSound
    <3>2. \A stored \in candidates :
             CandidateRef(stored) = CandidateRef(candidate) => stored = candidate
      BY <3>1, Zenon DEF Collides
    <3>3. Identifies(CandidateRef, candidates')
      BY <2>1, <3>1, <3>2, Zenon DEF CandidateTableIsValid, Identifies
    <3> QED
      BY <1>1, <1>2, <2>1, <3>1, <3>3, Zenon DEF CandidateTableIsValid, Identifies
  <2>4. EvaluationTableIsValid'
    BY <1>0, <2>1, Zenon DEF ReleaseInv, TablesAreSound, EvaluationTableIsValid, Identifies
  <2>5. LineIsSound'
    BY <1>0, <2>1, LineStays, Zenon DEF ReleaseInv
  <2>6. PICK new : new = WithStage(run, "persisted")
    BY Zenon 
  <2>7. SameWork(new, run) /\ new.receipt = run.receipt
    BY <1>2, <2>6, StageMoves, Zenon 
  <2>8. RunIsSound(new)'
    BY <1>0, <1>2, <2>7, Zenon DEF RunIsSound, SameWork, corpusVars
  <2>9. RunsAreSound'
    BY <1>4, <2>1, <2>6, <2>8, RunsStep, Zenon 
  <2> QED
    BY <1>3, <2>2, <2>3, <2>4, <2>5, <2>9, Zenon DEF ReleaseInv, TablesAreSound
<1> QED
  BY <1>5, <1>6, Zenon 

LEMMA EvaluateStep ==
    ASSUME ReleaseInv, NEW o \in Operators, EvaluateCandidate(o)
    PROVE  ReleaseInv'
<1>0. /\ UNCHANGED <<corpusVars, manifests, candidates, grant, pointer, audit, releaseClock>>
      /\ operator[o].stage = "persisted"
      /\ LoadsCandidate(operator[o].candidate)
  BY Zenon DEF EvaluateCandidate
<1>1. PICK run, candidate, evaluation :
         /\ run = operator[o] /\ candidate = run.candidate
         /\ evaluation = SignedEvaluation(candidate, run.keyVersion)
  BY Zenon 
<1>2. /\ RunIsSound(run) /\ RunShape(run) /\ run.stage = "persisted"
      /\ candidate \in Candidate /\ run.keyVersion \in KeyVersions /\ candidate \in candidates
  BY <1>0, <1>1, Zenon DEF ReleaseInv, RunsAreSound, RunIsSound, LoadsCandidate
<1>3. evaluation \in Evaluation /\ evaluation.candidate = candidate
  BY <1>1, <1>2, Zenon DEF SignedEvaluation, Evaluation, ReleaseInv, CorpusIsSound
<1>4. CorpusIsSound' /\ ReleaseIsEmbedded'
  BY <1>0, CorpusStays, Zenon DEF ReleaseInv, corpusVars
<1>5. /\ RunsAreSound /\ Len(audit) \in Nat /\ Len(audit') \in Nat /\ Len(audit) <= Len(audit')
      /\ revisions' = revisions
  BY <1>0, PointerIsKnown DEF ReleaseInv, corpusVars
<1>6. PersistEvaluation(o, evaluation)
  BY <1>1, Zenon DEF EvaluateCandidate
<1>7. CASE Collides(evaluations, EvaluationRef, evaluation)
  <2>1. End(o, 0) /\ UNCHANGED evaluations
    BY <1>6, <1>7, Zenon DEF PersistEvaluation
  <2>2. TablesAreSound' /\ LineIsSound'
    BY <1>0, <2>1, TablesStay, LineStays, Zenon DEF ReleaseInv, lineageVars
  <2>3. RunsAreSound'
    BY <1>5, <2>1, EndedRuns
  <2> QED
    BY <1>4, <2>2, <2>3, Zenon DEF ReleaseInv
<1>8. CASE ~ Collides(evaluations, EvaluationRef, evaluation)
  <2>1. /\ evaluations' = evaluations \cup {evaluation}
        /\ operator' = [operator EXCEPT ![o] = WithEvaluation(run, evaluation)]
    BY <1>1, <1>6, <1>8, Zenon DEF PersistEvaluation, WithEvaluation
  <2>2. ManifestTableIsValid' /\ CandidateTableIsValid'
    BY <1>0, Zenon DEF ReleaseInv, TablesAreSound, ManifestTableIsValid, CandidateTableIsValid, Identifies
  <2>3. EvaluationTableIsValid'
    <3>1. EvaluationTableIsValid
      BY Zenon DEF ReleaseInv, TablesAreSound
    <3>2. \A stored \in evaluations :
             EvaluationRef(stored) = EvaluationRef(evaluation) => stored = evaluation
      BY <1>8, Zenon DEF Collides
    <3>3. Identifies(EvaluationRef, evaluations')
      BY <2>1, <3>1, <3>2, Zenon DEF EvaluationTableIsValid, Identifies
    <3> QED
      BY <1>0, <1>2, <1>3, <2>1, <3>1, <3>3, Zenon DEF EvaluationTableIsValid, Identifies
  <2>5. LineIsSound'
    BY <1>0, <2>1, LineStays, Zenon DEF ReleaseInv
  <2>6. PICK new : new = WithEvaluation(run, evaluation)
    BY Zenon 
  <2>7. SameWork(new, run) /\ new.receipt = run.receipt
    BY <1>2, <2>6, EvaluationMoves, Zenon 
  <2>8. RunIsSound(new)'
    BY <1>0, <1>2, <2>7, Zenon DEF RunIsSound, SameWork, corpusVars
  <2>9. RunsAreSound'
    BY <1>5, <2>1, <2>6, <2>8, RunsStep, Zenon 
  <2> QED
    BY <1>4, <2>2, <2>3, <2>5, <2>9, Zenon DEF ReleaseInv, TablesAreSound
<1> QED
  BY <1>7, <1>8, Zenon 

LEMMA AuthorizeStep ==
    ASSUME ReleaseInv, NEW o \in Operators, AuthorizeCall(o)
    PROVE  ReleaseInv'
<1>0. /\ UNCHANGED <<corpusVars, lineageVars, grant, pointer, audit, releaseClock>>
      /\ operator[o].stage = "evaluated"
  BY Zenon DEF AuthorizeCall
<1>1. PICK run, issued, expires :
         /\ run = operator[o]
         /\ issued = TrustedPromotionCall(OperatorIdentity).issuedAt
         /\ expires = TrustedPromotionCall(OperatorIdentity).expiresAt
  BY Zenon 
<1>2. PICK new : new = WithCall(run, issued, expires)
  BY Zenon 
<1>3. operator' = [operator EXCEPT ![o] = new]
  BY <1>1, <1>2, Zenon DEF AuthorizeCall, WithCall
<1>4. RunIsSound(run) /\ RunShape(run) /\ run.stage = "evaluated"
  BY <1>0, <1>1, Zenon DEF ReleaseInv, RunsAreSound, RunIsSound
<1>5. SameWork(new, run) /\ new.receipt = run.receipt
  BY <1>2, <1>4, CallMoves, Zenon 
<1>6. RunIsSound(new)'
  BY <1>0, <1>4, <1>5, Zenon DEF RunIsSound, SameWork, corpusVars
<1> QED
  BY <1>0, <1>3, <1>6, QuietRunStep, Zenon 


-----------------------------------------------------------------------------
(* Promotion.                                                              *)

\* The audit and the pointer grow by one accepted line.
LEMMA LineGrows ==
    ASSUME ReleaseInv, NEW row \in AuditRow,
           NEW candidate, candidate = row.evaluation.candidate,
           candidate.generation = pointer.generation, candidate.base = pointer.manifest,
           GatesOf[candidate.evidence] = Gate, candidate.manifest.refs = row.observedAt,
           row.generation = candidate.generation + 1,
           row.evaluation \in evaluations, candidate.manifest \in manifests,
           pointer' = [generation |-> candidate.generation + 1, manifest |-> candidate.manifest],
           audit' = Append(audit, row), UNCHANGED lineageVars
    PROVE  LineIsSound'
<1>1. audit \in Seq(AuditRow) /\ pointer.generation = Len(audit) /\ Len(audit) \in Nat
  BY DEF ReleaseInv, LineIsSound
<1>2. PICK n \in Nat : n = Len(audit)
  BY <1>1, Zenon 
<1>3. /\ audit' \in Seq(AuditRow) /\ Len(audit') = n + 1 /\ audit'[n + 1] = row
      /\ DOMAIN audit' = 1 .. n + 1 /\ DOMAIN audit = 1 .. n
      /\ \A g \in 1 .. n : audit'[g] = audit[g]
      /\ audit' # <<>>
  BY <1>1, <1>2
<1>4. /\ pointer'.generation = n + 1 /\ pointer'.manifest = candidate.manifest
      /\ candidate.generation = n
  BY <1>1, <1>2, Zenon 
<1>5. ActivationTablesAreValid'
  <2>1. evaluations' = evaluations /\ manifests' = manifests /\ row.generation = n + 1
    BY <1>4, Zenon DEF lineageVars
  <2>2. ASSUME NEW g \in 1 .. n + 1
        PROVE  audit'[g].generation = g /\ audit'[g].evaluation \in evaluations
    <3>1. CASE g \in 1 .. n
      BY <1>3, <3>1, Zenon DEF ReleaseInv, LineIsSound, ActivationTablesAreValid
    <3>2. CASE g = n + 1
      BY <1>3, <2>1, <3>2, Zenon 
    <3> QED
      BY <1>2, <3>1, <3>2
  <2> QED
    BY <1>3, <1>4, <2>1, <2>2, Zenon DEF ActivationTablesAreValid
<1>6. ASSUME NEW g \in 1 .. n + 1
      PROVE  LET promoted == audit'[g].evaluation.candidate
             IN /\ promoted.generation = g - 1
                /\ promoted.base = IF g = 1 THEN NoManifest
                                   ELSE audit'[g - 1].evaluation.candidate.manifest
                /\ GatesOf[promoted.evidence] = Gate
                /\ promoted.manifest.refs = audit'[g].observedAt
  <2>1. CASE g \in 1 .. n
    <3>1. audit'[g] = audit[g] /\ (g # 1 => audit'[g - 1] = audit[g - 1])
      BY <1>3, <2>1
    <3> QED
      <4>1. g - 1 \in Int /\ g \in DOMAIN audit
        BY <1>2, <1>3, <2>1
      <4>2. LET promoted == audit[g].evaluation.candidate
            IN /\ promoted.generation = g - 1
               /\ promoted.base = IF g = 1 THEN NoManifest
                                  ELSE audit[g - 1].evaluation.candidate.manifest
               /\ GatesOf[promoted.evidence] = Gate
               /\ promoted.manifest.refs = audit[g].observedAt
        BY <4>1, Zenon DEF ReleaseInv, LineIsSound
      <4> QED
        BY <3>1, <4>2, Zenon 
  <2>2. CASE g = n + 1
    <3>1. audit'[g].evaluation.candidate = candidate /\ audit'[g].observedAt = row.observedAt
      BY <1>3, <2>2, Zenon 
    <3>2. candidate.base = IF audit = <<>> THEN NoManifest
                           ELSE audit[n].evaluation.candidate.manifest
      BY <1>2, Zenon DEF ReleaseInv, LineIsSound
    <3>3. (g = 1) <=> (audit = <<>>)
      BY <1>1, <1>2, <2>2
    <3>4. g # 1 => audit'[g - 1] = audit[n]
      BY <1>3, <2>2
    <3> QED
      <4>1. candidate.generation = g - 1
        BY <1>2, <1>4, <2>2
      <4>2. candidate.base = IF g = 1 THEN NoManifest
                             ELSE audit'[g - 1].evaluation.candidate.manifest
        BY <3>2, <3>3, <3>4, Zenon 
      <4> QED
        BY <3>1, <4>1, <4>2, Zenon 
  <2> QED
    BY <1>2, <2>1, <2>2, SMTT(60) 
<1> QED
  BY <1>3, <1>4, <1>5, <1>6, SMTT(60) DEF LineIsSound

LEMMA PromoteStep ==
    ASSUME ReleaseInv, NEW o \in Operators, NEW acknowledged \in BOOLEAN,
           Promote(o, acknowledged)
    PROVE  ReleaseInv'
<1>0. UNCHANGED <<corpusVars, lineageVars, grant, releaseClock>> /\ operator[o].stage = "authorized"
  BY Zenon DEF Promote, IsCallUnused
<1>1. TablesAreSound' /\ CorpusIsSound' /\ revisions' = revisions
  BY <1>0, TablesStay, CorpusStays, Zenon DEF ReleaseInv, corpusVars
<1>2. RunsAreSound /\ Len(audit) \in Nat
  BY PointerIsKnown, Zenon DEF ReleaseInv
<1>3. CASE AcceptsPromotion(o)
  <2>1. PICK run, candidate, evaluation, observed, row :
           /\ run = operator[o] /\ candidate = run.candidate /\ evaluation = run.evaluation
           /\ observed = run.observedAt
           /\ row = [generation |-> candidate.generation + 1, evaluation |-> evaluation,
                     observedAt |-> observed, promotedAt |-> releaseClock]
    BY Zenon 
  <2>2. /\ pointer' = [generation |-> candidate.generation + 1, manifest |-> candidate.manifest]
        /\ audit' = Append(audit, row)
        /\ End(o, Receipt(o, acknowledged))
    BY <1>3, <2>1, Zenon DEF Promote, MovePointer
  <2>3. /\ candidate \in Candidate /\ candidate.manifest.refs = observed
        /\ observed \subseteq 1 .. Len(revisions)
    BY <1>0, <2>1, Zenon DEF ReleaseInv, RunsAreSound, RunIsSound
  <2>4. /\ evaluation.candidate = candidate /\ GatesOf[candidate.evidence] = Gate
        /\ candidate.generation = pointer.generation /\ candidate.base = pointer.manifest
        /\ \A v \in candidate.manifest.refs : revisions[v] = candidate.manifest.profile
        /\ evaluation \in evaluations /\ candidate \in candidates
    BY <1>3, <2>1, Zenon DEF AcceptsPromotion, IsPromotable, PassedGates, VerifiesEvaluation, Revalidates,
                      LoadsCandidate, LoadsEvaluation, IsFullyEmbedded, ExpectsActiveBase
  <2>5. evaluation \in Evaluation /\ candidate.manifest \in manifests
    BY <2>4, Zenon DEF ReleaseInv, TablesAreSound, EvaluationTableIsValid, CandidateTableIsValid
  <2>6. row \in AuditRow
    BY <2>1, <2>3, <2>5, SMTT(60) DEF AuditRow, Candidate, ReleaseInv, CorpusIsSound
  <2>7. /\ row.evaluation = evaluation /\ row.observedAt = observed
        /\ row.generation = candidate.generation + 1
    BY <2>1, Zenon 
  <2>8. UNCHANGED lineageVars
    BY <1>0, Zenon 
  <2>9. LineIsSound'
    BY <2>2, <2>3, <2>4, <2>5, <2>6, <2>7, <2>8, LineGrows, Zenon 
  <2>10. ReleaseIsEmbedded'
    BY <1>1, <2>2, <2>3, <2>4, Zenon DEF ReleaseIsEmbedded
  <2>11. Len(audit') = Len(audit) + 1 /\ candidate.generation = Len(audit)
    BY <2>2, <2>4, <2>6 DEF ReleaseInv, LineIsSound
  <2>12. PICK receipt : receipt = Receipt(o, acknowledged)
    BY Zenon 
  <2>13. receipt \in 0 .. Len(audit')
    BY <1>2, <2>1, <2>11, <2>12 DEF Receipt
  <2>14. RunsAreSound'
    BY <1>1, <1>2, <2>2, <2>11, <2>12, <2>13, EndedRuns
  <2> QED
    BY <1>1, <2>9, <2>10, <2>14, Zenon DEF ReleaseInv
<1>4. CASE ~ AcceptsPromotion(o)
  <2>1. End(o, 0) /\ UNCHANGED <<pointer, audit>>
    BY <1>4, ZenonT(60) DEF Promote
  <2>2. LineIsSound' /\ ReleaseIsEmbedded'
    BY <1>0, <2>1, LineStays, CorpusStays, Zenon DEF ReleaseInv, lineageVars, corpusVars
  <2>3. Len(audit') \in Nat /\ Len(audit) <= Len(audit') /\ 0 \in 0 .. Len(audit')
    BY <1>2, <2>1
  <2>4. RunsAreSound'
    BY <1>1, <1>2, <2>1, <2>3, EndedRuns, Zenon 
  <2> QED
    BY <1>1, <2>2, <2>4, Zenon DEF ReleaseInv
<1> QED
  BY <1>3, <1>4, Zenon 

LEMMA LoseStep ==
    ASSUME ReleaseInv, NEW o \in Operators, LoseOperator(o)
    PROVE  ReleaseInv'
<1>0. UNCHANGED <<corpusVars, lineageVars, grant, pointer, audit, releaseClock>> /\ End(o, 0)
  BY Zenon DEF LoseOperator
<1>1. TablesAreSound' /\ LineIsSound' /\ CorpusIsSound' /\ ReleaseIsEmbedded'
  BY <1>0, TablesStay, LineStays, CorpusStays, Zenon DEF ReleaseInv, lineageVars, corpusVars
<1>2. /\ RunsAreSound /\ revisions' = revisions /\ Len(audit) \in Nat /\ Len(audit') \in Nat
      /\ Len(audit) <= Len(audit') /\ 0 \in 0 .. Len(audit')
  BY <1>0, PointerIsKnown DEF ReleaseInv, corpusVars
<1>3. RunsAreSound'
  BY <1>0, <1>2, EndedRuns, Zenon 
<1> QED
  BY <1>1, <1>3, Zenon DEF ReleaseInv

-----------------------------------------------------------------------------
(* What goes on beside the runs.                                           *)

LEMMA RunsStay ==
    ASSUME ReleaseInv, UNCHANGED <<operator, audit>>,
           Len(revisions) \in Nat, Len(revisions') \in Nat, Len(revisions) <= Len(revisions')
    PROVE  RunsAreSound'
<1>1. ASSUME NEW o \in Operators
      PROVE  RunIsSound(operator[o])'
  <2>1. PICK run : run = operator[o] /\ run = operator'[o] /\ RunIsSound(run)
    BY Zenon DEF ReleaseInv, RunsAreSound
  <2>2. 1 .. Len(revisions) \subseteq 1 .. Len(revisions')
    OBVIOUS
  <2>3. RunIsSound(run)'
    BY <2>1, <2>2, Zenon DEF RunIsSound
  <2> QED
    BY <2>1, <2>3, Zenon 
<1> QED
  BY <1>1, Zenon DEF ReleaseInv, RunsAreSound

LEMMA PublishStep ==
    ASSUME ReleaseInv, NEW r \in Resources, NEW p \in Profiles, PublishRevision(r, p)
    PROVE  ReleaseInv'
<1>0. /\ UNCHANGED <<fileSource, lineageVars, grant, pointer, audit, operator, releaseClock>>
      /\ revisions' = Append(revisions, p) /\ Len(revisions) < PublicationBound
      /\ activeRevision' = [activeRevision EXCEPT ![r] = Len(revisions) + 1]
  BY Zenon DEF PublishRevision
<1>1. PICK n \in Nat : n = Len(revisions)
  BY DEF ReleaseInv, CorpusIsSound
<1>2. /\ revisions \in Seq(Profiles) /\ revisions' \in Seq(Profiles) /\ Len(revisions') = n + 1
      /\ \A v \in 1 .. n : revisions'[v] = revisions[v]
  BY <1>0, <1>1 DEF ReleaseInv, CorpusIsSound
<1>3. CorpusIsSound'
  <2>1. activeRevision \in [Resources -> 0 .. n] /\ releaseClock' \in 0 .. ReleaseClockBound
    BY <1>0, <1>1, Zenon DEF ReleaseInv, CorpusIsSound
  <2>2. activeRevision' \in [Resources -> 0 .. n + 1]
    BY <1>0, <1>1, <2>1
  <2> QED
    BY <1>0, <1>1, <1>2, <2>1, <2>2, ReleaseAssumption DEF CorpusIsSound
<1>4. ReleaseIsEmbedded'
  BY <1>0, <1>1, <1>2 DEF ReleaseInv, ReleaseIsEmbedded
<1>5. TablesAreSound' /\ LineIsSound'
  BY <1>0, TablesStay, LineStays, Zenon DEF ReleaseInv, lineageVars
<1>6. RunsAreSound'
  BY <1>0, <1>1, <1>2, RunsStay
<1> QED
  BY <1>3, <1>4, <1>5, <1>6, Zenon DEF ReleaseInv

LEMMA AsideStep ==
    ASSUME ReleaseInv, UNCHANGED <<revisions, lineageVars, pointer, audit, operator>>,
           activeRevision' \in [Resources -> 0 .. Len(revisions)],
           releaseClock' \in 0 .. ReleaseClockBound
    PROVE  ReleaseInv'
<1>1. TablesAreSound' /\ LineIsSound'
  BY TablesStay, LineStays, Zenon DEF ReleaseInv, lineageVars
<1>2. CorpusIsSound' /\ ReleaseIsEmbedded'
  BY Zenon DEF ReleaseInv, CorpusIsSound, ReleaseIsEmbedded
<1>3. RunsAreSound'
  BY Zenon DEF ReleaseInv, RunsAreSound, RunIsSound
<1> QED
  BY <1>1, <1>2, <1>3, Zenon DEF ReleaseInv

LEMMA OtherReleaseSteps ==
    ASSUME ReleaseInv,
           \/ \E r \in Resources : TombstoneResource(r)
           \/ RetireFileSource \/ SeedGrant \/ RevokeGrant \/ ReleaseTick
           \/ UNCHANGED releaseVars
    PROVE  ReleaseInv'
<1>0. /\ activeRevision \in [Resources -> 0 .. Len(revisions)]
      /\ releaseClock \in 0 .. ReleaseClockBound /\ Len(revisions) \in Nat
      /\ ReleaseClockBound \in Nat
  BY ReleaseAssumption DEF ReleaseInv, CorpusIsSound
<1>1. /\ UNCHANGED <<revisions, lineageVars, pointer, audit, operator>>
      /\ activeRevision' \in [Resources -> 0 .. Len(revisions)]
      /\ releaseClock' \in 0 .. ReleaseClockBound
  BY <1>0 DEF TombstoneResource, RetireFileSource, SeedGrant, RevokeGrant, ReleaseTick,
              releaseVars, lineageVars, corpusVars
<1> QED
  BY <1>1, AsideStep, Zenon 

LEMMA ReleaseInitially == ReleaseInit => ReleaseInv
<1> SUFFICES ASSUME ReleaseInit
             PROVE  ReleaseInv
  OBVIOUS
<1>1. CorpusIsSound
  BY ReleaseAssumption DEF ReleaseInit, CorpusIsSound
<1>2. TablesAreSound
  BY Zenon DEF ReleaseInit, TablesAreSound, ManifestTableIsValid, CandidateTableIsValid,
         EvaluationTableIsValid, Identifies
<1>3. LineIsSound
  BY DEF ReleaseInit, LineIsSound, ActivationTablesAreValid, NoRelease
<1>4. ReleaseIsEmbedded
  BY Zenon DEF ReleaseInit, ReleaseIsEmbedded, NoRelease, NoManifest
<1>5. ASSUME NEW o \in Operators
      PROVE  RunIsSound(operator[o])
  <2>1. PICK run : run = operator[o]
    BY Zenon 
  <2>2. run = IdleRun
    BY <2>1, Zenon DEF ReleaseInit
  <2>3. RunShape(run) /\ run.receipt = 0 /\ run.stage = "idle"
    BY <2>2, Zenon DEF IdleRun, RunShape
  <2>4. 0 \in 0 .. Len(audit)
    BY DEF ReleaseInit
  <2> QED
    BY <2>1, <2>3, <2>4, Zenon DEF RunIsSound
<1>6. RunsAreSound
  BY <1>5, Zenon DEF ReleaseInit, RunsAreSound
<1> QED
  BY <1>1, <1>2, <1>3, <1>4, <1>6, Zenon DEF ReleaseInv

\* Whatever number of promote-release runs overlap, die or lose the
\* acknowledgement of their COMMIT, and whatever Workers publish between their
\* transactions, the pointer and the audit of promotions stay one line and no
\* Resource in scope has vectors of another profile than the active release
\* (context_learning_promote_release).
THEOREM PromotionsAreALine == ReleaseSpec => []PromotionsFormALine
<1>1. ReleaseInit => ReleaseInv
  BY ReleaseInitially, Zenon 
<1>2. ReleaseInv /\ [ReleaseNext]_releaseVars => ReleaseInv'
  <2> SUFFICES ASSUME ReleaseInv, [ReleaseNext]_releaseVars
               PROVE  ReleaseInv'
    OBVIOUS
  <2>1. CASE \E o \in Operators, c \in Contracts, e \in EvidenceFiles, p \in Profiles,
                k \in KeyVersions : ObserveSnapshot(o, c, e, p, k)
    BY <2>1, ObserveStep, Zenon 
  <2>2. CASE \E o \in Operators :
                PersistCandidate(o) \/ EvaluateCandidate(o) \/ AuthorizeCall(o)
    BY <2>2, PersistCandidateStep, EvaluateStep, AuthorizeStep, Zenon 
  <2>3. CASE \E o \in Operators : Promote(o, TRUE) \/ Promote(o, FALSE)
    BY <2>3, PromoteStep, Zenon 
  <2>4. CASE \E o \in Operators : LoseOperator(o)
    BY <2>4, LoseStep, Zenon 
  <2>5. CASE \E r \in Resources, p \in Profiles : PublishRevision(r, p)
    BY <2>5, PublishStep, Zenon 
  <2>6. CASE \/ \E r \in Resources : TombstoneResource(r)
             \/ RetireFileSource \/ SeedGrant \/ RevokeGrant \/ ReleaseTick
             \/ UNCHANGED releaseVars
    BY <2>6, OtherReleaseSteps, Zenon 
  <2> QED
    BY <2>1, <2>2, <2>3, <2>4, <2>5, <2>6, Zenon DEF ReleaseNext
<1>3. ReleaseInv => PromotionsFormALine
  BY InvariantIsTheLine, Zenon 
<1> QED
  BY <1>1, <1>2, <1>3, PTL DEF ReleaseSpec

-----------------------------------------------------------------------------
(* Greatest elements and sequences of a set                                *)

\* A set of numbers with a bound has a greatest one.
LEMMA GreatestNumber ==
  ASSUME NEW S, NEW b \in Nat, S \subseteq 0 .. b, S # {}
  PROVE  \E n \in S : \A m \in S : m <= n
<1> DEFINE D == {x \in Nat : b - x \in S}
<1>1. PICK m \in S : TRUE
  BY Zenon
<1>2. D \subseteq Nat /\ \A k \in S : b - k \in D
  BY SMT
<1>3. D # {}
  BY <1>1, <1>2, Zenon
<1>4. PICK d \in D : \A e \in D : ~ (<<e, d>> \in OpToRel(<, Nat))
  BY <1>2, <1>3, NatLessThanWellFounded, WFMin, Zenon
<1>5. \A e \in D : ~ (e < d)
  BY <1>2, <1>4, Zenon DEF OpToRel
<1>6. b - d \in S /\ d \in Nat
  BY <1>4, Zenon
<1>7. \A k \in S : k <= b - d
  BY <1>2, <1>5, <1>6, SMT
<1> QED
  BY <1>6, <1>7, Zenon

\* What MaxOf picks.
LEMMA MaxOfBounds ==
  ASSUME NEW S, NEW b \in Nat, S \subseteq 1 .. b
  PROVE  /\ MaxOf(S) \in 0 .. b
         /\ S # {} => MaxOf(S) \in S
         /\ \A m \in S : m <= MaxOf(S)
<1>1. CASE S = {}
  BY <1>1, SMT DEF MaxOf
<1>2. CASE S # {}
  <2>1. S \subseteq 0 .. b
    BY SMT
  <2>2. \E n \in S : \A m \in S : m <= n
    BY <1>2, <2>1, GreatestNumber, Zenon
  <2>3. MaxOf(S) = CHOOSE n \in S : \A m \in S : m <= n
    BY <1>2, Zenon DEF MaxOf
  <2>4. MaxOf(S) \in S /\ \A m \in S : m <= MaxOf(S)
    BY <2>2, <2>3, Zenon
  <2> QED
    BY <2>1, <2>4, Zenon
<1> QED
  BY <1>1, <1>2, Zenon

\* A finite set as a sequence.
LEMMA SetAsSequence ==
  ASSUME NEW S, IsFiniteSet(S)
  PROVE  Cardinality(S) \in Nat /\ InSomeOrder(S) \in [1 .. Cardinality(S) -> S]
<1>1. PICK b \in Nat : ExistsBijection(1 .. b, S) /\ Cardinality(S) = b
  BY FS_CardinalityType, FS_CountingElements, FS_NatBijection, Zenon
<1>2. PICK f \in Bijection(1 .. b, S) : TRUE
  BY <1>1, Zenon DEF ExistsBijection
<1>3. f \in [1 .. Cardinality(S) -> S] /\ IsInjective(f)
  BY <1>1, <1>2, Zenon DEF Bijection, Injection, IsInjective
<1> QED
  BY <1>1, <1>3, Zenon DEF InSomeOrder

\* Sequences as functions, and one after another.
LEMMA SequenceIsFunction ==
  ASSUME NEW S, NEW s \in Seq(S)
  PROVE  Len(s) \in Nat /\ DOMAIN s = 1 .. Len(s) /\ s \in [1 .. Len(s) -> S]
BY SMT

LEMMA SequencesJoin ==
  ASSUME NEW S, NEW s \in Seq(S), NEW t \in Seq(S)
  PROVE  s \o t \in Seq(S) /\ Len(s \o t) = Len(s) + Len(t)
BY SMT

LEMMA AppendJoins ==
  ASSUME NEW S, NEW s \in Seq(S), NEW e \in S
  PROVE  Append(s, e) = s \o <<e>>
BY SMT

-----------------------------------------------------------------------------
(* The rows of the two ledgers                                             *)

Checkpoint ==
    [kind : {"file_import", "file_change_page", "file_tombstone"}, version : 0 .. 4,
     path : Paths \cup {Missing}, content : Contents \cup {Missing},
     key : ImportKeys \cup {Missing}, page : Nat, complete : BOOLEAN, bound : Nat,
     observed : Observations]
Job == [state : {Missing, "open", "completed", "failed", "cancelled"},
        category : Categories \cup {Missing}]
Mark == [outcome : {Missing, "published", "replaced", "unchanged", "tombstoned"}, at : Nat]
Resource == [revision : Nat, content : Contents \cup {Missing}, tombstoned : BOOLEAN]
SourceRow ==
    [request : Requests \cup {Missing}, lifecycle : {"absent", "active", "disabled"},
     version : 0 .. 4, refusedBound : Nat, intent : {Missing, "recorded"}]

\* A checkpoint, its job and its watermark, against what Runtime serves.
EntryFits(row, job, m, resources) ==
    /\ CheckpointIsValid(row)
    /\ MarkIsValid(m, row)
    /\ row.kind # "file_change_page" => row.path \in Paths
    /\ row.kind = "file_import" /\ m # NoMark =>
         job.state = "completed" /\ resources[row.path].revision # 0
    /\ row.kind = "file_tombstone" => resources[row.path].tombstoned

Ledgers(l, j, m, resources) ==
    /\ l \in Seq(Checkpoint) /\ j \in Seq(Job) /\ m \in Seq(Mark)
    /\ Len(j) = Len(l) /\ Len(m) = Len(l)
    /\ \A n \in 1 .. Len(l) : EntryFits(l[n], j[n], m[n], resources)

\* Nothing that is served becomes unpublished or visible again.
ResourcesStay(old, new) ==
    \A p \in Paths : /\ old[p].revision # 0 => new[p].revision # 0
                     /\ old[p].tombstoned => new[p].tombstoned

\* Checkpoints stay, and so does every watermark.
Grows(l, m, newl, newm) ==
    /\ Len(l) <= Len(newl)
    /\ \A n \in 1 .. Len(l) : newl[n] = l[n] /\ (m[n] # NoMark => newm[n] # NoMark)

LEMMA LedgersExtend ==
  ASSUME NEW l, NEW j, NEW m, NEW rows, NEW jobs, NEW marks, NEW resources,
         Ledgers(l, j, m, resources), Ledgers(rows, jobs, marks, resources)
  PROVE  /\ Ledgers(l \o rows, j \o jobs, m \o marks, resources)
         /\ Grows(l, m, l \o rows, m \o marks)
<1>1. /\ l \in Seq(Checkpoint) /\ j \in Seq(Job) /\ m \in Seq(Mark)
      /\ rows \in Seq(Checkpoint) /\ jobs \in Seq(Job) /\ marks \in Seq(Mark)
      /\ Len(j) = Len(l) /\ Len(m) = Len(l) /\ Len(jobs) = Len(rows) /\ Len(marks) = Len(rows)
  BY Zenon DEF Ledgers
<1>2. /\ l \o rows \in Seq(Checkpoint) /\ j \o jobs \in Seq(Job) /\ m \o marks \in Seq(Mark)
      /\ Len(l \o rows) = Len(l) + Len(rows) /\ Len(j \o jobs) = Len(l) + Len(rows)
      /\ Len(m \o marks) = Len(l) + Len(rows) /\ Len(l) \in Nat /\ Len(rows) \in Nat
  <2>1. /\ l \o rows \in Seq(Checkpoint) /\ Len(l \o rows) = Len(l) + Len(rows)
        /\ j \o jobs \in Seq(Job) /\ Len(j \o jobs) = Len(j) + Len(jobs)
        /\ m \o marks \in Seq(Mark) /\ Len(m \o marks) = Len(m) + Len(marks)
    BY <1>1, SequencesJoin, Zenon
  <2>2. Len(l) \in Nat /\ Len(rows) \in Nat
    BY <1>1, SequenceIsFunction, Zenon
  <2> QED
    BY <1>1, <2>1, <2>2, Zenon
<1>3. \A n \in 1 .. Len(l) : /\ (l \o rows)[n] = l[n] /\ (j \o jobs)[n] = j[n]
                             /\ (m \o marks)[n] = m[n]
  BY <1>1, SMT
<1>4. \A n \in 1 .. Len(l) + Len(rows) : n \notin 1 .. Len(l) =>
         /\ n - Len(l) \in 1 .. Len(rows)
         /\ (l \o rows)[n] = rows[n - Len(l)] /\ (j \o jobs)[n] = jobs[n - Len(l)]
         /\ (m \o marks)[n] = marks[n - Len(l)]
  BY <1>1, SMT
<1>5. ASSUME NEW n \in 1 .. Len(l \o rows)
      PROVE  EntryFits((l \o rows)[n], (j \o jobs)[n], (m \o marks)[n], resources)
  <2>1. CASE n \in 1 .. Len(l)
    BY <1>3, <2>1, Zenon DEF Ledgers
  <2>2. CASE n \notin 1 .. Len(l)
    BY <1>2, <1>4, <2>2, Zenon DEF Ledgers
  <2> QED
    BY <2>1, <2>2, Zenon
<1>6. Grows(l, m, l \o rows, m \o marks)
  <2>1. Len(l) <= Len(l \o rows)
    BY <1>2, SMT
  <2> QED
    BY <1>3, <2>1, Zenon DEF Grows
<1> QED
  BY <1>2, <1>5, <1>6, Zenon DEF Ledgers

LEMMA LedgersServed ==
  ASSUME NEW l, NEW j, NEW m, NEW old, NEW new, Ledgers(l, j, m, old), ResourcesStay(old, new)
  PROVE  Ledgers(l, j, m, new)
<1>1. ASSUME NEW n \in 1 .. Len(l)
      PROVE  EntryFits(l[n], j[n], m[n], new)
  <2>1. EntryFits(l[n], j[n], m[n], old)
    BY Zenon DEF Ledgers
  <2>2. "file_import" # "file_change_page" /\ "file_tombstone" # "file_change_page"
    BY Zenon
  <2> QED
    BY <2>1, <2>2, Zenon DEF EntryFits, ResourcesStay
<1> QED
  BY <1>1, Zenon DEF Ledgers

\* One job and its watermark.
LEMMA LedgersWritten ==
  ASSUME NEW l, NEW j, NEW m, NEW resources, Ledgers(l, j, m, resources), NEW n \in 1 .. Len(l),
         NEW job \in Job, NEW row \in Mark, EntryFits(l[n], job, row, resources),
         m[n] # NoMark => row # NoMark
  PROVE  /\ Ledgers(l, [j EXCEPT ![n] = job], [m EXCEPT ![n] = row], resources)
         /\ Grows(l, m, l, [m EXCEPT ![n] = row])
<1>1. /\ l \in Seq(Checkpoint) /\ j \in Seq(Job) /\ m \in Seq(Mark)
      /\ Len(j) = Len(l) /\ Len(m) = Len(l) /\ Len(l) \in Nat
  BY SMT DEF Ledgers
<1>2. PICK newj, newm : newj = [j EXCEPT ![n] = job] /\ newm = [m EXCEPT ![n] = row]
  BY Zenon
<1>3. newj \in Seq(Job) /\ Len(newj) = Len(l)
  BY <1>1, <1>2, SMT
<1>4. newm \in Seq(Mark) /\ Len(newm) = Len(l)
  BY <1>1, <1>2, SMT
<1>5. DOMAIN j = 1 .. Len(l) /\ DOMAIN m = 1 .. Len(l)
  BY <1>1, SMT
<1>6. /\ newj[n] = job /\ newm[n] = row
      /\ \A i \in 1 .. Len(l) : i # n => newj[i] = j[i] /\ newm[i] = m[i]
  BY <1>2, <1>5, Zenon
<1>7. \A i \in 1 .. Len(l) : EntryFits(l[i], newj[i], newm[i], resources)
  BY <1>6, Zenon DEF Ledgers
<1>8. Len(l) <= Len(l)
  BY <1>1, SMT
<1>9. Ledgers(l, newj, newm, resources) /\ Grows(l, m, l, newm)
  BY <1>1, <1>3, <1>4, <1>6, <1>7, <1>8, Zenon DEF Ledgers, Grows
<1> QED
  BY <1>2, <1>9, Zenon


-----------------------------------------------------------------------------
(* The invariant                                                           *)

SourcesAreSound == sources \in [Keys -> SourceRow] /\ \A k \in Keys : SourceIsValid(sources[k])

ProgressInv ==
    /\ controlClock \in Nat
    /\ SourcesAreSound
    /\ DOMAIN log = Keys /\ DOMAIN jobOf = Keys /\ DOMAIN mark = Keys
    /\ served \in [Keys -> [Paths -> Resource]]
    /\ \A k \in Keys : Ledgers(log[k], jobOf[k], mark[k], served[k])

\* The ledgers of a Source go on from where they are.
GoesOn(k, l, j, m, resources) ==
    /\ DOMAIN log' = Keys /\ DOMAIN jobOf' = Keys /\ DOMAIN mark' = Keys
    /\ served' \in [Keys -> [Paths -> Resource]]
    /\ log'[k] = l /\ jobOf'[k] = j /\ mark'[k] = m /\ served'[k] = resources
    /\ \A i \in Keys : i # k => /\ log'[i] = log[i] /\ jobOf'[i] = jobOf[i]
                                /\ mark'[i] = mark[i] /\ served'[i] = served[i]
    /\ Ledgers(l, j, m, resources) /\ Grows(log[k], mark[k], l, m)

Advances == \A k \in Keys : Grows(log[k], mark[k], log'[k], mark'[k])

LEMMA LedgerGoesOn ==
  ASSUME ProgressInv, SourcesAreSound', controlClock' \in Nat, NEW k \in Keys,
         NEW l, NEW j, NEW m, NEW resources, GoesOn(k, l, j, m, resources)
  PROVE  ProgressInv' /\ Advances
<1>1. /\ DOMAIN log = Keys /\ DOMAIN jobOf = Keys /\ DOMAIN mark = Keys
      /\ served \in [Keys -> [Paths -> Resource]]
      /\ \A i \in Keys : Ledgers(log[i], jobOf[i], mark[i], served[i])
  BY Zenon DEF ProgressInv
<1>2. /\ log'[k] = l /\ jobOf'[k] = j /\ mark'[k] = m /\ served'[k] = resources
      /\ \A i \in Keys : i # k => /\ log'[i] = log[i] /\ jobOf'[i] = jobOf[i]
                                  /\ mark'[i] = mark[i] /\ served'[i] = served[i]
      /\ DOMAIN log' = Keys /\ DOMAIN jobOf' = Keys /\ DOMAIN mark' = Keys
      /\ served' \in [Keys -> [Paths -> Resource]]
  BY <1>1, Zenon DEF GoesOn
<1>3. \A i \in Keys : Ledgers(log'[i], jobOf'[i], mark'[i], served'[i])
  BY <1>1, <1>2, Zenon DEF GoesOn
<1>4. ASSUME NEW i \in Keys
      PROVE  Grows(log[i], mark[i], log'[i], mark'[i])
  <2>1. CASE i = k
    BY <1>2, <2>1, Zenon DEF GoesOn
  <2>2. CASE i # k
    <3>1. Len(log[i]) \in Nat
      BY <1>1, SequenceIsFunction, Zenon DEF Ledgers
    <3>2. Len(log[i]) <= Len(log[i])
      BY <3>1, SMT
    <3> QED
      BY <1>2, <2>2, <3>2, Zenon DEF Grows
  <2> QED
    BY <2>1, <2>2, Zenon
<1> QED
  BY <1>2, <1>3, <1>4, Zenon DEF ProgressInv, Advances

\* A step that leaves the ledgers.
LEMMA LedgersFrame ==
  ASSUME ProgressInv, SourcesAreSound', controlClock' \in Nat, UNCHANGED <<log, jobOf, mark, served>>
  PROVE  ProgressInv' /\ Advances
<1>1. ASSUME NEW i \in Keys
      PROVE  Grows(log[i], mark[i], log'[i], mark'[i])
  <2>1. Len(log[i]) \in Nat
    BY SequenceIsFunction, Zenon DEF Ledgers, ProgressInv
  <2>2. Len(log[i]) <= Len(log[i])
    BY <2>1, SMT
  <2> QED
    BY <2>2, Zenon DEF Grows
<1> QED
  BY <1>1, Zenon DEF ProgressInv, Advances

-----------------------------------------------------------------------------
(* Sources                                                                 *)

\* What the operations make of a Source's row.
LEMMA SourceUpdates ==
  ASSUME NEW row \in SourceRow, SourceIsValid(row)
  PROVE  /\ \A request \in Requests :
              /\ Registered(row, request) \in SourceRow
              /\ SourceIsValid(Registered(row, request))
         /\ \A bound \in Nat : /\ [row EXCEPT !.refusedBound = bound] \in SourceRow
                               /\ SourceIsValid([row EXCEPT !.refusedBound = bound])
         /\ row.lifecycle = "active" =>
              /\ \A v \in 1 .. 4 : /\ [row EXCEPT !.version = v] \in SourceRow
                                   /\ SourceIsValid([row EXCEPT !.version = v])
              /\ LET new == [row EXCEPT !.lifecycle = "disabled", !.intent = "recorded"]
                 IN  new \in SourceRow /\ SourceIsValid(new)
<1>0. DOMAIN Capabilities = 1 .. 4 /\ 1 .. 4 \subseteq 0 .. 4 /\ 1 \in 1 .. 4
  BY SMT DEF Capabilities
<1>1. ASSUME NEW request \in Requests
      PROVE  Registered(row, request) \in SourceRow /\ SourceIsValid(Registered(row, request))
  <2>1. CASE row.request = Missing
    <3>1. PICK new : new = [row EXCEPT !.request = request, !.lifecycle = "active", !.version = 1]
      BY Zenon
    <3>2. /\ new \in SourceRow /\ new.request = request /\ new.lifecycle = "active"
          /\ new.version = 1 /\ new.intent = row.intent
      BY <1>0, <3>1, ZenonT(60) DEF SourceRow
    <3>3. request # Missing
      BY ProgressAssumption, Zenon DEF Missing
    <3>4. row.lifecycle = "absent" /\ row.intent = Missing
      BY <2>1, Zenon DEF SourceIsValid
    <3>5. SourceIsValid(new)
      BY <1>0, <3>2, <3>3, <3>4, Zenon DEF SourceIsValid
    <3> QED
      BY <2>1, <3>1, <3>2, <3>5, Zenon DEF Registered
  <2>2. CASE row.request # Missing
    BY <2>2, Zenon DEF Registered
  <2> QED
    BY <2>1, <2>2, Zenon
<1>2. ASSUME NEW bound \in Nat
      PROVE  /\ [row EXCEPT !.refusedBound = bound] \in SourceRow
             /\ SourceIsValid([row EXCEPT !.refusedBound = bound])
  <2>1. PICK new : new = [row EXCEPT !.refusedBound = bound]
    BY Zenon
  <2>2. /\ new \in SourceRow /\ new.request = row.request /\ new.lifecycle = row.lifecycle
        /\ new.version = row.version /\ new.intent = row.intent
    BY <2>1, ZenonT(60) DEF SourceRow
  <2>3. SourceIsValid(new)
    BY <2>2, Zenon DEF SourceIsValid
  <2> QED
    BY <2>1, <2>2, <2>3, Zenon
<1>3. ASSUME row.lifecycle = "active", NEW v \in 1 .. 4
      PROVE  [row EXCEPT !.version = v] \in SourceRow /\ SourceIsValid([row EXCEPT !.version = v])
  <2>1. PICK new : new = [row EXCEPT !.version = v]
    BY Zenon
  <2>2. /\ new \in SourceRow /\ new.request = row.request /\ new.lifecycle = "active"
        /\ new.version = v /\ new.intent = row.intent
    BY <1>0, <1>3, <2>1, ZenonT(60) DEF SourceRow
  <2>3. SourceIsValid(new)
    BY <1>0, <1>3, <2>2, Zenon DEF SourceIsValid
  <2> QED
    BY <2>1, <2>2, <2>3, Zenon
<1>4. ASSUME row.lifecycle = "active"
      PROVE  LET new == [row EXCEPT !.lifecycle = "disabled", !.intent = "recorded"]
             IN  new \in SourceRow /\ SourceIsValid(new)
  <2>1. PICK new : new = [row EXCEPT !.lifecycle = "disabled", !.intent = "recorded"]
    BY Zenon
  <2>2. /\ new \in SourceRow /\ new.request = row.request /\ new.lifecycle = "disabled"
        /\ new.version = row.version /\ new.intent = "recorded"
    BY <2>1, ZenonT(60) DEF SourceRow
  <2>3. "recorded" # Missing
    BY Zenon DEF Missing
  <2>4. SourceIsValid(new)
    BY <1>0, <1>4, <2>2, <2>3, Zenon DEF SourceIsValid
  <2> QED
    BY <2>1, <2>2, <2>4, Zenon
<1> QED
  BY <1>1, <1>2, <1>3, <1>4, Zenon

\* A step that writes one Source's row.
LEMMA SourceWritten ==
  ASSUME SourcesAreSound, NEW k \in Keys, NEW row \in SourceRow, SourceIsValid(row),
         sources' = [sources EXCEPT ![k] = row]
  PROVE  SourcesAreSound'
BY Zenon DEF SourcesAreSound

\* The operations on one Source, of a refusal bound, a version or a lifecycle.
LEMMA SourcesStay ==
  ASSUME SourcesAreSound, NEW k \in Keys,
         \/ UNCHANGED sources
         \/ \E request \in Requests : sources' = [sources EXCEPT ![k] = Registered(@, request)]
         \/ \E bound \in Nat : sources' = [sources EXCEPT ![k].refusedBound = bound]
         \/ IsActive(k) /\ \E v \in 1 .. 4 : sources' = [sources EXCEPT ![k].version = v]
         \/ IsActive(k) /\ sources' = [sources EXCEPT ![k].lifecycle = "disabled",
                                                      ![k].intent = "recorded"]
  PROVE  SourcesAreSound'
<1>1. PICK row \in SourceRow : row = sources[k] /\ SourceIsValid(row)
  BY Zenon DEF SourcesAreSound
<1>2. DOMAIN sources = Keys
  BY Zenon DEF SourcesAreSound
<1>3. CASE UNCHANGED sources
  BY <1>3, Zenon DEF SourcesAreSound
<1>4. ASSUME NEW request \in Requests, sources' = [sources EXCEPT ![k] = Registered(@, request)]
      PROVE  SourcesAreSound'
  <2>1. PICK new : new = Registered(row, request)
    BY Zenon
  <2>2. sources' = [sources EXCEPT ![k] = new]
    BY <1>1, <1>2, <1>4, <2>1, Zenon
  <2> QED
    BY <1>1, <2>1, <2>2, SourceUpdates, SourceWritten, Zenon
<1>5. ASSUME NEW bound \in Nat, sources' = [sources EXCEPT ![k].refusedBound = bound]
      PROVE  SourcesAreSound'
  <2>1. PICK new : new = [row EXCEPT !.refusedBound = bound]
    BY Zenon
  <2>2. sources' = [sources EXCEPT ![k] = new]
    BY <1>1, <1>2, <1>5, <2>1, Zenon
  <2> QED
    BY <1>1, <2>1, <2>2, SourceUpdates, SourceWritten, Zenon
<1>6. ASSUME IsActive(k), NEW v \in 1 .. 4, sources' = [sources EXCEPT ![k].version = v]
      PROVE  SourcesAreSound'
  <2>1. PICK new : new = [row EXCEPT !.version = v]
    BY Zenon
  <2>2. sources' = [sources EXCEPT ![k] = new] /\ row.lifecycle = "active"
    BY <1>1, <1>2, <1>6, <2>1, Zenon DEF IsActive
  <2> QED
    BY <1>1, <2>1, <2>2, SourceUpdates, SourceWritten, Zenon
<1>7. ASSUME IsActive(k), sources' = [sources EXCEPT ![k].lifecycle = "disabled",
                                                     ![k].intent = "recorded"]
      PROVE  SourcesAreSound'
  <2>1. PICK new : new = [row EXCEPT !.lifecycle = "disabled", !.intent = "recorded"]
    BY Zenon
  <2>2. sources' = [sources EXCEPT ![k] = new] /\ row.lifecycle = "active"
    BY <1>1, <1>2, <1>7, <2>1, Zenon DEF IsActive
  <2> QED
    BY <1>1, <2>1, <2>2, SourceUpdates, SourceWritten, Zenon
<1> QED
  BY <1>3, <1>4, <1>5, <1>6, <1>7, Zenon


-----------------------------------------------------------------------------
(* New checkpoints                                                         *)

\* A watermark that is not written, or is of its checkpoint's kind.
LEMMA MarksFit ==
  ASSUME NEW row
  PROVE  /\ MarkIsValid(NoMark, row)
         /\ \A m : row.kind = "file_import"
                   /\ m.outcome \in {"published", "replaced", "unchanged"} => MarkIsValid(m, row)
         /\ \A m : row.kind = "file_tombstone" /\ m.outcome = "tombstoned" => MarkIsValid(m, row)
<1>1. NoMark.outcome = "none"
  BY Zenon DEF NoMark, Missing
<1>2. /\ "none" \notin {"published", "replaced", "unchanged"} /\ "none" # "tombstoned"
      /\ "tombstoned" \notin {"published", "replaced", "unchanged"}
  BY Zenon
<1>3. MarkIsValid(NoMark, row)
  BY <1>1, <1>2, Zenon DEF MarkIsValid
<1>4. ASSUME NEW m, row.kind = "file_import", m.outcome \in {"published", "replaced", "unchanged"}
      PROVE  MarkIsValid(m, row)
  <2>1. m.outcome # "tombstoned"
    BY <1>2, <1>4, Zenon
  <2> QED
    BY <1>4, <2>1, Zenon DEF MarkIsValid
<1>5. ASSUME NEW m, row.kind = "file_tombstone", m.outcome = "tombstoned"
      PROVE  MarkIsValid(m, row)
  BY <1>2, <1>5, Zenon DEF MarkIsValid
<1> QED
  BY <1>3, <1>4, <1>5, Zenon

\* A row that waits for its outcome, or has none.
FreshRow(row) ==
    /\ row \in Checkpoint /\ CheckpointIsValid(row) /\ row.kind # "file_tombstone"
    /\ row.kind # "file_change_page" => row.path \in Paths

LEMMA FixedRows ==
  /\ NoMark \in Mark /\ NoJob \in Job /\ OpenJob \in Job /\ NothingObserved \in Observations
BY Zenon DEF NoMark, Mark, NoJob, OpenJob, Job, NothingObserved, Observations, Missing

LEMMA ImportRow ==
  ASSUME SourcesAreSound, NEW k \in Keys, NEW p \in Paths, NEW content \in Contents \cup {Missing},
         NEW key \in ImportKeys \cup {Missing}, NEW page \in Nat, key # Missing \/ page # 0
  PROVE  /\ FreshRow(ImportCheckpoint(k, p, content, key, page))
         /\ FreshRow([ImportCheckpoint(k, p, content, key, page) EXCEPT !.version = 2])
         /\ ImportCheckpoint(k, p, content, key, page).kind = "file_import"
<1>1. sources[k].version \in 0 .. 4 /\ p # Missing
  BY ProgressAssumption, Zenon DEF SourcesAreSound, SourceRow, Missing
<1>2. 0 \in Nat /\ 2 \in 0 .. 4
  BY SMT
<1>3. PICK row : row = ImportCheckpoint(k, p, content, key, page)
  BY Zenon
<1>4. /\ row \in Checkpoint /\ row.kind = "file_import" /\ row.path = p /\ row.key = key
      /\ row.page = page /\ row.complete = FALSE /\ row.observed = NothingObserved
  BY <1>1, <1>2, <1>3, FixedRows, ZenonT(60) DEF ImportCheckpoint, Checkpoint
<1>5. PICK new : new = [row EXCEPT !.version = 2]
  BY Zenon
<1>6. /\ new \in Checkpoint /\ new.kind = "file_import" /\ new.path = p /\ new.key = key
      /\ new.page = page /\ new.complete = FALSE /\ new.observed = NothingObserved
  BY <1>2, <1>4, <1>5, ZenonT(60) DEF Checkpoint
<1>7. "file_import" # "file_change_page" /\ "file_import" # "file_tombstone"
  BY Zenon
<1>8. FreshRow(row)
  BY <1>1, <1>4, <1>7, Zenon DEF FreshRow, CheckpointIsValid
<1>9. FreshRow(new)
  BY <1>1, <1>6, <1>7, Zenon DEF FreshRow, CheckpointIsValid
<1> QED
  BY <1>3, <1>4, <1>5, <1>8, <1>9, Zenon

LEMMA PageRow ==
  ASSUME SourcesAreSound, NEW k \in Keys, NEW observed \in Observations, NEW complete \in BOOLEAN,
         NEW bound \in Nat
  PROVE  /\ FreshRow(PageCheckpoint(k, observed, complete, bound))
         /\ PageCheckpoint(k, observed, complete, bound).kind = "file_change_page"
<1>1. sources[k].version \in 0 .. 4 /\ 0 \in Nat
  BY SMT DEF SourcesAreSound, SourceRow
<1>2. PICK row : row = PageCheckpoint(k, observed, complete, bound)
  BY Zenon
<1>3. /\ row \in Checkpoint /\ row.kind = "file_change_page" /\ row.path = Missing
      /\ row.key = Missing /\ row.page = 0
  BY <1>1, <1>2, ZenonT(60) DEF PageCheckpoint, Checkpoint
<1>4. "file_change_page" # "file_import" /\ "file_change_page" # "file_tombstone"
  BY Zenon
<1> QED
  BY <1>2, <1>3, <1>4, Zenon DEF FreshRow, CheckpointIsValid

LEMMA TombstoneRow ==
  ASSUME SourcesAreSound, NEW k \in Keys, NEW p \in Paths
  PROVE  LET row == TombstoneCheckpoint(k, p)
         IN  /\ row \in Checkpoint /\ CheckpointIsValid(row) /\ row.kind = "file_tombstone"
             /\ row.path = p
<1>1. sources[k].version \in 0 .. 4 /\ p # Missing
  BY ProgressAssumption, Zenon DEF SourcesAreSound, SourceRow, Missing
<1>2. 0 \in Nat
  BY SMT
<1>3. PICK row : row = TombstoneCheckpoint(k, p)
  BY Zenon
<1>4. /\ row \in Checkpoint /\ row.kind = "file_tombstone" /\ row.path = p /\ row.key = Missing
      /\ row.page = 0 /\ row.complete = FALSE /\ row.observed = NothingObserved
  BY <1>1, <1>2, <1>3, FixedRows, ZenonT(60) DEF TombstoneCheckpoint, Checkpoint
<1>5. "file_tombstone" # "file_change_page" /\ "file_import" # "file_tombstone"
  BY Zenon
<1> QED
  BY <1>1, <1>3, <1>4, <1>5, Zenon DEF CheckpointIsValid

\* One entry of the ledgers.
LEMMA OneEntry ==
  ASSUME NEW row \in Checkpoint, NEW job \in Job, NEW m \in Mark, NEW resources,
         EntryFits(row, job, m, resources)
  PROVE  Ledgers(<<row>>, <<job>>, <<m>>, resources)
<1>1. /\ <<row>> \in Seq(Checkpoint) /\ <<job>> \in Seq(Job) /\ <<m>> \in Seq(Mark)
      /\ Len(<<row>>) = 1 /\ Len(<<job>>) = 1 /\ Len(<<m>>) = 1
  BY SMT
<1>2. \A n \in 1 .. 1 : <<row>>[n] = row /\ <<job>>[n] = job /\ <<m>>[n] = m
  BY SMT
<1> QED
  BY <1>1, <1>2, Zenon DEF Ledgers

\* The entries of fresh rows.
FreshRows(rows) == rows \in Seq(Checkpoint) /\ \A i \in DOMAIN rows : FreshRow(rows[i])

LEMMA FreshEntries ==
  ASSUME NEW rows, FreshRows(rows), NEW resources
  PROVE  Ledgers(rows,
                 [i \in DOMAIN rows |-> IF rows[i].kind = "file_import" THEN OpenJob ELSE NoJob],
                 [i \in DOMAIN rows |-> NoMark], resources)
<1>1. rows \in Seq(Checkpoint) /\ DOMAIN rows = 1 .. Len(rows) /\ Len(rows) \in Nat
  BY SequenceIsFunction, Zenon DEF FreshRows
<1>2. PICK jobs, marks :
         /\ jobs = [i \in DOMAIN rows |-> IF rows[i].kind = "file_import" THEN OpenJob ELSE NoJob]
         /\ marks = [i \in DOMAIN rows |-> NoMark]
  BY Zenon
<1>3. jobs \in [1 .. Len(rows) -> Job] /\ marks \in [1 .. Len(rows) -> Mark]
  BY <1>1, <1>2, FixedRows, Zenon
<1>4. /\ jobs \in Seq(Job) /\ Len(jobs) = Len(rows)
  BY <1>1, <1>3, SMT
<1>5. /\ marks \in Seq(Mark) /\ Len(marks) = Len(rows)
  BY <1>1, <1>3, SMT
<1>6. \A i \in 1 .. Len(rows) : marks[i] = NoMark /\ FreshRow(rows[i])
  BY <1>1, <1>2, Zenon DEF FreshRows
<1>7. \A i \in 1 .. Len(rows) : EntryFits(rows[i], jobs[i], marks[i], resources)
  BY <1>6, MarksFit, Zenon DEF FreshRow, EntryFits
<1> QED
  BY <1>1, <1>2, <1>4, <1>5, <1>7, Zenon DEF Ledgers

LEMMA FreshConcat ==
  ASSUME NEW a, NEW b, FreshRows(a), FreshRows(b)
  PROVE  FreshRows(a \o b)
<1>1. /\ a \in Seq(Checkpoint) /\ b \in Seq(Checkpoint)
      /\ DOMAIN a = 1 .. Len(a) /\ DOMAIN b = 1 .. Len(b) /\ Len(a) \in Nat /\ Len(b) \in Nat
  BY SequenceIsFunction, Zenon DEF FreshRows
<1>2. a \o b \in Seq(Checkpoint) /\ Len(a \o b) = Len(a) + Len(b)
  BY <1>1, SequencesJoin, Zenon
<1>3. DOMAIN (a \o b) = 1 .. Len(a) + Len(b)
  BY <1>2, SequenceIsFunction, Zenon
<1>4. \A i \in 1 .. Len(a) + Len(b) :
         \/ i \in 1 .. Len(a) /\ (a \o b)[i] = a[i]
         \/ i - Len(a) \in 1 .. Len(b) /\ (a \o b)[i] = b[i - Len(a)]
  BY <1>1, SMT
<1> QED
  BY <1>1, <1>2, <1>3, <1>4, Zenon DEF FreshRows

LEMMA FreshOne ==
  /\ FreshRows(<<>>)
  /\ \A row : FreshRow(row) => FreshRows(<<row>>)
<1>1. <<>> \in Seq(Checkpoint) /\ DOMAIN <<>> = {}
  BY SMT
<1>2. ASSUME NEW row, FreshRow(row)
      PROVE  FreshRows(<<row>>)
  <2>1. row \in Checkpoint
    BY <1>2, Zenon DEF FreshRow
  <2>2. <<row>> \in Seq(Checkpoint) /\ DOMAIN <<row>> = {1} /\ <<row>>[1] = row
    BY <2>1, SMT
  <2> QED
    BY <1>2, <2>2, Zenon DEF FreshRows
<1> QED
  BY <1>1, <1>2, Zenon DEF FreshRows

\* The jobs of some paths of a scan.
LEMMA ScheduledRows ==
  ASSUME SourcesAreSound, NEW k \in Keys, NEW paths, paths \subseteq Paths,
         NEW observed \in Observations, NEW page \in Nat, page # 0
  PROVE  FreshRows(Scheduled(k, paths, observed, page))
<1>1. IsFiniteSet(paths)
  BY ProgressAssumption, FS_Subset, Zenon
<1>2. PICK order, c : order = InSomeOrder(paths) /\ c = Cardinality(paths)
  BY Zenon
<1>3. c \in Nat /\ order \in [1 .. c -> paths]
  BY <1>1, <1>2, SetAsSequence, Zenon
<1>4. PICK rows : rows = [i \in DOMAIN order |->
                            ImportCheckpoint(k, order[i], observed[order[i]], Missing, page)]
  BY Zenon
<1>5. Scheduled(k, paths, observed, page) = rows
  BY <1>2, <1>4, Zenon DEF Scheduled
<1>6. DOMAIN rows = 1 .. c
  BY <1>3, <1>4, Zenon
<1>7. ASSUME NEW i \in 1 .. c
      PROVE  FreshRow(rows[i])
  <2>1. PICK p \in Paths, content \in Contents \cup {Missing} : p = order[i] /\ content = observed[p]
    BY <1>3, Zenon DEF Observations
  <2>2. rows[i] = ImportCheckpoint(k, p, content, Missing, page)
    BY <1>3, <1>4, <2>1, Zenon
  <2>3. PICK key \in ImportKeys \cup {Missing} : key = Missing
    BY Zenon
  <2>4. FreshRow(ImportCheckpoint(k, p, content, key, page))
    BY ImportRow, Zenon
  <2> QED
    BY <2>2, <2>3, <2>4, Zenon
<1>8. rows \in [1 .. c -> Checkpoint]
  BY <1>4, <1>6, <1>7, Zenon DEF FreshRow
<1>9. rows \in Seq(Checkpoint)
  BY <1>3, <1>8, SMT
<1> QED
  BY <1>5, <1>6, <1>7, <1>9, Zenon DEF FreshRows


-----------------------------------------------------------------------------
(* What the actions append                                                 *)

LEMMA ServedStays ==
  ASSUME ProgressInv, NEW k \in Keys, UNCHANGED served
  PROVE  /\ served' = [served EXCEPT ![k] = served[k]] /\ served[k] \in [Paths -> Resource]
         /\ ResourcesStay(served[k], served[k])
<1>1. served \in [Keys -> [Paths -> Resource]]
  BY Zenon DEF ProgressInv
<1>2. served = [served EXCEPT ![k] = served[k]] /\ served[k] \in [Paths -> Resource]
  BY <1>1, Zenon
<1> QED
  BY <1>2, Zenon DEF ResourcesStay

\* Sequences appended to the three ledgers of a Source.
LEMMA LedgersAppended ==
  ASSUME ProgressInv, SourcesAreSound', controlClock' \in Nat, NEW k \in Keys,
         NEW rows, NEW jobs, NEW marks, NEW resources \in [Paths -> Resource],
         ResourcesStay(served[k], resources), Ledgers(rows, jobs, marks, resources),
         log' = [log EXCEPT ![k] = log[k] \o rows],
         jobOf' = [jobOf EXCEPT ![k] = jobOf[k] \o jobs],
         mark' = [mark EXCEPT ![k] = mark[k] \o marks],
         served' = [served EXCEPT ![k] = resources]
  PROVE  ProgressInv' /\ Advances
<1>1. PICK l, j, m, old : l = log[k] /\ j = jobOf[k] /\ m = mark[k] /\ old = served[k]
  BY Zenon
<1>2. Ledgers(l, j, m, old)
  BY <1>1, Zenon DEF ProgressInv
<1>3. Ledgers(l, j, m, resources)
  BY <1>1, <1>2, LedgersServed, Zenon
<1>4. PICK newl, newj, newm : newl = l \o rows /\ newj = j \o jobs /\ newm = m \o marks
  BY Zenon
<1>5. Ledgers(newl, newj, newm, resources) /\ Grows(l, m, newl, newm)
  BY <1>3, <1>4, LedgersExtend, Zenon
<1>6. /\ DOMAIN log = Keys /\ DOMAIN jobOf = Keys /\ DOMAIN mark = Keys
      /\ served \in [Keys -> [Paths -> Resource]]
  BY Zenon DEF ProgressInv
<1>7. GoesOn(k, newl, newj, newm, resources)
  BY <1>1, <1>4, <1>5, <1>6, Zenon DEF GoesOn
<1> QED
  BY <1>7, LedgerGoesOn, Zenon

LEMMA CheckpointAppended ==
  ASSUME ProgressInv, SourcesAreSound', controlClock' \in Nat, NEW k \in Keys,
         NEW row \in Checkpoint, NEW job \in Job, NEW m \in Mark,
         NEW resources \in [Paths -> Resource], ResourcesStay(served[k], resources),
         EntryFits(row, job, m, resources), AppendCheckpoint(k, row, job, m),
         served' = [served EXCEPT ![k] = resources]
  PROVE  ProgressInv' /\ Advances
<1>1. /\ log[k] \in Seq(Checkpoint) /\ jobOf[k] \in Seq(Job) /\ mark[k] \in Seq(Mark)
      /\ DOMAIN log = Keys /\ DOMAIN jobOf = Keys /\ DOMAIN mark = Keys
  BY Zenon DEF ProgressInv, Ledgers
<1>2. /\ Append(log[k], row) = log[k] \o <<row>> /\ Append(jobOf[k], job) = jobOf[k] \o <<job>>
      /\ Append(mark[k], m) = mark[k] \o <<m>>
  BY <1>1, AppendJoins, Zenon
<1>3. PICK rows, jobs, marks : rows = <<row>> /\ jobs = <<job>> /\ marks = <<m>>
  BY Zenon
<1>4. /\ log' = [log EXCEPT ![k] = log[k] \o rows]
      /\ jobOf' = [jobOf EXCEPT ![k] = jobOf[k] \o jobs]
      /\ mark' = [mark EXCEPT ![k] = mark[k] \o marks]
  BY <1>1, <1>2, <1>3, Zenon DEF AppendCheckpoint
<1>5. Ledgers(rows, jobs, marks, resources)
  BY <1>3, OneEntry, Zenon
<1> QED
  BY <1>4, <1>5, LedgersAppended, Zenon

\* A checkpoint without an outcome.
LEMMA FreshAppended ==
  ASSUME ProgressInv, SourcesAreSound', UNCHANGED <<controlClock, served>>, NEW k \in Keys,
         NEW row, FreshRow(row), NEW job \in Job, AppendCheckpoint(k, row, job, NoMark)
  PROVE  ProgressInv' /\ Advances
<1>1. PICK resources \in [Paths -> Resource], m \in Mark : resources = served[k] /\ m = NoMark
  BY ServedStays, FixedRows, Zenon
<1>2. EntryFits(row, job, m, resources) /\ row \in Checkpoint
  BY <1>1, MarksFit, Zenon DEF FreshRow, EntryFits
<1>3. /\ ResourcesStay(served[k], resources) /\ served' = [served EXCEPT ![k] = resources]
      /\ controlClock' \in Nat /\ AppendCheckpoint(k, row, job, m)
  BY <1>1, ServedStays, Zenon DEF ProgressInv
<1> QED
  BY <1>2, <1>3, CheckpointAppended, Zenon

\* The rows of a scan cycle.
LEMMA RowsAppended ==
  ASSUME ProgressInv, SourcesAreSound', UNCHANGED <<controlClock, served>>, NEW k \in Keys,
         NEW rows, FreshRows(rows), AppendRows(k, rows)
  PROVE  ProgressInv' /\ Advances
<1>1. PICK resources \in [Paths -> Resource] : resources = served[k]
  BY ServedStays, Zenon
<1>2. PICK jobs, marks :
         /\ jobs = [i \in DOMAIN rows |-> IF rows[i].kind = "file_import" THEN OpenJob ELSE NoJob]
         /\ marks = [i \in DOMAIN rows |-> NoMark]
  BY Zenon
<1>3. Ledgers(rows, jobs, marks, resources)
  BY <1>2, FreshEntries, Zenon
<1>4. DOMAIN log = Keys /\ DOMAIN jobOf = Keys /\ DOMAIN mark = Keys
  BY Zenon DEF ProgressInv
<1>5. /\ log' = [log EXCEPT ![k] = log[k] \o rows]
      /\ jobOf' = [jobOf EXCEPT ![k] = jobOf[k] \o jobs]
      /\ mark' = [mark EXCEPT ![k] = mark[k] \o marks]
  BY <1>2, <1>4, Zenon DEF AppendRows
<1>6. /\ ResourcesStay(served[k], resources) /\ served' = [served EXCEPT ![k] = resources]
      /\ controlClock' \in Nat
  BY <1>1, ServedStays, Zenon DEF ProgressInv
<1> QED
  BY <1>3, <1>5, <1>6, LedgersAppended, Zenon

\* The pages of a Source are checkpoints, and the greatest of some is one.
LEMMA PagesAreCheckpoints ==
  ASSUME ProgressInv, NEW k \in Keys
  PROVE  /\ DOMAIN log[k] = 1 .. Len(log[k]) /\ Len(log[k]) \in Nat
         /\ \A n \in DOMAIN log[k] : log[k][n] \in Checkpoint
         /\ \A S : S \subseteq PagesOf(k) /\ MaxOf(S) # 0 => MaxOf(S) \in S
         /\ \A n \in PagesOf(k) : n \in DOMAIN log[k] /\ n \in Nat /\ n # 0
<1>1. log[k] \in Seq(Checkpoint)
  BY Zenon DEF ProgressInv, Ledgers
<1>2. PICK b \in Nat : b = Len(log[k])
  BY <1>1, SequenceIsFunction, Zenon
<1>3. DOMAIN log[k] = 1 .. b /\ log[k] \in [1 .. b -> Checkpoint]
  BY <1>1, <1>2, SequenceIsFunction, Zenon
<1>4. PagesOf(k) \subseteq 1 .. b
  BY <1>3, Zenon DEF PagesOf
<1>5. ASSUME NEW S, S \subseteq PagesOf(k), MaxOf(S) # 0
      PROVE  MaxOf(S) \in S
  <2>1. S # {}
    BY <1>5, Zenon DEF MaxOf
  <2>2. S \subseteq 1 .. b
    BY <1>4, <1>5, Zenon
  <2> QED
    BY <2>1, <2>2, MaxOfBounds, Zenon
<1>6. \A n \in 1 .. b : n \in Nat /\ n # 0
  BY SMT
<1> QED
  BY <1>2, <1>3, <1>4, <1>5, <1>6, Zenon


-----------------------------------------------------------------------------
(* Imports, scans and tombstones                                           *)

LEMMA PrepareKeeps ==
  ASSUME ProgressInv, NEW c, NEW k \in Keys, NEW key \in ImportKeys, NEW p \in Paths,
         PrepareFileImport(c, k, key, p)
  PROVE  ProgressInv' /\ Advances
<1>1. /\ SourcesAreSound /\ controlClock \in Nat /\ IsActive(k)
      /\ UNCHANGED <<served, controlClock>> /\ PreparesImport(k, key, p)
  BY Zenon DEF ProgressInv, PrepareFileImport, DirectImportAllowed
<1>2. CASE UNCHANGED <<sources, log, jobOf, mark>>
  <2>1. SourcesAreSound'
    BY <1>1, <1>2, Zenon DEF SourcesAreSound
  <2> QED
    BY <1>1, <1>2, <2>1, LedgersFrame, Zenon
<1>3. CASE /\ AppendCheckpoint(k, [ImportCheckpoint(k, p, Missing, key, 0) EXCEPT !.version = 2],
                               OpenJob, NoMark)
           /\ sources' = [sources EXCEPT ![k].version = 2]
  <2>1. 2 \in 1 .. 4 /\ 0 \in Nat
    BY SMT
  <2>2. SourcesAreSound'
    BY <1>1, <1>3, <2>1, SourcesStay, Zenon
  <2>3. PICK content \in Contents \cup {Missing}, page \in Nat : content = Missing /\ page = 0
    BY <2>1, Zenon
  <2>4. key \in ImportKeys \cup {Missing} /\ key # Missing
    BY ProgressAssumption, Zenon DEF Missing
  <2>5. PICK row : row = [ImportCheckpoint(k, p, content, key, page) EXCEPT !.version = 2]
    BY Zenon
  <2>6. FreshRow(row)
    BY <1>1, <2>4, <2>5, ImportRow, Zenon
  <2>7. PICK job \in Job : job = OpenJob
    BY FixedRows, Zenon
  <2>8. AppendCheckpoint(k, row, job, NoMark)
    BY <1>3, <2>3, <2>5, <2>7, Zenon
  <2> QED
    BY <1>1, <2>2, <2>6, <2>8, FreshAppended, Zenon
<1> QED
  BY <1>1, <1>2, <1>3, Zenon DEF PreparesImport

LEMMA AcceptKeeps ==
  ASSUME ProgressInv, NEW c, NEW k \in Keys, NEW observed \in Observations,
         NEW complete \in BOOLEAN, NEW bound \in ScanBounds,
         AcceptFileChangePage(c, k, observed, complete, bound)
  PROVE  ProgressInv' /\ Advances
<1>1. /\ SourcesAreSound /\ UNCHANGED <<served, controlClock>>
      /\ AppendCheckpoint(k, PageCheckpoint(k, observed, complete, bound), NoJob, NoMark)
  BY Zenon DEF ProgressInv, AcceptFileChangePage
<1>2. 0 \in Nat
  BY SMT
<1>3. sources' = sources \/ sources' = [sources EXCEPT ![k].refusedBound = 0]
  BY Zenon DEF AcceptFileChangePage
<1>4. SourcesAreSound'
  BY <1>1, <1>2, <1>3, SourcesStay, Zenon
<1>5. bound \in Nat
  BY ProgressAssumption, Zenon
<1>6. PICK row : row = PageCheckpoint(k, observed, complete, bound)
  BY Zenon
<1>7. PICK job \in Job : job = NoJob
  BY FixedRows, Zenon
<1>8. FreshRow(row)
  BY <1>1, <1>5, <1>6, PageRow, Zenon
<1>9. AppendCheckpoint(k, row, job, NoMark)
  BY <1>1, <1>6, <1>7, Zenon
<1> QED
  BY <1>1, <1>4, <1>8, <1>9, FreshAppended, Zenon

LEMMA ScheduleKeeps ==
  ASSUME ProgressInv, NEW c, NEW k \in Keys, NEW p \in Paths, ScheduleFileChangePage(c, k, p)
  PROVE  ProgressInv' /\ Advances
<1>1. PICK head : head = MaxOf(PagesOf(k))
  BY Zenon
<1>2. /\ head \in PagesOfVersion(k) /\ UNCHANGED <<sources, served, controlClock>>
      /\ AppendCheckpoint(k, ImportCheckpoint(k, p, log[k][head].observed[p], Missing, head),
                          OpenJob, NoMark)
  BY <1>1, Zenon DEF ScheduleFileChangePage
<1>3. SourcesAreSound /\ SourcesAreSound'
  BY <1>2, Zenon DEF ProgressInv, SourcesAreSound
<1>4. head \in PagesOf(k)
  BY <1>2, Zenon DEF PagesOfVersion
<1>5. head \in Nat /\ head # 0 /\ log[k][head] \in Checkpoint
  BY <1>4, PagesAreCheckpoints, Zenon
<1>6. PICK content \in Contents \cup {Missing}, key \in ImportKeys \cup {Missing} :
         content = log[k][head].observed[p] /\ key = Missing
  BY <1>5, Zenon DEF Checkpoint, Observations
<1>7. PICK row : row = ImportCheckpoint(k, p, content, key, head)
  BY Zenon
<1>8. PICK job \in Job : job = OpenJob
  BY FixedRows, Zenon
<1>9. FreshRow(row)
  BY <1>3, <1>5, <1>7, ImportRow, Zenon
<1>10. AppendCheckpoint(k, row, job, NoMark)
  BY <1>2, <1>6, <1>7, <1>8, Zenon
<1> QED
  BY <1>2, <1>3, <1>9, <1>10, FreshAppended, Zenon

LEMMA TombstoneKeeps ==
  ASSUME ProgressInv, NEW c, NEW k \in Keys, NEW p \in Paths, TombstoneFileResource(c, k, p)
  PROVE  ProgressInv' /\ Advances
<1>1. /\ UNCHANGED <<sources, controlClock>>
      /\ AppendCheckpoint(k, TombstoneCheckpoint(k, p), NoJob,
                          [outcome |-> "tombstoned", at |-> controlClock])
      /\ served' = [served EXCEPT ![k][p].tombstoned = TRUE]
  BY Zenon DEF TombstoneFileResource
<1>2. /\ SourcesAreSound /\ SourcesAreSound' /\ controlClock \in Nat /\ controlClock' \in Nat
      /\ served \in [Keys -> [Paths -> Resource]]
  BY <1>1, Zenon DEF ProgressInv, SourcesAreSound
<1>3. PICK old \in [Paths -> Resource] : old = served[k]
  BY <1>2, Zenon
<1>4. PICK gone : gone = [old[p] EXCEPT !.tombstoned = TRUE]
  BY Zenon
<1>5. gone \in Resource /\ gone.tombstoned = TRUE /\ gone.revision = old[p].revision
  BY <1>3, <1>4, ZenonT(60) DEF Resource
<1>6. PICK resources : resources = [old EXCEPT ![p] = gone]
  BY Zenon
<1>7. /\ resources \in [Paths -> Resource] /\ resources[p] = gone
      /\ \A q \in Paths : q # p => resources[q] = old[q]
  BY <1>3, <1>5, <1>6, Zenon
<1>8. served' = [served EXCEPT ![k] = resources]
  BY <1>1, <1>2, <1>3, <1>4, <1>6, Zenon
<1>9. ResourcesStay(served[k], resources)
  BY <1>3, <1>5, <1>7, Zenon DEF ResourcesStay
<1>10. PICK row \in Checkpoint, job \in Job :
         row = TombstoneCheckpoint(k, p) /\ job = NoJob
  BY <1>2, TombstoneRow, FixedRows, Zenon
<1>11. PICK m \in Mark : m = [outcome |-> "tombstoned", at |-> controlClock]
  BY <1>2, Zenon DEF Mark
<1>12. /\ CheckpointIsValid(row) /\ row.kind = "file_tombstone" /\ row.path = p
       /\ m.outcome = "tombstoned"
  BY <1>2, <1>10, <1>11, TombstoneRow, Zenon
<1>13. "file_tombstone" # "file_import"
  BY Zenon
<1>14. EntryFits(row, job, m, resources)
  BY <1>5, <1>7, <1>12, <1>13, MarksFit, Zenon DEF EntryFits
<1>15. AppendCheckpoint(k, row, job, m)
  BY <1>1, <1>10, <1>11, Zenon
<1> QED
  BY <1>2, <1>7, <1>8, <1>9, <1>14, <1>15, CheckpointAppended, Zenon


-----------------------------------------------------------------------------
(* Outcomes of jobs                                                        *)

\* A job that is done, with the watermark of its outcome.
LEMMA OutcomeWritten ==
  ASSUME ProgressInv, NEW k \in Keys, NEW n \in DOMAIN log[k], log[k][n].kind = "file_import",
         NEW outcome \in {"published", "replaced", "unchanged"}, UNCHANGED <<log, sources, controlClock>>,
         NEW resources \in [Paths -> Resource], ResourcesStay(served[k], resources),
         resources[log[k][n].path].revision # 0, served' = [served EXCEPT ![k] = resources],
         jobOf' = [jobOf EXCEPT ![k][n].state = "completed"], mark' = AppendMark(k, n, outcome)
  PROVE  ProgressInv' /\ Advances
<1>1. PICK l, j, m, old : l = log[k] /\ j = jobOf[k] /\ m = mark[k] /\ old = served[k]
  BY Zenon
<1>2. /\ Ledgers(l, j, m, old) /\ SourcesAreSound /\ controlClock \in Nat
      /\ DOMAIN log = Keys /\ DOMAIN jobOf = Keys /\ DOMAIN mark = Keys
  BY <1>1, Zenon DEF ProgressInv
<1>3. Ledgers(l, j, m, resources)
  BY <1>1, <1>2, LedgersServed, Zenon
<1>4. /\ DOMAIN l = 1 .. Len(l) /\ DOMAIN j = 1 .. Len(l) /\ DOMAIN m = 1 .. Len(l)
      /\ j \in [1 .. Len(l) -> Job] /\ m \in [1 .. Len(l) -> Mark]
  BY <1>2, SequenceIsFunction, Zenon DEF Ledgers
<1>5. n \in 1 .. Len(l) /\ j[n] \in Job /\ m[n] \in Mark
  BY <1>1, <1>4, Zenon
<1>6. PICK job : job = [j[n] EXCEPT !.state = "completed"]
  BY Zenon
<1>7. job \in Job /\ job.state = "completed"
  BY <1>5, <1>6, ZenonT(60) DEF Job
<1>8. PICK row : row = IF m[n] = NoMark THEN [outcome |-> outcome, at |-> controlClock] ELSE m[n]
  BY Zenon
<1>9. row \in Mark /\ (m[n] # NoMark => row # NoMark)
  BY <1>2, <1>5, <1>8, Zenon DEF Mark
<1>10. MarkIsValid(row, l[n])
  <2>1. CASE m[n] = NoMark
    <3>1. row.outcome = outcome
      BY <1>8, <2>1, Zenon
    <3> QED
      BY <1>1, <3>1, MarksFit, Zenon
  <2>2. CASE m[n] # NoMark
    BY <1>2, <1>5, <1>8, <2>2, Zenon DEF Ledgers, EntryFits
  <2> QED
    BY <2>1, <2>2, Zenon
<1>11. "file_import" # "file_tombstone" /\ "file_import" # "file_change_page"
  BY Zenon
<1>12. EntryFits(l[n], job, row, resources)
  BY <1>1, <1>3, <1>5, <1>7, <1>10, <1>11, Zenon DEF Ledgers, EntryFits
<1>13. PICK newj, newm : newj = [j EXCEPT ![n] = job] /\ newm = [m EXCEPT ![n] = row]
  BY Zenon
<1>14. Ledgers(l, newj, newm, resources) /\ Grows(l, m, l, newm)
  BY <1>3, <1>5, <1>7, <1>9, <1>12, <1>13, LedgersWritten, Zenon
<1>15. DOMAIN jobOf' = Keys /\ jobOf'[k] = newj /\ \A i \in Keys : i # k => jobOf'[i] = jobOf[i]
  BY <1>1, <1>2, <1>6, <1>13, Zenon
<1>16. DOMAIN mark' = Keys /\ mark'[k] = newm /\ \A i \in Keys : i # k => mark'[i] = mark[i]
  <2>1. CASE m[n] = NoMark
    BY <1>1, <1>2, <1>8, <1>13, <2>1, Zenon DEF AppendMark
  <2>2. CASE m[n] # NoMark
    <3>1. newm = m
      BY <1>4, <1>8, <1>13, <2>2, Zenon
    <3> QED
      BY <1>1, <1>2, <2>2, <3>1, Zenon DEF AppendMark
  <2> QED
    BY <2>1, <2>2, Zenon
<1>17. /\ served' \in [Keys -> [Paths -> Resource]] /\ served'[k] = resources
       /\ \A i \in Keys : i # k => served'[i] = served[i]
  BY Zenon DEF ProgressInv
<1>18. GoesOn(k, l, newj, newm, resources)
  BY <1>1, <1>2, <1>14, <1>15, <1>16, <1>17, Zenon DEF GoesOn
<1>19. SourcesAreSound' /\ controlClock' \in Nat
  BY <1>2, Zenon DEF SourcesAreSound
<1> QED
  BY <1>18, <1>19, LedgerGoesOn, Zenon

LEMMA PublishKeeps ==
  ASSUME ProgressInv, NEW k \in Keys, NEW n \in DOMAIN log[k], log[k][n].kind = "file_import",
         NEW content \in Contents, PublishActiveRevision(k, n, content)
  PROVE  ProgressInv' /\ Advances
<1>1. PICK p, outcome, old : /\ p = log[k][n].path /\ old = served[k]
                             /\ outcome = IF served[k][p].revision = 0 THEN "published" ELSE "replaced"
  BY Zenon
<1>2. /\ ~old[p].tombstoned /\ jobOf' = [jobOf EXCEPT ![k][n].state = "completed"]
      /\ served' = [served EXCEPT ![k][p] =
                       [revision |-> n, content |-> content, tombstoned |-> FALSE]]
      /\ mark' = AppendMark(k, n, outcome) /\ UNCHANGED <<log, sources, controlClock>>
  BY <1>1, Zenon DEF PublishActiveRevision, Runs
<1>3. outcome \in {"published", "replaced", "unchanged"}
  BY <1>1, Zenon
<1>4. p \in Paths
  <2>1. n \in 1 .. Len(log[k]) /\ Ledgers(log[k], jobOf[k], mark[k], served[k])
    BY PagesAreCheckpoints, Zenon DEF ProgressInv
  <2>2. "file_import" # "file_change_page"
    BY Zenon
  <2> QED
    BY <1>1, <2>1, <2>2, Zenon DEF Ledgers, EntryFits
<1>5. n \in Nat /\ n # 0
  <2>1. DOMAIN log[k] = 1 .. Len(log[k])
    BY PagesAreCheckpoints, Zenon
  <2> QED
    BY <2>1, SMT
<1>6. /\ served \in [Keys -> [Paths -> Resource]] /\ old \in [Paths -> Resource]
  BY <1>1, Zenon DEF ProgressInv
<1>7. PICK new : new = [revision |-> n, content |-> content, tombstoned |-> FALSE]
  BY Zenon
<1>8. new \in Resource /\ new.revision = n
  BY <1>5, <1>7, Zenon DEF Resource
<1>9. PICK resources : resources = [old EXCEPT ![p] = new]
  BY Zenon
<1>10. /\ resources \in [Paths -> Resource] /\ resources[p] = new
       /\ \A q \in Paths : q # p => resources[q] = old[q]
  BY <1>4, <1>6, <1>8, <1>9, Zenon
<1>11. ResourcesStay(served[k], resources)
  BY <1>1, <1>2, <1>5, <1>8, <1>10, Zenon DEF ResourcesStay
<1>12. served' = [served EXCEPT ![k] = resources]
  BY <1>1, <1>2, <1>6, <1>7, <1>9, Zenon
<1>13. resources[log[k][n].path].revision # 0
  BY <1>1, <1>5, <1>8, <1>10, Zenon
<1> QED
  BY <1>2, <1>3, <1>10, <1>11, <1>12, <1>13, OutcomeWritten, Zenon

LEMMA UnchangedKeeps ==
  ASSUME ProgressInv, NEW k \in Keys, NEW n \in DOMAIN log[k], log[k][n].kind = "file_import",
         PublishUnchanged(k, n)
  PROVE  ProgressInv' /\ Advances
<1>1. /\ jobOf' = [jobOf EXCEPT ![k][n].state = "completed"] /\ mark' = AppendMark(k, n, "unchanged")
      /\ served[k][log[k][n].path].revision # 0 /\ UNCHANGED <<log, sources, controlClock, served>>
  BY Zenon DEF PublishUnchanged
<1>2. PICK resources \in [Paths -> Resource] : resources = served[k]
  BY <1>1, ServedStays, Zenon
<1>3. /\ ResourcesStay(served[k], resources) /\ served' = [served EXCEPT ![k] = resources]
      /\ resources[log[k][n].path].revision # 0
  BY <1>1, <1>2, ServedStays, Zenon
<1>4. PICK outcome \in {"published", "replaced", "unchanged"} : outcome = "unchanged"
  BY Zenon
<1> QED
  BY <1>1, <1>3, <1>4, OutcomeWritten, Zenon

\* Jobs that end without an outcome: what is completed stays.
LEMMA JobsEnd ==
  ASSUME ProgressInv, SourcesAreSound', NEW k \in Keys, NEW newj \in [DOMAIN log[k] -> Job],
         \A n \in DOMAIN log[k] : jobOf[k][n].state = "completed" => newj[n] = jobOf[k][n],
         jobOf' = [jobOf EXCEPT ![k] = newj], UNCHANGED <<log, mark, served, controlClock>>
  PROVE  ProgressInv' /\ Advances
<1>1. PICK l, j, m, resources :
         l = log[k] /\ j = jobOf[k] /\ m = mark[k] /\ resources = served[k]
  BY Zenon
<1>2. /\ Ledgers(l, j, m, resources) /\ served \in [Keys -> [Paths -> Resource]]
      /\ DOMAIN log = Keys /\ DOMAIN jobOf = Keys /\ DOMAIN mark = Keys /\ controlClock' \in Nat
  BY <1>1, Zenon DEF ProgressInv
<1>3. DOMAIN l = 1 .. Len(l) /\ Len(l) \in Nat
  BY <1>1, PagesAreCheckpoints, Zenon
<1>4. newj \in Seq(Job) /\ Len(newj) = Len(l)
  <2>1. PICK b \in Nat : b = Len(l)
    BY <1>3, Zenon
  <2>2. newj \in [1 .. b -> Job]
    BY <1>1, <1>3, <2>1, Zenon
  <2>3. newj \in Seq(Job) /\ Len(newj) = b
    BY <2>2, SMT
  <2> QED
    BY <2>1, <2>3, Zenon
<1>5. ASSUME NEW i \in 1 .. Len(l)
      PROVE  EntryFits(l[i], newj[i], m[i], resources)
  <2>1. EntryFits(l[i], j[i], m[i], resources)
    BY <1>2, Zenon DEF Ledgers
  <2>2. j[i].state = "completed" => newj[i] = j[i]
    BY <1>1, <1>3, Zenon
  <2> QED
    BY <2>1, <2>2, Zenon DEF EntryFits
<1>6. Ledgers(l, newj, m, resources)
  BY <1>2, <1>4, <1>5, Zenon DEF Ledgers
<1>7. Len(l) <= Len(l)
  BY <1>3, SMT
<1>8. GoesOn(k, l, newj, m, resources)
  BY <1>1, <1>2, <1>6, <1>7, Zenon DEF GoesOn, Grows
<1> QED
  BY <1>2, <1>8, LedgerGoesOn, Zenon


LEMMA FailKeeps ==
  ASSUME ProgressInv, NEW k \in Keys, NEW n \in DOMAIN log[k],
         NEW category \in {"unsupported_construct", Missing}, FailImport(k, n, category)
  PROVE  ProgressInv' /\ Advances
<1>1. PICK j, job : j = jobOf[k] /\ job = [state |-> "failed", category |-> category]
  BY Zenon
<1>2. /\ j[n].state = "open" /\ jobOf' = [jobOf EXCEPT ![k][n] = job]
      /\ UNCHANGED <<sources, log, mark, served, controlClock>>
  BY <1>1, Zenon DEF FailImport
<1>3. SourcesAreSound' /\ DOMAIN jobOf = Keys
  BY <1>2, Zenon DEF ProgressInv, SourcesAreSound
<1>4. job \in Job
  BY <1>1, Zenon DEF Job, Categories
<1>5. j \in [DOMAIN log[k] -> Job]
  <2>1. j \in Seq(Job) /\ Len(j) = Len(log[k]) /\ DOMAIN log[k] = 1 .. Len(log[k])
    BY <1>1, PagesAreCheckpoints, Zenon DEF ProgressInv, Ledgers
  <2> QED
    BY <2>1, SequenceIsFunction, Zenon
<1>6. PICK newj : newj = [j EXCEPT ![n] = job]
  BY Zenon
<1>7. /\ newj \in [DOMAIN log[k] -> Job]
      /\ \A i \in DOMAIN log[k] : i # n => newj[i] = j[i]
  BY <1>4, <1>5, <1>6, Zenon
<1>8. "open" # "completed"
  BY Zenon
<1>9. \A i \in DOMAIN log[k] : jobOf[k][i].state = "completed" => newj[i] = jobOf[k][i]
  BY <1>1, <1>2, <1>7, <1>8, Zenon
<1>10. jobOf' = [jobOf EXCEPT ![k] = newj]
  BY <1>1, <1>2, <1>3, <1>6, Zenon
<1> QED
  BY <1>2, <1>3, <1>7, <1>9, <1>10, JobsEnd, Zenon

LEMMA OffboardKeeps ==
  ASSUME ProgressInv, NEW c, NEW k \in Keys, OffboardSource(c, k)
  PROVE  ProgressInv' /\ Advances
<1>1. Offboards(k) /\ UNCHANGED <<log, mark, served, controlClock>>
  BY Zenon DEF OffboardSource
<1>2. SourcesAreSound /\ controlClock' \in Nat /\ DOMAIN jobOf = Keys
  BY <1>1, Zenon DEF ProgressInv
<1>3. CASE ~IsActive(k)
  <2>1. UNCHANGED <<sources, jobOf>>
    BY <1>1, <1>3, Zenon DEF Offboards
  <2>2. SourcesAreSound'
    BY <1>2, <2>1, Zenon DEF SourcesAreSound
  <2> QED
    BY <1>1, <1>2, <2>1, <2>2, LedgersFrame, Zenon
<1>4. CASE IsActive(k)
  <2>1. PICK j : j = jobOf[k]
    BY Zenon
  <2>2. PICK newj : newj = [n \in DOMAIN j |-> Cancelled(j[n])]
    BY Zenon
  <2>3. /\ jobOf' = [jobOf EXCEPT ![k] = newj]
        /\ sources' = [sources EXCEPT ![k].lifecycle = "disabled", ![k].intent = "recorded"]
    BY <1>1, <1>2, <1>4, <2>1, <2>2, Zenon DEF Offboards
  <2>4. SourcesAreSound'
    BY <1>2, <1>4, <2>3, SourcesStay, Zenon
  <2>5. j \in [DOMAIN log[k] -> Job]
    <3>1. j \in Seq(Job) /\ Len(j) = Len(log[k]) /\ DOMAIN log[k] = 1 .. Len(log[k])
      BY <2>1, PagesAreCheckpoints, Zenon DEF ProgressInv, Ledgers
    <3> QED
      BY <3>1, SequenceIsFunction, Zenon
  <2>6. \A job \in Job : /\ Cancelled(job) \in Job
                         /\ job.state = "completed" => Cancelled(job) = job
    <3>1. ASSUME NEW job \in Job
          PROVE  [job EXCEPT !.state = "cancelled"] \in Job
      BY ZenonT(60) DEF Job
    <3>2. "open" # "completed"
      BY Zenon
    <3> QED
      BY <3>1, <3>2, Zenon DEF Cancelled
  <2>7. /\ newj \in [DOMAIN log[k] -> Job]
        /\ \A n \in DOMAIN log[k] : jobOf[k][n].state = "completed" => newj[n] = jobOf[k][n]
    BY <2>1, <2>2, <2>5, <2>6, Zenon
  <2> QED
    BY <1>1, <2>3, <2>4, <2>7, JobsEnd, Zenon
<1> QED
  BY <1>3, <1>4, Zenon

-----------------------------------------------------------------------------
(* The source-wide scan                                                    *)

\* The pages a cycle schedules are those of a scan that is a checkpoint.
LEMMA PendingPages ==
  ASSUME ProgressInv, NEW k \in Keys, PendingSchedules(k) # {}
  PROVE  LET head == MaxOf(PagesOfVersion(k))
         IN  head \in Nat /\ head # 0 /\ log[k][head].observed \in Observations
<1>1. PICK head : head = MaxOf(PagesOfVersion(k))
  BY Zenon
<1>2. head # 0
  BY <1>1, Zenon DEF PendingSchedules
<1>3. PagesOfVersion(k) \subseteq PagesOf(k)
  BY Zenon DEF PagesOfVersion
<1>4. head \in PagesOf(k)
  BY <1>1, <1>2, <1>3, PagesAreCheckpoints, Zenon
<1>5. head \in Nat /\ log[k][head] \in Checkpoint
  BY <1>4, PagesAreCheckpoints, Zenon
<1> QED
  BY <1>1, <1>2, <1>5, Zenon DEF Checkpoint

LEMMA ReconciledRows ==
  ASSUME ProgressInv, NEW k \in Keys, NEW reconciled \in SUBSET Paths,
         reconciled \subseteq {page[2] : page \in PendingSchedules(k)}
  PROVE  FreshRows(IF reconciled = {} THEN <<>>
                   ELSE Scheduled(k, reconciled, log[k][MaxOf(PagesOfVersion(k))].observed,
                                  MaxOf(PagesOfVersion(k))))
<1>1. CASE reconciled = {}
  BY <1>1, FreshOne, Zenon
<1>2. CASE reconciled # {}
  <2>1. PendingSchedules(k) # {}
    BY <1>2, Zenon
  <2>2. PICK head \in Nat : head = MaxOf(PagesOfVersion(k)) /\ head # 0
    BY <2>1, PendingPages, Zenon
  <2>3. PICK observed \in Observations : observed = log[k][head].observed
    BY <2>1, <2>2, PendingPages, Zenon
  <2>4. SourcesAreSound
    BY Zenon DEF ProgressInv
  <2>5. FreshRows(Scheduled(k, reconciled, observed, head))
    BY <2>2, <2>4, ScheduledRows, Zenon
  <2> QED
    BY <1>2, <2>2, <2>3, <2>5, Zenon
<1> QED
  BY <1>1, <1>2, Zenon

LEMMA AcceptedRows ==
  ASSUME ProgressInv, NEW k \in Keys, NEW observed \in Observations, NEW bound \in ScanBounds,
         NEW page \in Nat, page # 0
  PROVE  FreshRows(AcceptedScan(k, observed, bound, page))
<1>1. PICK before : before = IF CompleteBaseline(k) = 0 THEN NothingObserved
                             ELSE log[k][CompleteBaseline(k)].observed
  BY Zenon
<1>2. PICK paths : paths = NovelPaths(observed, before)
  BY Zenon
<1>3. paths \subseteq Paths
  BY <1>2, Zenon DEF NovelPaths, ObservedPaths
<1>4. SourcesAreSound /\ bound \in Nat
  BY ProgressAssumption, Zenon DEF ProgressInv
<1>5. PICK rest : rest = Scheduled(k, paths, observed, page)
  BY Zenon
<1>6. FreshRows(rest)
  BY <1>3, <1>4, <1>5, ScheduledRows, Zenon
<1>7. PICK complete \in BOOLEAN : complete = TRUE
  BY Zenon
<1>8. PICK row : row = PageCheckpoint(k, observed, complete, bound)
  BY Zenon
<1>9. FreshRow(row)
  BY <1>4, <1>8, PageRow, Zenon
<1>10. PICK first : first = <<row>> /\ FreshRows(first)
  BY <1>9, FreshOne, Zenon
<1>11. FreshRows(first \o rest)
  BY <1>6, <1>10, FreshConcat, Zenon
<1>12. AcceptedScan(k, observed, bound, page) = first \o rest
  BY <1>1, <1>2, <1>5, <1>7, <1>8, <1>10, Zenon DEF AcceptedScan
<1> QED
  BY <1>11, <1>12, Zenon

LEMMA CycleKeeps ==
  ASSUME ProgressInv, NEW c, NEW k \in Keys, NEW observed \in Observations,
         NEW bound \in ScanBounds, NEW stable \in BOOLEAN, NEW reconciled \in SUBSET Paths,
         ScanCycle(c, k, observed, bound, stable, reconciled), UNCHANGED controlClock
  PROVE  ProgressInv' /\ Advances
<1>1. PICK reconcile :
         reconcile = IF reconciled = {} THEN <<>>
                     ELSE Scheduled(k, reconciled, log[k][MaxOf(PagesOfVersion(k))].observed,
                                    MaxOf(PagesOfVersion(k)))
  BY Zenon
<1>2. reconciled \subseteq {page[2] : page \in PendingSchedules(k)} /\ UNCHANGED served
  BY Zenon DEF ScanCycle
<1>3. FreshRows(reconcile)
  BY <1>1, <1>2, ReconciledRows, Zenon
<1>4. PICK page, accepted :
         /\ page = Len(log[k]) + Len(reconcile) + 1
         /\ accepted = IF ReplaysCompleteBaseline(k, observed) THEN <<>>
                       ELSE AcceptedScan(k, observed, bound, page)
  BY Zenon
<1>5. page \in Nat /\ page # 0
  <2>1. Len(log[k]) \in Nat /\ Len(reconcile) \in Nat
    BY <1>3, PagesAreCheckpoints, SequenceIsFunction, Zenon DEF FreshRows
  <2> QED
    BY <1>4, <2>1, SMT
<1>6. FreshRows(accepted)
  BY <1>4, <1>5, AcceptedRows, FreshOne, Zenon
<1>7. PICK both : both = reconcile \o accepted /\ FreshRows(both)
  BY <1>3, <1>6, FreshConcat, Zenon
<1>8. 0 \in Nat /\ bound \in Nat /\ SourcesAreSound
  BY ProgressAssumption, SMT DEF ProgressInv
<1>9. \/ AppendRows(k, reconcile) /\ UNCHANGED sources
      \/ AppendRows(k, reconcile) /\ sources' = [sources EXCEPT ![k].refusedBound = bound]
      \/ AppendRows(k, both) /\ sources' = [sources EXCEPT ![k].refusedBound = 0]
  BY <1>1, <1>4, <1>7, Zenon DEF ScanCycle
<1>10. SourcesAreSound'
  BY <1>8, <1>9, SourcesStay, Zenon
<1> QED
  BY <1>2, <1>3, <1>7, <1>9, <1>10, RowsAppended, Zenon


LEMMA ScanNextKeeps ==
  ASSUME ProgressInv, NEW c, NEW k \in Keys, ScanNext(c, k)
  PROVE  ProgressInv' /\ Advances
<1>1. UNCHANGED controlClock /\ controlClock' \in Nat /\ SourcesAreSound
  BY Zenon DEF ScanNext, ProgressInv
<1>2. CASE UNCHANGED sourceTables
  <2>1. UNCHANGED <<sources, log, jobOf, mark, served>>
    BY <1>2, Zenon DEF sourceTables
  <2>2. SourcesAreSound'
    BY <1>1, <2>1, Zenon DEF SourcesAreSound
  <2> QED
    BY <1>1, <2>1, <2>2, LedgersFrame, Zenon
<1>3. CASE \E observed \in Observations, bound \in ScanBounds, stable \in BOOLEAN,
              reconciled \in SUBSET Paths : ScanCycle(c, k, observed, bound, stable, reconciled)
  BY <1>1, <1>3, CycleKeeps, Zenon
<1> QED
  BY <1>2, <1>3, Zenon DEF ScanNext

-----------------------------------------------------------------------------
(* Steps that leave the ledgers                                            *)

\* An activation moves the version of an active Source, or nothing.
LEMMA ActivationKeeps ==
  ASSUME SourcesAreSound, NEW k \in Keys, IsActive(k), NEW before, NEW version \in 1 .. 4,
         sources' = [sources EXCEPT ![k] = Activated(@, before, version)]
  PROVE  SourcesAreSound'
<1>1. sources \in [Keys -> SourceRow]
  BY Zenon DEF SourcesAreSound
<1>2. PICK row : row = sources[k]
  BY Zenon
<1>3. CASE row.version \in before
  <2>1. sources' = [sources EXCEPT ![k].version = version]
    BY <1>1, <1>2, <1>3, Zenon DEF Activated
  <2> QED
    BY <2>1, SourcesStay, Zenon
<1>4. CASE row.version \notin before
  <2>1. UNCHANGED sources
    BY <1>1, <1>2, <1>4, Zenon DEF Activated
  <2> QED
    BY <2>1, SourcesStay, Zenon
<1> QED
  BY <1>3, <1>4, Zenon

LEMMA SourceCallsKeep ==
  ASSUME ProgressInv, NEW c, NEW k \in Keys,
         \/ \E request \in Requests : RegisterFileSource(c, k, request)
         \/ ActivateChangeFeed(c, k) \/ ActivateDeleteObservations(c, k)
         \/ \E bound \in ScanBounds : ReportScanBoundRefusal(c, k, bound)
         \/ ClearScanBoundRefusal(c, k)
  PROVE  ProgressInv' /\ Advances
<1>1. UNCHANGED <<log, jobOf, mark, served, controlClock>> /\ SourcesAreSound /\ controlClock' \in Nat
  BY Zenon DEF RegisterFileSource, ActivateChangeFeed, ActivateDeleteObservations,
               ReportScanBoundRefusal, ClearScanBoundRefusal, ProgressInv
<1>2. 0 \in Nat /\ 3 \in 1 .. 4 /\ 4 \in 1 .. 4 /\ \A bound \in ScanBounds : bound \in Nat
  BY ProgressAssumption, SMT
<1>3. SourcesAreSound'
  <2>1. ASSUME NEW request \in Requests, RegisterFileSource(c, k, request)
        PROVE  SourcesAreSound'
    <3>1. sources' = [sources EXCEPT ![k] = Registered(@, request)]
      BY <2>1, Zenon DEF RegisterFileSource
    <3> QED
      BY <1>1, <3>1, SourcesStay, Zenon
  <2>2. CASE ActivateChangeFeed(c, k)
    <3>1. IsActive(k) /\ sources' = [sources EXCEPT ![k] = Activated(@, {1, 2}, 3)]
      BY <2>2, Zenon DEF ActivateChangeFeed
    <3> QED
      BY <1>1, <1>2, <3>1, ActivationKeeps, Zenon
  <2>3. CASE ActivateDeleteObservations(c, k)
    <3>1. IsActive(k) /\ sources' = [sources EXCEPT ![k] = Activated(@, {3}, 4)]
      BY <2>3, Zenon DEF ActivateDeleteObservations
    <3> QED
      BY <1>1, <1>2, <3>1, ActivationKeeps, Zenon
  <2>4. ASSUME NEW bound \in ScanBounds, ReportScanBoundRefusal(c, k, bound)
        PROVE  SourcesAreSound'
    <3>1. sources' = [sources EXCEPT ![k].refusedBound = bound]
      BY <2>4, Zenon DEF ReportScanBoundRefusal
    <3> QED
      BY <1>1, <1>2, <3>1, SourcesStay, Zenon
  <2>5. CASE ClearScanBoundRefusal(c, k)
    <3>1. sources' = [sources EXCEPT ![k].refusedBound = 0]
      BY <2>5, Zenon DEF ClearScanBoundRefusal
    <3> QED
      BY <1>1, <1>2, <3>1, SourcesStay, Zenon
  <2> QED
    BY <2>1, <2>2, <2>3, <2>4, <2>5, Zenon
<1> QED
  BY <1>1, <1>3, LedgersFrame, Zenon

LEMMA TablesKeep ==
  ASSUME ProgressInv, controlClock' \in Nat, UNCHANGED sourceTables
  PROVE  ProgressInv' /\ Advances
<1>1. UNCHANGED <<sources, log, jobOf, mark, served>>
  BY Zenon DEF sourceTables
<1>2. SourcesAreSound'
  BY <1>1, Zenon DEF SourcesAreSound, ProgressInv
<1> QED
  BY <1>1, <1>2, LedgersFrame, Zenon

-----------------------------------------------------------------------------
(* The invariant and the theorems                                          *)

LEMMA ControlStepKeeps ==
  ASSUME ProgressInv, NEW c \in ControlCallers, ControlStep(c)
  PROVE  ProgressInv' /\ Advances
<1>1. controlClock \in Nat
  BY Zenon DEF ProgressInv
<1>2. CASE \/ \E operation \in ControlOperations : AuthorizeControlCall(c, operation)
           \/ CloseCall(c) \/ EndReadProgress(c) \/ BeginScanAll(c) \/ EndScanAll(c)
           \/ \E k \in Keys : BeginReadProgress(c, k)
  <2>1. UNCHANGED <<sourceTables, controlClock>>
    BY <1>2, Zenon DEF AuthorizeControlCall, CloseCall, EndReadProgress, BeginScanAll, EndScanAll,
                       BeginReadProgress
  <2> QED
    BY <1>1, <2>1, TablesKeep, Zenon
<1>3. ASSUME NEW k \in Keys, ScanNext(c, k)
      PROVE  ProgressInv' /\ Advances
  BY <1>3, ScanNextKeeps, Zenon
<1>4. ASSUME NEW k \in Keys,
             \/ \E request \in Requests : RegisterFileSource(c, k, request)
             \/ ActivateChangeFeed(c, k) \/ ActivateDeleteObservations(c, k)
             \/ \E bound \in ScanBounds : ReportScanBoundRefusal(c, k, bound)
             \/ ClearScanBoundRefusal(c, k)
      PROVE  ProgressInv' /\ Advances
  BY <1>4, SourceCallsKeep, Zenon
<1>5. ASSUME NEW k \in Keys, NEW key \in ImportKeys, NEW p \in Paths, PrepareFileImport(c, k, key, p)
      PROVE  ProgressInv' /\ Advances
  BY <1>5, PrepareKeeps, Zenon
<1>6. ASSUME NEW k \in Keys, NEW observed \in Observations, NEW complete \in BOOLEAN,
             NEW bound \in ScanBounds, AcceptFileChangePage(c, k, observed, complete, bound)
      PROVE  ProgressInv' /\ Advances
  BY <1>6, AcceptKeeps, Zenon
<1>7. ASSUME NEW k \in Keys, NEW p \in Paths, ScheduleFileChangePage(c, k, p)
      PROVE  ProgressInv' /\ Advances
  BY <1>7, ScheduleKeeps, Zenon
<1>8. ASSUME NEW k \in Keys, NEW p \in Paths, TombstoneFileResource(c, k, p)
      PROVE  ProgressInv' /\ Advances
  BY <1>8, TombstoneKeeps, Zenon
<1>9. ASSUME NEW k \in Keys, OffboardSource(c, k)
      PROVE  ProgressInv' /\ Advances
  BY <1>9, OffboardKeeps, Zenon
<1> QED
  BY <1>2, <1>3, <1>4, <1>5, <1>6, <1>7, <1>8, <1>9, Zenon DEF ControlStep

LEMMA WorkerStepKeeps ==
  ASSUME ProgressInv, NEW k \in Keys, WorkerStep(k)
  PROVE  ProgressInv' /\ Advances
<1>1. PICK n \in DOMAIN log[k] :
         /\ log[k][n].kind = "file_import"
         /\ \/ \E content \in Contents : PublishActiveRevision(k, n, content)
            \/ PublishUnchanged(k, n)
            \/ \E category \in {"unsupported_construct", Missing} : FailImport(k, n, category)
  BY Zenon DEF WorkerStep
<1>2. ASSUME NEW content \in Contents, PublishActiveRevision(k, n, content)
      PROVE  ProgressInv' /\ Advances
  BY <1>1, <1>2, PublishKeeps, Zenon
<1>3. CASE PublishUnchanged(k, n)
  BY <1>1, <1>3, UnchangedKeeps, Zenon
<1>4. ASSUME NEW category \in {"unsupported_construct", Missing}, FailImport(k, n, category)
      PROVE  ProgressInv' /\ Advances
  BY <1>4, FailKeeps, Zenon
<1> QED
  BY <1>1, <1>2, <1>3, <1>4, Zenon

LEMMA ProgressStep ==
  ASSUME ProgressInv, [ProgressNext]_progressVars
  PROVE  ProgressInv' /\ Advances
<1>1. controlClock \in Nat
  BY Zenon DEF ProgressInv
<1>2. ASSUME NEW c \in ControlCallers, ControlStep(c)
      PROVE  ProgressInv' /\ Advances
  BY <1>2, ControlStepKeeps, Zenon
<1>3. ASSUME NEW k \in Keys, WorkerStep(k)
      PROVE  ProgressInv' /\ Advances
  BY <1>3, WorkerStepKeeps, Zenon
<1>4. CASE ControlTick
  <2>1. controlClock' = controlClock + 1 /\ UNCHANGED sourceTables
    BY <1>4, Zenon DEF ControlTick
  <2>2. controlClock' \in Nat
    BY <1>1, <2>1, SMT
  <2> QED
    BY <2>1, <2>2, TablesKeep, Zenon
<1>5. CASE UNCHANGED progressVars
  <2>1. UNCHANGED <<sourceTables, controlClock>>
    BY <1>5, Zenon DEF progressVars, sourceTables
  <2> QED
    BY <1>1, <2>1, TablesKeep, Zenon
<1> QED
  BY <1>2, <1>3, <1>4, <1>5, Zenon DEF ProgressNext

LEMMA ProgressStarts ==
  ASSUME ProgressInit
  PROVE  ProgressInv
<1>1. 0 \in Nat /\ 0 \in 0 .. 4
  BY SMT
<1>2. controlClock \in Nat
  BY <1>1, Zenon DEF ProgressInit
<1>3. NoSource \in SourceRow
  BY <1>1, Zenon DEF NoSource, SourceRow, Missing
<1>4. SourceIsValid(NoSource)
  BY Zenon DEF NoSource, SourceIsValid, Missing
<1>5. SourcesAreSound
  BY <1>3, <1>4, Zenon DEF ProgressInit, SourcesAreSound
<1>6. UnservedResource \in Resource
  BY <1>1, Zenon DEF UnservedResource, Resource
<1>7. served \in [Keys -> [Paths -> Resource]]
  BY <1>6, Zenon DEF ProgressInit
<1>8. PICK e : e = <<>>
  BY Zenon
<1>9. e \in Seq(Checkpoint) /\ e \in Seq(Job) /\ e \in Seq(Mark) /\ Len(e) = 0
  BY <1>8, SMT
<1>10. 1 .. Len(e) = {}
  BY <1>9, SMT
<1>11. \A resources : Ledgers(e, e, e, resources)
  BY <1>9, <1>10, Zenon DEF Ledgers
<1>12. \A k \in Keys : log[k] = e /\ jobOf[k] = e /\ mark[k] = e
  BY <1>8, Zenon DEF ProgressInit
<1>13. DOMAIN log = Keys /\ DOMAIN jobOf = Keys /\ DOMAIN mark = Keys
  BY Zenon DEF ProgressInit
<1> QED
  BY <1>2, <1>5, <1>7, <1>11, <1>12, <1>13, Zenon DEF ProgressInv

\* The ledgers of every Source stay in step with what Runtime serves: a
\* watermark of an import goes with a completed job and a published Resource,
\* and a tombstone's checkpoint with a hidden one.
THEOREM ProgressInvariant == ProgressSpec => []ProgressInv
<1>1. ProgressInit => ProgressInv
  BY ProgressStarts, Zenon
<1>2. ProgressInv /\ [ProgressNext]_progressVars => ProgressInv'
  BY ProgressStep, Zenon
<1> QED
  BY <1>1, <1>2, PTL DEF ProgressSpec


\* The numbers among which the watermark is the greatest.
Visible(l, m) == {n \in DOMAIN m : /\ m[n] # NoMark
                                   /\ \A i \in 1 .. n : PublicationBearing(l[i]) => m[i] # NoMark}

LEMMA VisibleNumbers ==
  ASSUME NEW l, NEW j, NEW m, NEW resources, Ledgers(l, j, m, resources)
  PROVE  /\ Len(l) \in Nat /\ Visible(l, m) \subseteq 1 .. Len(l) /\ DOMAIN m = 1 .. Len(l)
         /\ MaxOf(Visible(l, m)) \in 0 .. Len(l)
         /\ MaxOf(Visible(l, m)) # 0 => MaxOf(Visible(l, m)) \in Visible(l, m)
         /\ \A n \in Visible(l, m) : n <= MaxOf(Visible(l, m))
<1>1. Len(l) \in Nat /\ DOMAIN m = 1 .. Len(l)
  BY SequenceIsFunction, Zenon DEF Ledgers
<1>2. PICK S, b : S = Visible(l, m) /\ b = Len(l)
  BY Zenon
<1>3. b \in Nat /\ S \subseteq 1 .. b
  BY <1>1, <1>2, Zenon DEF Visible
<1>4. MaxOf(S) \in 0 .. b /\ (S # {} => MaxOf(S) \in S) /\ \A n \in S : n <= MaxOf(S)
  BY <1>3, MaxOfBounds, Zenon
<1>5. S = {} => MaxOf(S) = 0
  BY Zenon DEF MaxOf
<1> QED
  BY <1>1, <1>2, <1>3, <1>4, <1>5, Zenon

\* Every change up to the publish watermark is one that Runtime reflects, and
\* every row of a Source and of its two ledgers meets its table's constraints,
\* whatever is imported, scanned, refused, deleted or offboarded meanwhile.
THEOREM WatermarksAreVisible == ProgressSpec => []WatermarkReflectsVisibility
<1>1. ASSUME ProgressInv, NEW k \in Keys
      PROVE  /\ SourceIsValid(sources[k])
             /\ \A n \in DOMAIN log[k] :
                   /\ CheckpointIsValid(log[k][n])
                   /\ MarkIsValid(mark[k][n], log[k][n])
             /\ \A n \in 1 .. ReadProgress(k).watermark :
                   /\ log[k][n].kind = "file_import" =>
                         /\ jobOf[k][n].state = "completed"
                         /\ served[k][log[k][n].path].revision # 0
                   /\ log[k][n].kind = "file_tombstone" =>
                         served[k][log[k][n].path].tombstoned
  <2>1. PICK l, j, m, resources :
           l = log[k] /\ j = jobOf[k] /\ m = mark[k] /\ resources = served[k]
    BY Zenon
  <2>2. Ledgers(l, j, m, resources) /\ SourceIsValid(sources[k])
    BY <1>1, <2>1, Zenon DEF ProgressInv, SourcesAreSound
  <2>3. PICK w : w = MaxOf(Visible(l, m))
    BY Zenon
  <2>4. ReadProgress(k).watermark = w
    BY <2>1, <2>3, Zenon DEF ReadProgress, VisibleWatermark, Visible
  <2>5. /\ Len(l) \in Nat /\ w \in 0 .. Len(l) /\ (w # 0 => w \in Visible(l, m))
    BY <2>2, <2>3, VisibleNumbers, Zenon
  <2>6. DOMAIN l = 1 .. Len(l)
    BY <2>2, SequenceIsFunction, Zenon DEF Ledgers
  <2>7. \A n \in DOMAIN l : CheckpointIsValid(l[n]) /\ MarkIsValid(m[n], l[n])
    BY <2>2, <2>6, Zenon DEF Ledgers, EntryFits
  <2>8. ASSUME NEW n \in 1 .. w
        PROVE  /\ l[n].kind = "file_import" =>
                    j[n].state = "completed" /\ resources[l[n].path].revision # 0
               /\ l[n].kind = "file_tombstone" => resources[l[n].path].tombstoned
    <3>1. w # 0 /\ n \in 1 .. Len(l)
      BY <2>5, <2>8, SMT
    <3>2. PublicationBearing(l[n]) => m[n] # NoMark
      BY <2>5, <3>1, Zenon DEF Visible
    <3>3. EntryFits(l[n], j[n], m[n], resources)
      BY <2>2, <3>1, Zenon DEF Ledgers
    <3>4. "file_import" # "file_change_page"
      BY Zenon
    <3> QED
      BY <3>2, <3>3, <3>4, Zenon DEF EntryFits, PublicationBearing
  <2> QED
    BY <2>1, <2>2, <2>4, <2>7, <2>8, Zenon
<1>2. ProgressInv => WatermarkReflectsVisibility
  BY <1>1, Zenon DEF WatermarkReflectsVisibility
<1> QED
  BY <1>2, ProgressInvariant, PTL

LEMMA VisibleGrows ==
  ASSUME NEW l, NEW j, NEW m, NEW resources, NEW newl, NEW newj, NEW newm, NEW new,
         Ledgers(l, j, m, resources), Ledgers(newl, newj, newm, new), Grows(l, m, newl, newm)
  PROVE  Len(l) <= Len(newl) /\ MaxOf(Visible(l, m)) <= MaxOf(Visible(newl, newm))
<1>1. PICK w, v : w = MaxOf(Visible(l, m)) /\ v = MaxOf(Visible(newl, newm))
  BY Zenon
<1>2. /\ Len(l) \in Nat /\ w \in 0 .. Len(l) /\ (w # 0 => w \in Visible(l, m))
  BY <1>1, VisibleNumbers, Zenon
<1>3. /\ Len(newl) \in Nat /\ v \in 0 .. Len(newl) /\ DOMAIN newm = 1 .. Len(newl)
      /\ \A n \in Visible(newl, newm) : n <= v
  BY <1>1, VisibleNumbers, Zenon
<1>4. Len(l) <= Len(newl)
  BY Zenon DEF Grows
<1>5. CASE w = 0
  BY <1>1, <1>3, <1>4, <1>5, SMT
<1>6. CASE w # 0
  <2>1. w \in 1 .. Len(l) /\ w \in 1 .. Len(newl) /\ \A i \in 1 .. w : i \in 1 .. Len(l)
    BY <1>2, <1>3, <1>4, <1>6, SMT
  <2>2. newm[w] # NoMark
    BY <1>2, <1>6, <2>1, Zenon DEF Visible, Grows
  <2>3. \A i \in 1 .. w : PublicationBearing(newl[i]) => newm[i] # NoMark
    BY <1>2, <1>6, <2>1, Zenon DEF Visible, Grows
  <2>4. w \in Visible(newl, newm)
    BY <1>3, <2>1, <2>2, <2>3, Zenon DEF Visible
  <2> QED
    BY <1>1, <1>3, <1>4, <2>4, Zenon
<1> QED
  BY <1>5, <1>6, Zenon

\* Neither signal of a Source's progress ever moves back.
THEOREM ProgressMovesOn == ProgressSpec => ProgressIsMonotone
<1>1. ASSUME ProgressInv, [ProgressNext]_progressVars, NEW k \in Keys
      PROVE  /\ ReadProgress(k).checkpoint <= ReadProgress(k)'.checkpoint
             /\ ReadProgress(k).watermark <= ReadProgress(k)'.watermark
  <2>1. ProgressInv' /\ Advances
    BY <1>1, ProgressStep, Zenon
  <2>2. PICK l, j, m, resources :
           l = log[k] /\ j = jobOf[k] /\ m = mark[k] /\ resources = served[k]
    BY Zenon
  <2>3. PICK newl, newj, newm, new :
           newl = log'[k] /\ newj = jobOf'[k] /\ newm = mark'[k] /\ new = served'[k]
    BY Zenon
  <2>4. Ledgers(l, j, m, resources) /\ Ledgers(newl, newj, newm, new) /\ Grows(l, m, newl, newm)
    BY <1>1, <2>1, <2>2, <2>3, Zenon DEF ProgressInv, Advances
  <2>5. Len(l) <= Len(newl) /\ MaxOf(Visible(l, m)) <= MaxOf(Visible(newl, newm))
    BY <2>4, VisibleGrows, Zenon
  <2>6. ReadProgress(k).checkpoint = Len(l) /\ ReadProgress(k).watermark = MaxOf(Visible(l, m))
    BY <2>2, Zenon DEF ReadProgress, VisibleWatermark, Visible
  <2>7. /\ ReadProgress(k)'.checkpoint = Len(newl)
        /\ ReadProgress(k)'.watermark = MaxOf(Visible(newl, newm))
    BY <2>3, Zenon DEF ReadProgress, VisibleWatermark, Visible
  <2> QED
    BY <2>5, <2>6, <2>7, Zenon
<1>2. ProgressInv /\ [ProgressNext]_progressVars =>
        [\A k \in Keys :
          /\ ReadProgress(k).checkpoint <= ReadProgress(k)'.checkpoint
          /\ ReadProgress(k).watermark <= ReadProgress(k)'.watermark]_progressVars
  BY <1>1, Zenon
<1> QED
  BY <1>2, ProgressInvariant, PTL DEF ProgressSpec, ProgressIsMonotone
=============================================================================
