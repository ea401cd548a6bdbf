------------------------------ MODULE Releases ------------------------------
(***************************************************************************)
(* Release promotion: the promote-release command, ContextLearning, the    *)
(* release tables with context_learning_promote_release, and what Runtime  *)
(* makes of the active release.                                            *)
(*                                                                         *)
(* One promote-release run is five transactions and pure steps between     *)
(* them: observe the corpus, persist the candidate, persist its signed     *)
(* evaluation, authorize one call, promote.  Workers go on publishing      *)
(* Revisions between any two of them and several runs may overlap.  A      *)
(* Runtime request holds the publication and the release lock shared, so   *)
(* neither a publication nor a promotion falls inside it and a request is  *)
(* one step here.                                                          *)
(*                                                                         *)
(* Digests are the values they digest.  A manifest differs from another in *)
(* its contract version, its Revisions and the embedding profile of the    *)
(* build that made it; manifest_ref covers only the first two.             *)
(***************************************************************************)
EXTENDS Integers, Sequences

CONSTANTS
    Operators,         \* runs of promote-release that may overlap
    Resources,         \* File Resources
    Profiles,          \* embedding provider profiles
    Contracts,         \* PublicContractVersion
    EvidenceFiles,     \* reviewed evidence files, each with its gates
    GatesOf,           \* the gates an evidence file reports as passed
    KeyVersions,       \* versions of the evaluation signing key
    CallTtl,           \* LOCAL_OPERATOR_TTL, in ticks
    GrantTtl,          \* LOCAL_RELEASE_GRANT_TTL, in ticks
    PublicationBound, ReleaseClockBound, RunBound

Gate == {"security", "reliability", "quality", "budget"}

ASSUME ReleaseAssumption ==
    /\ GatesOf \in [EvidenceFiles -> SUBSET Gate]
    /\ CallTtl \in Nat \ {0} /\ GrantTtl \in Nat \ {0}
    /\ PublicationBound \in Nat /\ ReleaseClockBound \in Nat /\ RunBound \in Nat

VARIABLES
    revisions,     \* every Revision published, with the profile of its vectors
    activeRevision, \* active_revision_id of a Resource, 0 before the first
    fileSource,    \* lifecycle_state of the File Source
    manifests, candidates, evaluations,  \* the immutable lineage tables
    grant,         \* release_operator_grant of the local release identity
    pointer,       \* active_release_manifest
    audit,         \* release_promotion_audit, by active_generation
    operator,      \* the promote-release runs
    releaseClock

corpusVars == <<revisions, activeRevision, fileSource>>
lineageVars == <<manifests, candidates, evaluations>>
releaseVars == <<revisions, activeRevision, fileSource, manifests, candidates,
                 evaluations, grant, pointer, audit, operator, releaseClock>>

NoManifest == [contract |-> "none", refs |-> {}, profile |-> "none"]
NoRelease == [generation |-> 0, manifest |-> NoManifest]
Manifest == [contract : Contracts, refs : (SUBSET (1 .. PublicationBound)) \ {{}},
             profile : Profiles]
ManifestRef(manifest) == <<manifest.contract, manifest.refs>>
Candidate == [manifest : Manifest, generation : Nat,
              base : Manifest \cup {NoManifest}, evidence : EvidenceFiles]
CandidateRef(candidate) ==
    <<candidate.generation, candidate.manifest, candidate.evidence>>
Evaluation == [candidate : Candidate, evaluatedAt : 0 .. ReleaseClockBound,
               keyVersion : KeyVersions]
\* The key that signs is not part of the document the reference digests.
EvaluationRef(evaluation) == <<evaluation.candidate, evaluation.evaluatedAt>>

\* What the constraints of the release tables allow: references are unique,
\* children name a stored parent, and only a first candidate has no base.
Identifies(Ref(_), table) ==
    \A a, b \in table : Ref(a) = Ref(b) => a = b
ManifestTableIsValid ==
    manifests \subseteq Manifest /\ Identifies(ManifestRef, manifests)
CandidateTableIsValid ==
    /\ candidates \subseteq Candidate /\ Identifies(CandidateRef, candidates)
    /\ \A c \in candidates : /\ c.manifest \in manifests
                             /\ (c.generation = 0) <=> (c.base = NoManifest)
EvaluationTableIsValid ==
    /\ evaluations \subseteq Evaluation /\ Identifies(EvaluationRef, evaluations)
    /\ \A e \in evaluations : e.candidate \in candidates
ActivationTablesAreValid ==
    /\ \A g \in DOMAIN audit : /\ audit[g].generation = g
                              /\ audit[g].evaluation \in evaluations
    /\ pointer # NoRelease => pointer.manifest \in manifests

-----------------------------------------------------------------------------
(* The corpus as release promotion sees it.                                *)

Live == {r \in Resources : activeRevision[r] # 0}

\* The active Revisions of the Resources of an active File Source.
ActiveRevisions ==
    {activeRevision[r] : r \in {s \in Live : fileSource = "active"}}

GrantIsCurrent ==
    /\ grant.validFrom <= releaseClock /\ releaseClock < grant.expiresAt
    /\ grant.revoked = "no"

\* _replace_promotion: every selected Revision has vectors, all of the
\* profile the manifest names.
IsFullyEmbedded(manifest) ==
    /\ manifest.refs # {}
    /\ \A v \in manifest.refs : revisions[v] = manifest.profile

-----------------------------------------------------------------------------
(* The steps of promote_release.                                           *)

IdleRun == [stage |-> "idle", contract |-> "none", evidence |-> "none",
            profile |-> "none", keyVersion |-> 0, runs |-> 0,
            candidate |-> "none", evaluation |-> "none",
            issuedAt |-> 0, expiresAt |-> 0, observedAt |-> {}, receipt |-> 0]

ReleaseInit ==
    /\ revisions = <<>>
    /\ activeRevision = [r \in Resources |-> 0]
    /\ fileSource = "active"
    /\ manifests = {} /\ candidates = {} /\ evaluations = {}
    /\ grant = [validFrom |-> 0, expiresAt |-> GrantTtl, revoked |-> "no"]
    /\ pointer = NoRelease
    /\ audit = <<>>
    /\ operator = [o \in Operators |-> IdleRun]
    /\ releaseClock = 0

\* The run ends, with a receipt or without; the next one starts afresh.
End(o, receipt) ==
    operator' = [operator EXCEPT ![o] =
                    [IdleRun EXCEPT !.runs = operator[o].runs, !.receipt = receipt]]

\* The manifest of everything observed, under the selected contract.
NewManifest(contract, profile) ==
    [contract |-> contract, refs |-> ActiveRevisions, profile |-> profile]

\* The ReleaseCandidate made of the snapshot and the evidence.
NewCandidate(contract, evidence, profile) ==
    [manifest |-> NewManifest(contract, profile),
     generation |-> pointer.generation, base |-> pointer.manifest,
     evidence |-> evidence]

\* authenticate, read the evidence and the key, observe_candidate_snapshot.
\* No current grant, or an empty corpus, and the command fails.
ObserveSnapshot(o, contract, evidence, profile, version) ==
    /\ operator[o].stage = "idle" /\ operator[o].runs < RunBound
    /\ IF GrantIsCurrent /\ ActiveRevisions # {}
       THEN operator' = [operator EXCEPT ![o] =
                [stage |-> "observed", contract |-> contract, evidence |-> evidence,
                 profile |-> profile, keyVersion |-> version,
                 runs |-> operator[o].runs + 1,
                 candidate |-> NewCandidate(contract, evidence, profile),
                 evaluation |-> "none", issuedAt |-> 0, expiresAt |-> 0,
                 observedAt |-> ActiveRevisions, receipt |-> 0]]
       ELSE operator' = [operator EXCEPT ![o] = [@ EXCEPT !.runs = operator[o].runs + 1]]
    /\ UNCHANGED <<corpusVars, lineageVars, grant, pointer, audit, releaseClock>>

\* INSERT ... ON CONFLICT DO NOTHING by reference, then an exact comparison:
\* a stored row with the same reference and another content fails the step.
Collides(table, Ref(_), row) ==
    \E stored \in table : Ref(stored) = Ref(row) /\ stored # row

PersistCandidate(o) ==
    LET candidate == operator[o].candidate
        collision == \/ Collides(manifests, ManifestRef, candidate.manifest)
                     \/ Collides(candidates, CandidateRef, candidate)
    IN /\ operator[o].stage = "observed"
       /\ IF collision
          THEN End(o, 0) /\ UNCHANGED <<manifests, candidates>>
          ELSE /\ manifests' = manifests \cup {candidate.manifest}
               /\ candidates' = candidates \cup {candidate}
               /\ operator' = [operator EXCEPT ![o] = [@ EXCEPT !.stage = "persisted"]]
       /\ UNCHANGED <<corpusVars, evaluations, grant, pointer, audit, releaseClock>>

\* The stored row of this reference, rebuilt and compared with the value held.
LoadsCandidate(candidate) ==
    \E stored \in candidates :
        CandidateRef(stored) = CandidateRef(candidate) /\ stored = candidate
LoadsEvaluation(evaluation) ==
    \E stored \in evaluations :
        EvaluationRef(stored) = EvaluationRef(evaluation) /\ stored = evaluation

\* evaluate_candidate: the candidate and the time of day, signed.
SignedEvaluation(candidate, version) ==
    [candidate |-> candidate, evaluatedAt |-> releaseClock, keyVersion |-> version]

PersistEvaluation(o, evaluation) ==
    IF Collides(evaluations, EvaluationRef, evaluation)
    THEN End(o, 0) /\ UNCHANGED evaluations
    ELSE /\ evaluations' = evaluations \cup {evaluation}
         /\ operator' = [operator EXCEPT ![o] =
                            [@ EXCEPT !.stage = "evaluated", !.evaluation = evaluation]]

\* ContextLearning.evaluate: load the candidate, sign, persist_evaluation.
EvaluateCandidate(o) ==
    /\ operator[o].stage = "persisted"
    /\ LoadsCandidate(operator[o].candidate)
    /\ PersistEvaluation(o, SignedEvaluation(operator[o].candidate,
                                             operator[o].keyVersion))
    /\ UNCHANGED <<corpusVars, manifests, candidates, grant, pointer, audit,
                   releaseClock>>

\* The local operator is whoever holds the configured credential, from now on
\* for LOCAL_OPERATOR_TTL; the grant in the database is read at promotion.
OperatorIdentity ==
    [validFrom |-> releaseClock, expiresAt |-> releaseClock + CallTtl]

\* A call lives no longer than the identity it was authorized for.
TrustedPromotionCall(identity) ==
    [issuedAt |-> releaseClock,
     expiresAt |-> IF identity.expiresAt < releaseClock + CallTtl
                   THEN identity.expiresAt ELSE releaseClock + CallTtl]

\* ReleaseOperatorAuthority.authorize: one call with a lifetime of its own.
AuthorizeCall(o) ==
    LET call == TrustedPromotionCall(OperatorIdentity)
    IN /\ operator[o].stage = "evaluated"
       /\ operator' = [operator EXCEPT ![o] =
                          [@ EXCEPT !.stage = "authorized", !.issuedAt = call.issuedAt,
                                    !.expiresAt = call.expiresAt]]
       /\ UNCHANGED <<corpusVars, lineageVars, grant, pointer, audit, releaseClock>>

\* A call is used inside its context and once.
IsCallUnused(o) == operator[o].stage = "authorized"

IsCallCurrent(o) ==
    operator[o].issuedAt <= releaseClock /\ releaseClock < operator[o].expiresAt

\* The keyring of this process holds one version of the key.
VerifiesSignature(evaluation, version) == evaluation.keyVersion = version

\* verify_release_evaluation: the evaluation is the candidate's, and signed.
VerifiesEvaluation(evaluation, candidate, version) ==
    /\ evaluation.candidate = candidate
    /\ VerifiesSignature(evaluation, version)

\* The gates the reviewed evidence reports as passed.
PassedGates(candidate) == GatesOf[candidate.evidence]

\* _require_promotable: every gate passed, and the evaluation verifies.
IsPromotable(o) ==
    /\ PassedGates(operator[o].evaluation.candidate) = Gate
    /\ VerifiesEvaluation(operator[o].evaluation, operator[o].candidate,
                          operator[o].keyVersion)

\* revalidate_promotion: the stored candidate and evaluation are the call's.
Revalidates(o) ==
    /\ LoadsCandidate(operator[o].candidate)
    /\ LoadsEvaluation(operator[o].evaluation)
    /\ VerifiesEvaluation(operator[o].evaluation, operator[o].candidate,
                          operator[o].keyVersion)

\* The pointer is still the one the candidate was made against.
ExpectsActiveBase(candidate) ==
    /\ candidate.generation = pointer.generation
    /\ candidate.base = pointer.manifest

\* A promotion that trusts the snapshot for the vectors of its Revisions.
AcceptsAnyVectors(o) ==
    /\ IsCallCurrent(o) /\ IsPromotable(o) /\ Revalidates(o) /\ GrantIsCurrent
    /\ ExpectsActiveBase(operator[o].candidate)

\* context_learning_promote_release accepts the call.
AcceptsPromotion(o) ==
    /\ IsCallCurrent(o) /\ IsPromotable(o) /\ Revalidates(o) /\ GrantIsCurrent
    /\ IsFullyEmbedded(operator[o].candidate.manifest)
    /\ ExpectsActiveBase(operator[o].candidate)

\* The pointer moves and its audit row is written, in one transaction.
MovePointer(o) ==
    LET candidate == operator[o].candidate
        generation == candidate.generation + 1
    IN /\ pointer' = [generation |-> generation, manifest |-> candidate.manifest]
       /\ audit' = Append(audit,
             [generation |-> generation, evaluation |-> operator[o].evaluation,
              observedAt |-> operator[o].observedAt, promotedAt |-> releaseClock])

\* The receipt of an acknowledged commit names its generation.
Receipt(o, acknowledged) ==
    IF acknowledged THEN operator[o].candidate.generation + 1 ELSE 0

\* ContextLearning.promote: the call is consumed whatever becomes of it.
\* When the connection is lost during COMMIT the pointer has moved and the
\* caller learns nothing.
Promote(o, acknowledged) ==
    /\ IsCallUnused(o)
    /\ IF AcceptsPromotion(o)
       THEN MovePointer(o) /\ End(o, Receipt(o, acknowledged))
       ELSE End(o, 0) /\ UNCHANGED <<pointer, audit>>
    /\ UNCHANGED <<corpusVars, lineageVars, grant, releaseClock>>

\* The process of a run dies.
LoseOperator(o) ==
    /\ operator[o].stage # "idle"
    /\ End(o, 0)
    /\ UNCHANGED <<corpusVars, lineageVars, grant, pointer, audit, releaseClock>>

-----------------------------------------------------------------------------
(* What goes on beside the runs.                                           *)

\* A Worker activates a new Revision, its vectors all of one profile.
PublishRevision(r, profile) ==
    /\ fileSource = "active"
    /\ Len(revisions) < PublicationBound
    /\ revisions' = Append(revisions, profile)
    /\ activeRevision' = [activeRevision EXCEPT ![r] = Len(revisions) + 1]
    /\ UNCHANGED <<fileSource, lineageVars, grant, pointer, audit, operator,
                   releaseClock>>

\* A tombstoned Resource has no active Revision any more.
TombstoneResource(r) ==
    /\ activeRevision[r] # 0
    /\ activeRevision' = [activeRevision EXCEPT ![r] = 0]
    /\ UNCHANGED <<revisions, fileSource, lineageVars, grant, pointer, audit,
                   operator, releaseClock>>

RetireFileSource ==
    /\ fileSource = "active"
    /\ fileSource' = "retired"
    /\ UNCHANGED <<revisions, activeRevision, lineageVars, grant, pointer, audit,
                   operator, releaseClock>>

\* The seed command renews the local grant, withdrawn or not.
SeedGrant ==
    /\ grant' = [validFrom |-> releaseClock, expiresAt |-> releaseClock + GrantTtl,
                 revoked |-> "no"]
    /\ grant' # grant
    /\ UNCHANGED <<corpusVars, lineageVars, pointer, audit, operator, releaseClock>>

RevokeGrant ==
    /\ grant.revoked = "no"
    /\ grant' = [grant EXCEPT !.revoked = "yes"]
    /\ UNCHANGED <<corpusVars, lineageVars, pointer, audit, operator, releaseClock>>

ReleaseTick ==
    /\ releaseClock < ReleaseClockBound
    /\ releaseClock' = releaseClock + 1
    /\ UNCHANGED <<corpusVars, lineageVars, grant, pointer, audit, operator>>

ReleaseNext ==
    \/ \E o \in Operators, c \in Contracts, e \in EvidenceFiles, p \in Profiles,
          k \in KeyVersions : ObserveSnapshot(o, c, e, p, k)
    \/ \E o \in Operators :
          \/ PersistCandidate(o) \/ EvaluateCandidate(o) \/ AuthorizeCall(o)
          \/ Promote(o, TRUE) \/ Promote(o, FALSE)
          \/ LoseOperator(o)
    \/ \E r \in Resources : TombstoneResource(r)
    \/ \E r \in Resources, p \in Profiles : PublishRevision(r, p)
    \/ RetireFileSource
    \/ SeedGrant
    \/ RevokeGrant
    \/ ReleaseTick

ReleaseSpec == ReleaseInit /\ [][ReleaseNext]_releaseVars

-----------------------------------------------------------------------------
(* What Runtime makes of the active release.                               *)

\* _observe_active_runtime_release, under the shared release lock.
ObservedRelease == pointer.manifest

\* current_scope_operands over the Revisions of the active release.
ReleaseScope ==
    {r \in Live : /\ fileSource = "active"
                  /\ activeRevision[r] \in ObservedRelease.refs}

\* The retained transaction meets a Resource in scope with vectors of another
\* profile than that of the active release.
MeetsMixedVectors ==
    \E r \in ReleaseScope : revisions[activeRevision[r]] # ObservedRelease.profile

\* Vector discovery by a Runtime composed with this embedding provider.
DiscoveryRefuses(provider) ==
    provider # ObservedRelease.profile \/ MeetsMixedVectors

-----------------------------------------------------------------------------
(* Properties.                                                             *)

\* The active pointer and the promotion audit tell one story, whichever runs
\* overlapped, died or lost their acknowledgement: generation g replaced
\* generation g - 1, the candidate promoted was made against exactly the
\* release it replaced and selects exactly the Revisions its run observed, all
\* its gates passed and its lineage is stored and unambiguous.  A receipt
\* names an audited promotion
\* (context_learning_promote_release, ContextLearning.promote).  And whatever
\* the corpus and the builds' profiles have become since the promotion, no
\* Resource in the scope of the active release has vectors of another profile:
\* Runtime never mixes vectors and vector discovery never finds a reason to
\* refuse (current_scope_operands, discover_vector).
PromotionsFormALine ==
    /\ ManifestTableIsValid /\ CandidateTableIsValid
    /\ EvaluationTableIsValid /\ ActivationTablesAreValid
    /\ pointer.generation = Len(audit)
    /\ \A g \in DOMAIN audit :
          LET promoted == audit[g].evaluation.candidate
          IN /\ promoted.generation = g - 1
             /\ promoted.base = IF g = 1 THEN NoManifest
                                ELSE audit[g - 1].evaluation.candidate.manifest
             /\ GatesOf[promoted.evidence] = Gate
             /\ promoted.manifest.refs = audit[g].observedAt
    /\ audit # <<>> =>
          pointer.manifest = audit[Len(audit)].evaluation.candidate.manifest
    /\ \A o \in Operators : operator[o].receipt \in 0 .. Len(audit)
    /\ ~ MeetsMixedVectors

\* ADR-0102 clause 5: while the corpus is embedded again, an old release that
\* meets active Fragments of the new profile refuses; it does not go on
\* answering from what is left of its scope, whatever provider Runtime has.
ReembeddingRefuses ==
    (/\ ReleaseScope # {}
     /\ \E r \in Live : revisions[activeRevision[r]] # pointer.manifest.profile)
        => \A provider \in Profiles : DiscoveryRefuses(provider)

=============================================================================
