------------------------ MODULE AccessControlProofs -------------------------
(***************************************************************************)
(* Proofs about access policies, the context runtime and bulk policy changes.*)
(***************************************************************************)
EXTENDS ContextRuntime, BulkPolicyChange, TLAPS

-----------------------------------------------------------------------------
(* Access policies and their publication.                                  *)

-----------------------------------------------------------------------------
(* The rows the writers build.                                             *)

LEMMA PolicyKinds ==
    /\ None \in PolicyOrNone /\ Private \in PolicyOrNone
    /\ Organization \in PolicyOrNone
    /\ None \notin Policies /\ Private \in Policies /\ Organization \in Policies
    /\ Private # Organization
BY Zenon DEF None, Private, Organization, PolicyOrNone, Policies, GroupPolicies

\* The meet of two policies is a policy or none: an empty intersection of
\* groups is never published as a policy.
LEMMA MeetType ==
    ASSUME NEW p \in PolicyOrNone, NEW o \in PolicyOrNone
    PROVE  Meet(p, o) \in PolicyOrNone
<1> DEFINE shared == p.groups \cap o.groups
<1>1. CASE p \in GroupPolicies /\ o \in GroupPolicies
  <2>1. p \notin {None, Private, Organization} /\ o \notin {None, Private, Organization}
    BY <1>1 DEF GroupPolicies, None, Private, Organization
  <2>2. shared \in SUBSET Groups
    BY <1>1, Zenon DEF GroupPolicies
  <2>3. shared # {} => [kind |-> "groups", groups |-> shared] \in GroupPolicies
    BY <2>2, Zenon DEF GroupPolicies
  <2> QED
    BY <2>1, <2>3, PolicyKinds, Zenon DEF Meet, PolicyOrNone, Policies
<1>2. CASE p \in {None, Private, Organization} \/ o \in {None, Private, Organization}
  BY <1>2, PolicyKinds, Zenon DEF Meet
<1> QED
  BY <1>1, <1>2, Zenon DEF PolicyOrNone, Policies

LEMMA PublishedType ==
    ASSUME NEW row \in PolicyRow, NEW o \in PolicyOrNone, NEW s \in Statuses
    PROVE  Published(row, o, s) \in PolicyOrNone
<1>1. row.local \in PolicyOrNone
  BY Zenon DEF PolicyRow
<1> QED
  BY <1>1, MeetType, PolicyKinds, Zenon DEF Published

LEMMA FixedType ==
    ASSUME PolicyTypeOK, NEW a \in Articles, NEW o \in ObsRow, NEW v \in Nat
    PROVE  FixedPolicy(a, o, v) \in PolicyRow
<1>1. LocalDefault(a) \in PolicyOrNone
  BY Zenon DEF PolicyTypeOK, LocalDefault, Defaults
<1>2. o.status \in Statuses /\ o.policy \in PolicyOrNone /\ o.observedAt \in Nat
  BY Zenon DEF ObsRow
<1>3. (IF o.status = "resolved" THEN Meet(LocalDefault(a), o.policy) ELSE None)
        \in PolicyOrNone
  BY <1>1, <1>2, MeetType, PolicyKinds, Zenon 
<1> QED
  BY <1>1, <1>2, <1>3, Zenon DEF FixedPolicy, PolicyRow, PolicyTypeOK

LEMMA RowTypes ==
    ASSUME PolicyTypeOK, NEW a \in Articles
    PROVE  /\ policy[a] \in PolicyRow /\ obs[a] \in ObsRow
           /\ article[a] \in ArticleRow
           /\ obs[a].policy \in PolicyOrNone /\ obs[a].status \in Statuses
           /\ policy[a].local \in PolicyOrNone
BY Zenon DEF PolicyTypeOK, PolicyRow, ObsRow

LEMMA FixedRow ==
    ASSUME PolicyTypeOK, NEW a \in Articles, NEW o \in ObsRow, NEW v \in Nat,
           policy' = [policy EXCEPT ![a] = FixedPolicy(a, o, v)]
    PROVE  policy' \in [Articles -> PolicyRow]
BY FixedType, Zenon DEF PolicyTypeOK

LEMMA Counters ==
    ASSUME PolicyTypeOK, NEW a \in Articles
    PROVE  policy[a].version + 1 \in Nat /\ epoch + 1 \in Nat /\ now \in Nat
BY RowTypes DEF PolicyTypeOK, PolicyRow

\* Rows rewritten by RevokeAccess, by the operators and by an observation.
LEMMA RevokedType ==
    ASSUME PolicyTypeOK, NEW a \in Articles
    PROVE  RevokedPolicy(a) \in PolicyRow
<1>1. "failed" \in Statuses
  BY Zenon DEF Statuses
<1> QED
  BY <1>1, RowTypes, Counters, PolicyKinds, Zenon DEF RevokedPolicy, PolicyRow

LEMMA BulkType ==
    ASSUME PolicyTypeOK, NEW a \in Articles, NEW t \in Policies
    PROVE  BulkRow(a, t) \in PolicyRow
<1>1. t \in PolicyOrNone
  BY Zenon DEF PolicyOrNone
<1> QED
  BY <1>1, RowTypes, Counters, Zenon DEF BulkRow, PolicyRow

LEMMA ChangedType ==
    ASSUME PolicyTypeOK, NEW a \in Articles, NEW t \in Policies
    PROVE  ChangedRow(a, t) \in PolicyRow
<1> DEFINE e == IF obs[a].status = "resolved" THEN Meet(t, obs[a].policy) ELSE None
<1>1. t \in PolicyOrNone
  BY Zenon DEF PolicyOrNone
<1>2. e \in PolicyOrNone
  BY <1>1, RowTypes, MeetType, PolicyKinds, Zenon 
<1> HIDE DEF e
<1>3. [policy[a] EXCEPT !.version = @ + 1, !.local = t, !.effective = e,
                        !.fixedAt = epoch + 1] \in PolicyRow
  BY <1>1, <1>2, RowTypes, Counters, Zenon DEF PolicyRow
<1> QED
  BY <1>3, Zenon DEF ChangedRow, e

OutcomeRow == [status : Statuses, policy : PolicyOrNone, principals : SUBSET Readers]

LEMMA OutcomeTypes ==
    ASSUME NEW o \in Outcomes \cup {FailedOutcome}
    PROVE  /\ o \in OutcomeRow
           /\ o.status = "resolved" => o.policy \in Policies
           /\ o.policy = Private => o.status = "resolved"
BY PoliciesAssumption, PolicyKinds
   DEF Outcomes, FailedOutcome, OutcomeRow, Statuses, PolicyOrNone

LEMMA ObservedType ==
    ASSUME PolicyTypeOK, NEW a \in Articles, NEW o \in OutcomeRow, NEW t \in Nat
    PROVE  ObservedRow(a, o, t) \in PolicyRow
<1> DEFINE e == Published(policy[a], o.policy, o.status)
<1>1. e \in PolicyOrNone
  BY RowTypes, PublishedType, Zenon DEF OutcomeRow
<1> HIDE DEF e
<1>2. [policy[a] EXCEPT !.version = @ + 1, !.effective = e, !.status = o.status,
                        !.srcVersion = 1, !.asOf = t, !.aged = "yes",
                        !.fixedAt = epoch + 1] \in PolicyRow
  <2>1. o.status \in Statuses /\ 1 \in Nat
    BY Zenon DEF OutcomeRow
  <2> QED
    BY <1>1, <2>1, RowTypes, Counters, Zenon DEF PolicyRow
<1> QED
  BY <1>2, Zenon DEF ObservedRow, e

LEMMA JudgedType ==
    ASSUME PolicyTypeOK, NEW a \in Articles, NEW o \in Outcomes, NEW t \in Nat
    PROVE  /\ JudgedOutcome(a, o, t) \in Outcomes \cup {FailedOutcome}
           /\ RecordedAt(a, t) \in Nat
BY Zenon DEF JudgedOutcome, RecordedAt, PolicyTypeOK

-----------------------------------------------------------------------------
(* Types.                                                                  *)

LEMMA NewFileTypes ==
    ASSUME PolicyTypeOK, NEW a \in Articles, NEW r \in Readers, PrepareFileArticle(a, r)
    PROVE  PolicyTypeOK'
<1> DEFINE o == [status |-> "resolved", policy |-> Private, observedAt |-> now]
<1>1. o \in ObsRow /\ source.version \in Nat
  BY PolicyKinds, Zenon DEF ObsRow, Statuses, PolicyTypeOK, SourceRow
<1>2. policy' = [policy EXCEPT ![a] = FixedPolicy(a, o, source.version)]
  BY Zenon DEF PrepareFileArticle
<1>3. policy' \in [Articles -> PolicyRow]
  BY <1>1, <1>2, FixedRow, Zenon 
<1>4. obs' \in [Articles -> ObsRow]
  BY <1>1, Zenon DEF PrepareFileArticle, PolicyTypeOK
<1>5. article' \in [Articles -> ArticleRow]
  BY Zenon DEF PrepareFileArticle, PolicyTypeOK, ArticleRow
<1>6. access' \in [Articles -> [Readers -> {"none", "allowed", "revoked"}]]
  BY Zenon DEF PrepareFileArticle, PolicyTypeOK
<1>7. fieldRight' \in [Articles -> SUBSET Readers]
  BY Zenon DEF PrepareFileArticle, PolicyTypeOK
<1> QED
  BY <1>3, <1>4, <1>5, <1>6, <1>7, Zenon DEF PrepareFileArticle, PolicyTypeOK

LEMMA ActivateTypes ==
    ASSUME PolicyTypeOK, NEW a \in Articles, ActivateRevision(a)
    PROVE  PolicyTypeOK'
<1>0. article[a].revision + 1 \in Nat
  BY RowTypes DEF ArticleRow
<1>1. [article[a] EXCEPT !.revision = article[a].revision + 1] \in ArticleRow
  BY <1>0, RowTypes, Zenon DEF ArticleRow
<1>2. article' \in [Articles -> ArticleRow]
  BY <1>1, Zenon DEF ActivateRevision, PolicyTypeOK
<1> QED
  BY <1>2, Zenon DEF ActivateRevision, PolicyTypeOK

LEMMA SeedTypes ==
    ASSUME PolicyTypeOK, NEW a \in Articles, SeedFeishuArticle(a)
    PROVE  PolicyTypeOK'
<1>1. policy' = [policy EXCEPT ![a] = FixedPolicy(a, obs[a], 1)]
  BY Zenon DEF SeedFeishuArticle
<1>2. policy' \in [Articles -> PolicyRow]
  BY <1>1, FixedRow, RowTypes, Zenon 
<1>3. article' \in [Articles -> ArticleRow]
  BY Zenon DEF SeedFeishuArticle, PolicyTypeOK, ArticleRow
<1>4. fieldRight' \in [Articles -> SUBSET Readers]
  BY Zenon DEF SeedFeishuArticle, PolicyTypeOK
<1> QED
  BY <1>2, <1>3, <1>4, Zenon DEF SeedFeishuArticle, PolicyTypeOK

LEMMA EpochType ==
    ASSUME PolicyTypeOK, AdvanceEpoch
    PROVE  epoch' \in Nat /\ epoch' = epoch + 1
BY DEF AdvanceEpoch, PolicyTypeOK

LEMMA RevokeTypes ==
    ASSUME PolicyTypeOK, NEW a \in Articles, NEW r \in Readers, RevokeAccess(a, r)
    PROVE  PolicyTypeOK'
<1>1. epoch' \in Nat
  BY EpochType, Zenon DEF RevokeAccess
<1>2. FailedObs \in ObsRow
  BY PolicyKinds, Zenon DEF FailedObs, ObsRow, Statuses, PolicyTypeOK
<1>3. policy' \in [Articles -> PolicyRow]
  BY RevokedType, Zenon DEF RevokeAccess, PolicyTypeOK
<1>4. obs' \in [Articles -> ObsRow]
  BY <1>2, Zenon DEF RevokeAccess, PolicyTypeOK
<1>5. access' \in [Articles -> [Readers -> {"none", "allowed", "revoked"}]]
  BY Zenon DEF RevokeAccess, PolicyTypeOK
<1> QED
  BY <1>1, <1>3, <1>4, <1>5, Zenon DEF RevokeAccess, PolicyTypeOK

LEMMA OperatorTypes ==
    ASSUME PolicyTypeOK, NEW t \in TargetPolicies,
           \/ \E S \in SUBSET Articles : ConfirmBulkChange(S, t)
           \/ \E a \in Articles : ChangeArticlePolicy(a, t)
    PROVE  PolicyTypeOK'
<1>0. t \in Policies
  BY PoliciesAssumption, Zenon 
<1>1. ASSUME NEW S \in SUBSET Articles, ConfirmBulkChange(S, t)
      PROVE  PolicyTypeOK'
  <2>1. epoch' \in Nat
    BY <1>1, EpochType, Zenon DEF ConfirmBulkChange
  <2>2. \A a \in Articles : (IF a \in S THEN BulkRow(a, t) ELSE policy[a]) \in PolicyRow
    BY <1>0, BulkType, RowTypes, Zenon 
  <2>3. policy' \in [Articles -> PolicyRow]
    BY <1>1, <2>2, Zenon DEF ConfirmBulkChange
  <2> QED
    BY <1>1, <2>1, <2>3, Zenon DEF ConfirmBulkChange, PolicyTypeOK
<1>2. ASSUME NEW a \in Articles, ChangeArticlePolicy(a, t)
      PROVE  PolicyTypeOK'
  <2>1. epoch' \in Nat
    BY <1>2, EpochType, Zenon DEF ChangeArticlePolicy
  <2>2. policy' \in [Articles -> PolicyRow]
    BY <1>0, <1>2, ChangedType, Zenon DEF ChangeArticlePolicy, PolicyTypeOK
  <2> QED
    BY <1>2, <2>1, <2>2, Zenon DEF ChangeArticlePolicy, PolicyTypeOK
<1> QED
  BY <1>1, <1>2, Zenon 

LEMMA ObservationTypes ==
    ASSUME PolicyTypeOK, NEW a \in Articles, NEW o \in Outcomes, NEW t \in Nat,
           ApplyFeishuObservation(a, o, t)
    PROVE  PolicyTypeOK'
<1> DEFINE j == JudgedOutcome(a, o, t)
           row == [status |-> j.status, policy |-> j.policy,
                   observedAt |-> RecordedAt(a, t)]
<1>1. j \in OutcomeRow /\ RecordedAt(a, t) \in Nat
  BY JudgedType, OutcomeTypes, Zenon 
<1>2. row \in ObsRow
  BY <1>1, Zenon DEF ObsRow, OutcomeRow
<1>3. ObservedRow(a, j, t) \in PolicyRow
  BY <1>1, ObservedType, Zenon 
<1>4. [r \in Readers |-> SyncedGrant(access[a][r], r, j)]
        \in [Readers -> {"none", "allowed", "revoked"}]
  BY DEF SyncedGrant, PolicyTypeOK
<1>5. /\ obs' = [obs EXCEPT ![a] = row]
      /\ IF article[a].state # "absent"
         THEN /\ policy' = [policy EXCEPT ![a] = ObservedRow(a, j, t)]
              /\ access' = [access EXCEPT ![a] =
                              [r \in Readers |-> SyncedGrant(access[a][r], r, j)]]
         ELSE UNCHANGED <<policy, access>>
  BY Zenon DEF ApplyFeishuObservation
<1>6. epoch' \in Nat
  BY EpochType, Zenon DEF ApplyFeishuObservation
<1> HIDE DEF j, row
<1>7. obs' \in [Articles -> ObsRow]
  BY <1>2, <1>5, Zenon DEF PolicyTypeOK
<1>8. policy' \in [Articles -> PolicyRow]
  BY <1>3, <1>5, Zenon DEF PolicyTypeOK
<1>9. access' \in [Articles -> [Readers -> {"none", "allowed", "revoked"}]]
  BY <1>4, <1>5, Zenon DEF PolicyTypeOK
<1> QED
  BY <1>6, <1>7, <1>8, <1>9, Zenon DEF ApplyFeishuObservation, PolicyTypeOK

LEMMA TombstoneTypes ==
    ASSUME PolicyTypeOK, NEW a \in Articles,
           TombstoneFile(a) \/ \E t \in Nat : ApplyFeishuDelete(a, t)
    PROVE  PolicyTypeOK'
<1>1. [article[a] EXCEPT !.state = "tombstoned"] \in ArticleRow
  BY RowTypes, Zenon DEF ArticleRow
<1>2. CASE TombstoneFile(a)
  <2>1. epoch' \in Nat
    BY <1>2, EpochType, Zenon DEF TombstoneFile
  <2>2. article' \in [Articles -> ArticleRow]
    BY <1>1, <1>2, Zenon DEF TombstoneFile, PolicyTypeOK
  <2> QED
    BY <1>2, <2>1, <2>2, Zenon DEF TombstoneFile, PolicyTypeOK
<1>3. ASSUME NEW t \in Nat, ApplyFeishuDelete(a, t)
      PROVE  PolicyTypeOK'
  <2>1. epoch' \in Nat
    BY <1>3, EpochType, Zenon DEF ApplyFeishuDelete
  <2>2. article' \in [Articles -> ArticleRow]
    BY <1>1, <1>3, Zenon DEF ApplyFeishuDelete, PolicyTypeOK
  <2>3. [status |-> "failed", policy |-> None, observedAt |-> RecordedAt(a, t)] \in ObsRow
    BY PolicyKinds, Zenon DEF ObsRow, Statuses, RecordedAt, PolicyTypeOK
  <2>4. obs' \in [Articles -> ObsRow]
    BY <1>3, <2>3, Zenon DEF ApplyFeishuDelete, PolicyTypeOK
  <2> QED
    BY <1>3, <2>1, <2>2, <2>4, Zenon DEF ApplyFeishuDelete, PolicyTypeOK
<1> QED
  BY <1>2, <1>3, Zenon 

LEMMA SourceTypes ==
    ASSUME PolicyTypeOK, OffboardFileSource \/ ActivateSourceVersion
    PROVE  PolicyTypeOK'
<1>1. source.version + 1 \in Nat
  BY DEF PolicyTypeOK, SourceRow
<1>2. CASE OffboardFileSource
  <2>1. epoch' \in Nat
    BY <1>2, EpochType, Zenon DEF OffboardFileSource
  <2>2. source' \in SourceRow
    BY <1>2, Zenon DEF OffboardFileSource, PolicyTypeOK, SourceRow
  <2> QED
    BY <1>2, <2>1, <2>2, Zenon DEF OffboardFileSource, PolicyTypeOK
<1>3. CASE ActivateSourceVersion
  <2>1. epoch' \in Nat
    BY <1>3, EpochType, Zenon DEF ActivateSourceVersion, PolicyTypeOK
  <2>2. source' \in SourceRow
    BY <1>1, <1>3, Zenon DEF ActivateSourceVersion, PolicyTypeOK, SourceRow
  <2> QED
    BY <1>3, <2>1, <2>2, Zenon DEF ActivateSourceVersion, PolicyTypeOK
<1> QED
  BY <1>2, <1>3, Zenon 

LEMMA SettingTypes ==
    ASSUME PolicyTypeOK,
           \/ Tick
           \/ \E d \in Defaults, p \in DefaultPolicies : SetPolicyDefault(d, p)
           \/ \E r \in Readers : EndMembership(r)
           \/ \E a \in Articles, r \in Readers : RevokeFieldRight(a, r)
    PROVE  PolicyTypeOK'
<1>1. CASE Tick
  BY <1>1 DEF Tick, PolicyTypeOK
<1>2. ASSUME NEW d \in Defaults, NEW p \in DefaultPolicies, SetPolicyDefault(d, p)
      PROVE  PolicyTypeOK'
  <2>1. defaults' \in [Defaults -> PolicyOrNone]
    BY <1>2, PoliciesAssumption, Zenon DEF SetPolicyDefault, PolicyTypeOK
  <2> QED
    BY <1>2, <2>1, Zenon DEF SetPolicyDefault, PolicyTypeOK
<1>3. ASSUME NEW r \in Readers, EndMembership(r)
      PROVE  PolicyTypeOK'
  BY <1>3, Zenon DEF EndMembership, PolicyTypeOK
<1>4. ASSUME NEW a \in Articles, NEW r \in Readers, RevokeFieldRight(a, r)
      PROVE  PolicyTypeOK'
  <2>1. fieldRight' \in [Articles -> SUBSET Readers]
    BY <1>4, Zenon DEF RevokeFieldRight, PolicyTypeOK
  <2> QED
    BY <1>4, <2>1, Zenon DEF RevokeFieldRight, PolicyTypeOK
<1> QED
  BY <1>1, <1>2, <1>3, <1>4, Zenon 

LEMMA TicksAreNat == \A t \in 1 .. ClockBound : t \in Nat
BY BoundsAssumption

LEMMA TypesStep ==
    ASSUME PolicyTypeOK, PolicyNext \/ ProvisioningNext
    PROVE  PolicyTypeOK'
<1>1. ASSUME NEW a \in Articles, NEW r \in Readers,
             PrepareFileArticle(a, r) \/ RevokeAccess(a, r)
      PROVE  PolicyTypeOK'
  BY <1>1, NewFileTypes, RevokeTypes, Zenon 
<1>2. ASSUME NEW a \in Articles,
             ActivateRevision(a) \/ SeedFeishuArticle(a) \/ TombstoneFile(a)
      PROVE  PolicyTypeOK'
  BY <1>2, ActivateTypes, SeedTypes, TombstoneTypes, Zenon 
<1>3. ASSUME NEW a \in FeishuArticles, NEW t \in 1 .. ClockBound,
             \/ \E o \in Outcomes : ApplyFeishuObservation(a, o, t)
             \/ ApplyFeishuDelete(a, t)
      PROVE  PolicyTypeOK'
  <2>1. a \in Articles /\ t \in Nat
    BY TicksAreNat, Zenon DEF Articles
  <2> QED
    BY <1>3, <2>1, ObservationTypes, TombstoneTypes, Zenon 
<1>4. ASSUME NEW t \in TargetPolicies,
             \/ \E S \in SUBSET Articles : ConfirmBulkChange(S, t)
             \/ \E a \in Articles : ChangeArticlePolicy(a, t)
      PROVE  PolicyTypeOK'
  BY <1>4, OperatorTypes, Zenon 
<1>5. CASE ProvisioningNext
  <2>1. \A r \in Leavers : r \in Readers
    BY LeaversAssumption, Zenon 
  <2> QED
    BY <1>5, <2>1, SettingTypes, Zenon DEF ProvisioningNext
<1> QED
  BY <1>1, <1>2, <1>3, <1>4, <1>5, SourceTypes, SettingTypes, Zenon DEF PolicyNext

LEMMA TypesInit == PolicyInit => PolicyTypeOK
<1> SUFFICES ASSUME PolicyInit PROVE PolicyTypeOK
  OBVIOUS
<1>1. NoPolicy \in PolicyRow /\ NoObs \in ObsRow
  BY PolicyKinds, Zenon DEF NoPolicy, NoObs, PolicyRow, ObsRow, Statuses
<1>2. [state |-> "absent", revision |-> 0] \in ArticleRow
  BY Zenon DEF ArticleRow
<1>3. source \in SourceRow
  BY Zenon DEF PolicyInit, SourceRow
<1>4. policy \in [Articles -> PolicyRow] /\ obs \in [Articles -> ObsRow]
  BY <1>1, Zenon DEF PolicyInit
<1> QED
  BY <1>2, <1>3, <1>4, PolicyKinds, Zenon DEF PolicyInit, PolicyTypeOK

\* The policy tables keep their types under every writer.
THEOREM PolicyTypes == PolicySpec => []PolicyTypeOK
<1>1. PolicyTypeOK /\ [PolicyNext /\ UNCHANGED lockVars]_<<policyVars, lockVars>>
        => PolicyTypeOK'
  <2>1. CASE PolicyNext
    BY <2>1, TypesStep, Zenon 
  <2>2. CASE UNCHANGED <<policyVars, lockVars>>
    BY <2>2, Zenon DEF policyVars, PolicyTypeOK
  <2> QED
    BY <2>1, <2>2, Zenon 
<1> QED
  BY <1>1, TypesInit, PTL DEF PolicySpec

-----------------------------------------------------------------------------
(* What is published.  PublishedIsMeet alone is not inductive: a bulk      *)
(* change stores its target as it is, which is the meet only because a     *)
(* resolved observation always names a policy.                             *)

ResolvedNamesPolicy ==
    \A a \in Articles : obs[a].status = "resolved" => obs[a].policy \in Policies
PublishedInv == PolicyTypeOK /\ ResolvedNamesPolicy /\ PublishedIsMeet

PublishedFor(a) ==
    article[a].state = "live" =>
      /\ policy[a].status = obs[a].status
      /\ policy[a].effective = Published(policy[a], obs[a].policy, obs[a].status)

\* A policy within a resolved observation is its own meet with it.
LEMMA WithinIsMeet ==
    ASSUME NEW t \in Policies, NEW o \in ObsRow, o.policy \in Policies,
           WithinObservation(t, o)
    PROVE  Meet(t, o.policy) = t
<1>0. /\ t \in {Private, Organization} \cup GroupPolicies
      /\ o.policy \in {Private, Organization} \cup GroupPolicies
      /\ t # None /\ o.policy # None
  BY PolicyKinds, Zenon DEF Policies
<1>1. CASE t = Private
  BY <1>0, <1>1, Zenon DEF Meet
<1>2. CASE t # Private /\ o.policy = Organization
  BY <1>0, <1>2, PolicyKinds, Zenon DEF Meet
<1>3. CASE /\ t.kind = "groups" /\ o.policy.kind = "groups"
           /\ t.groups \subseteq o.policy.groups
  <2>1. t \in GroupPolicies /\ o.policy \in GroupPolicies
    BY <1>0, <1>3 DEF Private, Organization
  <2>2. /\ t \notin {None, Private, Organization}
        /\ o.policy \notin {None, Private, Organization}
    BY <2>1 DEF GroupPolicies, None, Private, Organization
  <2>3. t.groups \cap o.policy.groups = t.groups /\ t.groups # {}
    BY <1>3, <2>1, Zenon DEF GroupPolicies
  <2>4. t = [kind |-> "groups", groups |-> t.groups]
    BY <2>1, Zenon DEF GroupPolicies
  <2>5. Meet(t, o.policy) = [kind |-> "groups", groups |-> t.groups]
    BY <2>2, <2>3, Zenon DEF Meet
  <2> QED
    BY <2>4, <2>5, Zenon 
<1> QED
  BY <1>1, <1>2, <1>3, Zenon DEF WithinObservation

\* Rows other than those of a are left alone.
LEMMA PublishedFrame ==
    ASSUME NEW b \in Articles, PublishedFor(b),
           UNCHANGED <<article[b], policy[b], obs[b]>>
    PROVE  PublishedFor(b)'
BY Zenon DEF PublishedFor, Published, Meet

\* ChangeArticlePolicy, ObservedRow and FixedPolicy publish the meet by
\* construction; RevokedPolicy publishes nothing.
LEMMA RowPublishes ==
    ASSUME PolicyTypeOK, NEW a \in Articles
    PROVE  /\ \A t \in Policies :
                /\ ChangedRow(a, t).status = policy[a].status
                /\ ChangedRow(a, t).effective
                     = Published(ChangedRow(a, t), obs[a].policy, obs[a].status)
                /\ BulkRow(a, t).status = policy[a].status
                /\ BulkRow(a, t).effective = t /\ BulkRow(a, t).local = t
           /\ \A o \in OutcomeRow, t \in Nat :
                /\ ObservedRow(a, o, t).status = o.status
                /\ ObservedRow(a, o, t).effective
                     = Published(ObservedRow(a, o, t), o.policy, o.status)
           /\ \A o \in ObsRow, v \in Nat :
                /\ FixedPolicy(a, o, v).status = o.status
                /\ FixedPolicy(a, o, v).effective
                     = Published(FixedPolicy(a, o, v), o.policy, o.status)
           /\ RevokedPolicy(a).status = "failed"
           /\ RevokedPolicy(a).effective = None
<1>1. policy[a] \in PolicyRow
  BY RowTypes, Zenon 
<1>2. ASSUME NEW t \in Policies
      PROVE  /\ ChangedRow(a, t).status = policy[a].status
             /\ ChangedRow(a, t).effective
                  = Published(ChangedRow(a, t), obs[a].policy, obs[a].status)
             /\ BulkRow(a, t).status = policy[a].status
             /\ BulkRow(a, t).effective = t /\ BulkRow(a, t).local = t
  BY <1>1, Zenon DEF ChangedRow, BulkRow, Published, PolicyRow
<1>3. ASSUME NEW o \in OutcomeRow, NEW t \in Nat
      PROVE  /\ ObservedRow(a, o, t).status = o.status
             /\ ObservedRow(a, o, t).effective
                  = Published(ObservedRow(a, o, t), o.policy, o.status)
  BY <1>1, Zenon DEF ObservedRow, Published, PolicyRow
<1>4. ASSUME NEW o \in ObsRow, NEW v \in Nat
      PROVE  /\ FixedPolicy(a, o, v).status = o.status
             /\ FixedPolicy(a, o, v).effective
                  = Published(FixedPolicy(a, o, v), o.policy, o.status)
  BY Zenon DEF FixedPolicy, Published
<1>5. RevokedPolicy(a).status = "failed" /\ RevokedPolicy(a).effective = None
  BY <1>1, Zenon DEF RevokedPolicy, PolicyRow
<1> QED
  BY <1>2, <1>3, <1>4, <1>5, Zenon 

\* The row of a is rewritten as one that publishes what its new observation
\* says; every other row stays.
LEMMA PublishedRewrite ==
    ASSUME PublishedInv, NEW a \in Articles, NEW row \in PolicyRow, NEW o \in ObsRow,
           policy' = [policy EXCEPT ![a] = row], obs' = [obs EXCEPT ![a] = o],
           o.status = "resolved" => o.policy \in Policies,
           row.status = o.status,
           row.effective = Published(row, o.policy, o.status),
           \A b \in Articles \ {a} : article'[b] = article[b]
    PROVE  ResolvedNamesPolicy' /\ PublishedIsMeet'
<1>1. /\ policy \in [Articles -> PolicyRow] /\ obs \in [Articles -> ObsRow]
      /\ \A b \in Articles : PublishedFor(b)
  BY Zenon DEF PublishedInv, PolicyTypeOK, PublishedIsMeet, PublishedFor
<1>2. /\ policy'[a] = row /\ obs'[a] = o
      /\ \A b \in Articles \ {a} : policy'[b] = policy[b] /\ obs'[b] = obs[b]
  BY <1>1, Zenon 
<1>3. PublishedFor(a)'
  BY <1>2, Zenon DEF PublishedFor
<1>4. ASSUME NEW b \in Articles \ {a}
      PROVE  PublishedFor(b)'
  BY <1>1, <1>2, PublishedFrame, Zenon 
<1>5. ResolvedNamesPolicy'
  BY <1>2, Zenon DEF PublishedInv, ResolvedNamesPolicy
<1> QED
  BY <1>3, <1>4, <1>5, Zenon DEF PublishedIsMeet, PublishedFor

\* Policies and observations stay; an Article becomes live only if its row
\* already publishes what it should.
LEMMA PublishedStays ==
    ASSUME PublishedInv, UNCHANGED <<policy, obs>>,
           \A b \in Articles : article'[b].state = "live" => article[b].state = "live"
    PROVE  ResolvedNamesPolicy' /\ PublishedIsMeet'
<1>1. \A b \in Articles : PublishedFor(b)
  BY Zenon DEF PublishedInv, PublishedIsMeet, PublishedFor
<1>2. ASSUME NEW b \in Articles
      PROVE  PublishedFor(b)'
  BY <1>1, Zenon DEF PublishedFor, Published, Meet
<1> QED
  BY <1>2, Zenon DEF PublishedInv, ResolvedNamesPolicy, PublishedIsMeet, PublishedFor

\* An Article enters: PrepareFileArticle and SeedFeishuArticle.
LEMMA PublishedByEntry ==
    ASSUME PublishedInv, NEW a \in Articles,
           SeedFeishuArticle(a) \/ \E r \in Readers : PrepareFileArticle(a, r)
    PROVE  ResolvedNamesPolicy' /\ PublishedIsMeet'
<1>0. PolicyTypeOK
  BY Zenon DEF PublishedInv
<1>1. CASE SeedFeishuArticle(a)
  <2>1. FixedPolicy(a, obs[a], 1) \in PolicyRow /\ obs[a] \in ObsRow
    BY <1>0, FixedType, RowTypes, Zenon 
  <2>2. obs' = [obs EXCEPT ![a] = obs[a]]
    BY <1>0, <1>1, Zenon DEF SeedFeishuArticle, PolicyTypeOK
  <2>3. \A b \in Articles \ {a} : article'[b] = article[b]
    BY <1>0, <1>1, Zenon DEF SeedFeishuArticle, PolicyTypeOK
  <2>4. obs[a].status = "resolved" => obs[a].policy \in Policies
    BY Zenon DEF PublishedInv, ResolvedNamesPolicy
  <2>5. policy' = [policy EXCEPT ![a] = FixedPolicy(a, obs[a], 1)]
    BY <1>1, Zenon DEF SeedFeishuArticle
  <2>6. /\ FixedPolicy(a, obs[a], 1).status = obs[a].status
        /\ FixedPolicy(a, obs[a], 1).effective
             = Published(FixedPolicy(a, obs[a], 1), obs[a].policy, obs[a].status)
    BY <1>0, <2>1, RowPublishes
  <2> QED
    BY <2>1, <2>2, <2>3, <2>4, <2>5, <2>6, PublishedRewrite, ZenonT(60) 
<1>2. ASSUME NEW r \in Readers, PrepareFileArticle(a, r)
      PROVE  ResolvedNamesPolicy' /\ PublishedIsMeet'
  <2> DEFINE o == [status |-> "resolved", policy |-> Private, observedAt |-> now]
             row == FixedPolicy(a, o, source.version)
  <2>1. o \in ObsRow /\ source.version \in Nat
    BY <1>0, PolicyKinds, Zenon DEF ObsRow, Statuses, PolicyTypeOK, SourceRow
  <2>2. policy' = [policy EXCEPT ![a] = row] /\ obs' = [obs EXCEPT ![a] = o]
    BY <1>2, Zenon DEF PrepareFileArticle
  <2>3. \A b \in Articles \ {a} : article'[b] = article[b]
    BY <1>0, <1>2, Zenon DEF PrepareFileArticle, PolicyTypeOK
  <2>4. o.status = "resolved" => o.policy \in Policies
    BY PolicyKinds, Zenon 
  <2> HIDE DEF o
  <2>5. row \in PolicyRow
    BY <1>0, <2>1, FixedType, Zenon 
  <2>6. row.status = o.status /\ row.effective = Published(row, o.policy, o.status)
    BY <1>0, <2>1, RowPublishes, Zenon 
  <2> HIDE DEF row
  <2> QED
    BY <2>1, <2>2, <2>3, <2>4, <2>5, <2>6, PublishedRewrite, Zenon 
<1> QED
  BY <1>1, <1>2, Zenon 

LEMMA PublishedByRevocation ==
    ASSUME PublishedInv, NEW a \in Articles, NEW r \in Readers, RevokeAccess(a, r)
    PROVE  ResolvedNamesPolicy' /\ PublishedIsMeet'
<1>0. PolicyTypeOK /\ article' = article
  BY Zenon DEF PublishedInv, RevokeAccess
<1>1. CASE UNCHANGED <<policy, obs>>
  BY <1>0, <1>1, PublishedStays, Zenon 
<1>2. CASE policy' = [policy EXCEPT ![a] = RevokedPolicy(a)]
           /\ obs' = [obs EXCEPT ![a] = FailedObs]
  <2>1. FailedObs \in ObsRow /\ FailedObs.status = "failed"
    BY <1>0, PolicyKinds, Zenon DEF FailedObs, ObsRow, Statuses, PolicyTypeOK
  <2>2. RevokedPolicy(a) \in PolicyRow
    BY <1>0, RevokedType, Zenon 
  <2>3. /\ RevokedPolicy(a).status = "failed" /\ RevokedPolicy(a).effective = None
    BY <1>0, RowPublishes, Zenon 
  <2>4. RevokedPolicy(a).effective
          = Published(RevokedPolicy(a), FailedObs.policy, FailedObs.status)
    BY <2>1, <2>3, Zenon DEF Published
  <2> QED
    BY <1>0, <1>2, <2>1, <2>2, <2>3, <2>4, PublishedRewrite, Zenon 
<1> QED
  BY <1>1, <1>2, Zenon DEF RevokeAccess

\* Operators: a bulk change stores its target, which lies within the observation.
LEMMA PublishedByOperators ==
    ASSUME PublishedInv, NEW t \in TargetPolicies,
           \/ \E S \in SUBSET Articles : ConfirmBulkChange(S, t)
           \/ \E a \in Articles : ChangeArticlePolicy(a, t)
    PROVE  ResolvedNamesPolicy' /\ PublishedIsMeet'
<1>0. PolicyTypeOK /\ t \in Policies /\ \A a \in Articles : PublishedFor(a)
  BY PoliciesAssumption, Zenon DEF PublishedInv, PublishedIsMeet, PublishedFor
<1>1. ASSUME NEW S \in SUBSET Articles, ConfirmBulkChange(S, t)
      PROVE  ResolvedNamesPolicy' /\ PublishedIsMeet'
  <2>1. /\ obs' = obs /\ article' = article
        /\ policy' = [a \in Articles |-> IF a \in S THEN BulkRow(a, t) ELSE policy[a]]
        /\ \A a \in S : WithinObservation(t, obs[a])
    BY <1>1, Zenon DEF ConfirmBulkChange
  <2>2. ASSUME NEW a \in S
        PROVE  PublishedFor(a)'
    <3>1. a \in Articles /\ policy'[a] = BulkRow(a, t) /\ obs'[a] = obs[a]
      BY <2>1, ZenonT(60) 
    <3>2. obs[a].status = "resolved" /\ obs[a].policy \in Policies /\ obs[a] \in ObsRow
      BY <1>0, <2>1, <3>1, RowTypes, Zenon DEF WithinObservation, PublishedInv, ResolvedNamesPolicy
    <3>3. Meet(t, obs[a].policy) = t
      BY <1>0, <2>1, <3>2, WithinIsMeet, Zenon 
    <3>4. /\ BulkRow(a, t).status = policy[a].status
          /\ BulkRow(a, t).effective = t /\ BulkRow(a, t).local = t
      BY <1>0, <3>1, RowPublishes, ZenonT(60) 
    <3>5. article[a].state = "live" => policy[a].status = obs[a].status
      BY <1>0, <3>1, Zenon DEF PublishedFor
    <3>6. Published(policy'[a], obs'[a].policy, obs'[a].status) = t
      BY <3>1, <3>2, <3>3, <3>4, Zenon DEF Published
    <3> QED
      BY <2>1, <3>1, <3>4, <3>5, <3>6, Zenon DEF PublishedFor
  <2>3. ASSUME NEW a \in Articles \ S
        PROVE  PublishedFor(a)'
    <3>1. policy'[a] = policy[a] /\ obs'[a] = obs[a] /\ article'[a] = article[a]
      BY <2>1, Zenon 
    <3> QED
      BY <1>0, <3>1, PublishedFrame, Zenon 
  <2>4. ResolvedNamesPolicy'
    BY <2>1, Zenon DEF PublishedInv, ResolvedNamesPolicy
  <2> QED
    BY <2>2, <2>3, <2>4, Zenon DEF PublishedIsMeet, PublishedFor
<1>2. ASSUME NEW a \in Articles, ChangeArticlePolicy(a, t)
      PROVE  ResolvedNamesPolicy' /\ PublishedIsMeet'
  <2>1. /\ obs' = obs /\ article' = article /\ article[a].state = "live"
        /\ policy' = [policy EXCEPT ![a] = ChangedRow(a, t)]
    BY <1>2, Zenon DEF ChangeArticlePolicy
  <2>2. obs' = [obs EXCEPT ![a] = obs[a]] /\ obs[a] \in ObsRow
    BY <1>0, <2>1, RowTypes, Zenon DEF PolicyTypeOK
  <2>3. ChangedRow(a, t) \in PolicyRow
    BY <1>0, ChangedType, Zenon 
  <2>4. /\ ChangedRow(a, t).status = obs[a].status
        /\ ChangedRow(a, t).effective
             = Published(ChangedRow(a, t), obs[a].policy, obs[a].status)
    BY <1>0, <2>1, RowPublishes, ZenonT(60) DEF PublishedFor
  <2>5. obs[a].status = "resolved" => obs[a].policy \in Policies
    BY Zenon DEF PublishedInv, ResolvedNamesPolicy
  <2> QED
    BY <2>1, <2>2, <2>3, <2>4, <2>5, PublishedRewrite, Zenon 
<1> QED
  BY <1>1, <1>2, Zenon 

\* Feishu pages: a new observation rewrites row and observation together, an
\* observed deletion ends the Article.
LEMMA PublishedByFeishu ==
    ASSUME PublishedInv, NEW a \in Articles, NEW t \in Nat,
           \/ \E o \in Outcomes : ApplyFeishuObservation(a, o, t)
           \/ ApplyFeishuDelete(a, t)
    PROVE  ResolvedNamesPolicy' /\ PublishedIsMeet'
<1>0. /\ PolicyTypeOK /\ ResolvedNamesPolicy /\ \A b \in Articles : PublishedFor(b)
      /\ policy \in [Articles -> PolicyRow] /\ obs \in [Articles -> ObsRow]
  BY Zenon DEF PublishedInv, PublishedIsMeet, PublishedFor, PolicyTypeOK
<1>1. ASSUME NEW out \in Outcomes, ApplyFeishuObservation(a, out, t)
      PROVE  ResolvedNamesPolicy' /\ PublishedIsMeet'
  <2> DEFINE j == JudgedOutcome(a, out, t)
             o == [status |-> j.status, policy |-> j.policy,
                   observedAt |-> RecordedAt(a, t)]
  <2>1. /\ j \in OutcomeRow /\ RecordedAt(a, t) \in Nat
        /\ j.status = "resolved" => j.policy \in Policies
    BY <1>0, JudgedType, OutcomeTypes, Zenon 
  <2>2. /\ o \in ObsRow /\ o.status = j.status /\ o.policy = j.policy
    BY <2>1, Zenon DEF ObsRow, OutcomeRow
  <2>3. /\ obs' = [obs EXCEPT ![a] = o] /\ article' = article
        /\ IF article[a].state # "absent"
           THEN policy' = [policy EXCEPT ![a] = ObservedRow(a, j, t)]
           ELSE policy' = policy
    BY <1>1, ZenonT(60) DEF ApplyFeishuObservation
  <2> HIDE DEF j, o
  <2>4. CASE article[a].state # "absent"
    <3>1. ObservedRow(a, j, t) \in PolicyRow
      BY <1>0, <2>1, ObservedType, Zenon 
    <3>2. /\ ObservedRow(a, j, t).status = j.status
          /\ ObservedRow(a, j, t).effective
               = Published(ObservedRow(a, j, t), j.policy, j.status)
      BY <1>0, <2>1, RowPublishes, ZenonT(60) 
    <3> QED
      BY <2>1, <2>2, <2>3, <2>4, <3>1, <3>2, PublishedRewrite, Zenon 
  <2>5. CASE article[a].state = "absent"
    <3>1. PublishedFor(a)'
      BY <2>3, <2>5, Zenon DEF PublishedFor
    <3>2. ASSUME NEW b \in Articles \ {a}
          PROVE  PublishedFor(b)' /\ obs'[b] = obs[b]
      <4>1. obs'[b] = obs[b] /\ policy'[b] = policy[b] /\ article'[b] = article[b]
        BY <1>0, <2>3, <2>5, Zenon 
      <4> QED
        BY <1>0, <4>1, PublishedFrame, Zenon 
    <3>3. obs'[a] = o
      BY <1>0, <2>3, Zenon 
    <3>4. ResolvedNamesPolicy'
      BY <1>0, <2>1, <2>2, <3>2, <3>3, Zenon DEF ResolvedNamesPolicy
    <3> QED
      BY <3>1, <3>2, <3>4, Zenon DEF PublishedIsMeet, PublishedFor
  <2> QED
    BY <2>4, <2>5, Zenon 
<1>2. CASE ApplyFeishuDelete(a, t)
  <2> DEFINE o == [status |-> "failed", policy |-> None, observedAt |-> RecordedAt(a, t)]
  <2>1. /\ obs' = [obs EXCEPT ![a] = o] /\ policy' = policy
        /\ article' = IF article[a].state = "absent" THEN article
                      ELSE [article EXCEPT ![a] = [@ EXCEPT !.state = "tombstoned"]]
    BY <1>2, Zenon DEF ApplyFeishuDelete
  <2>2. o.status = "failed"
    OBVIOUS
  <2> HIDE DEF o
  <2>3. article \in [Articles -> ArticleRow] /\ article[a] \in ArticleRow
    BY <1>0, Zenon DEF PolicyTypeOK
  <2>4. article'[a].state # "live"
    <3>1. CASE article[a].state = "absent"
      BY <2>1, <3>1, Zenon 
    <3>2. CASE article[a].state # "absent"
      BY <2>1, <2>3, <3>2, Zenon DEF ArticleRow
    <3> QED
      BY <3>1, <3>2, Zenon 
  <2>5. PublishedFor(a)'
    BY <2>4, Zenon DEF PublishedFor
  <2>6. ASSUME NEW b \in Articles \ {a}
        PROVE  PublishedFor(b)' /\ obs'[b] = obs[b]
    <3>1. obs'[b] = obs[b] /\ policy'[b] = policy[b] /\ article'[b] = article[b]
      BY <1>0, <2>1, <2>3, Zenon 
    <3> QED
      BY <1>0, <3>1, PublishedFrame, Zenon 
  <2>7. obs'[a] = o
    BY <1>0, <2>1, Zenon 
  <2>8. ResolvedNamesPolicy'
    BY <1>0, <2>2, <2>6, <2>7, Zenon DEF ResolvedNamesPolicy
  <2> QED
    BY <2>5, <2>6, <2>8, Zenon DEF PublishedIsMeet, PublishedFor
<1> QED
  BY <1>1, <1>2, Zenon 

LEMMA PublishedStep ==
    ASSUME PublishedInv, PolicyNext
    PROVE  PublishedInv'
<1>0. PolicyTypeOK /\ PolicyTypeOK'
  BY TypesStep, Zenon DEF PublishedInv
<1>1. ASSUME NEW a \in Articles, NEW r \in Readers,
             PrepareFileArticle(a, r) \/ RevokeAccess(a, r)
      PROVE  ResolvedNamesPolicy' /\ PublishedIsMeet'
  BY <1>1, PublishedByEntry, PublishedByRevocation, Zenon 
<1>2. ASSUME NEW a \in Articles, SeedFeishuArticle(a)
      PROVE  ResolvedNamesPolicy' /\ PublishedIsMeet'
  BY <1>2, PublishedByEntry, Zenon 
<1>3. ASSUME NEW a \in Articles, ActivateRevision(a) \/ TombstoneFile(a)
      PROVE  ResolvedNamesPolicy' /\ PublishedIsMeet'
  <2>1. article[a].state = "live" /\ UNCHANGED <<policy, obs>>
    BY <1>3, Zenon DEF ActivateRevision, TombstoneFile
  <2>2. \A b \in Articles \ {a} : article'[b] = article[b]
    BY <1>0, <1>3, Zenon DEF ActivateRevision, TombstoneFile, PolicyTypeOK
  <2> QED
    BY <2>1, <2>2, PublishedStays, Zenon 
<1>4. ASSUME NEW a \in FeishuArticles, NEW t \in 1 .. ClockBound,
             \/ \E o \in Outcomes : ApplyFeishuObservation(a, o, t)
             \/ ApplyFeishuDelete(a, t)
      PROVE  ResolvedNamesPolicy' /\ PublishedIsMeet'
  <2>1. a \in Articles /\ t \in Nat
    BY TicksAreNat, Zenon DEF Articles
  <2> QED
    BY <1>4, <2>1, PublishedByFeishu, Zenon 
<1>5. ASSUME NEW t \in TargetPolicies,
             \/ \E S \in SUBSET Articles : ConfirmBulkChange(S, t)
             \/ \E a \in Articles : ChangeArticlePolicy(a, t)
      PROVE  ResolvedNamesPolicy' /\ PublishedIsMeet'
  BY <1>5, PublishedByOperators, Zenon 
<1>6. ASSUME \/ OffboardFileSource \/ ActivateSourceVersion \/ Tick
             \/ \E d \in Defaults, p \in DefaultPolicies : SetPolicyDefault(d, p)
      PROVE  ResolvedNamesPolicy' /\ PublishedIsMeet'
  <2>1. UNCHANGED <<policy, obs>> /\ article' = article
    BY <1>6, Zenon DEF OffboardFileSource, ActivateSourceVersion, Tick, SetPolicyDefault
  <2> QED
    BY <2>1, PublishedStays, Zenon 
<1>7. ResolvedNamesPolicy' /\ PublishedIsMeet'
  BY <1>1, <1>2, <1>3, <1>4, <1>5, <1>6, Zenon DEF PolicyNext
<1> QED
  BY <1>0, <1>7, Zenon DEF PublishedInv

\* What is published of a live Article is the meet of the Organization's proposal
\* and of the newest source observation, and nothing without a resolved one:
\* after imports, revocations, bulk changes, reviews, and Feishu pages applied
\* late, twice or out of order, for any Articles, groups and policies.
THEOREM PublicationIsTheMeet == PolicySpec => []PublishedIsMeet
<1>1. PolicyInit => PublishedInv
  <2> SUFFICES ASSUME PolicyInit PROVE ResolvedNamesPolicy /\ PublishedIsMeet
    BY TypesInit, Zenon DEF PublishedInv
  <2>1. \A a \in Articles : obs[a].status = "missing" /\ article[a].state = "absent"
    BY Zenon DEF PolicyInit, NoObs
  <2> QED
    BY <2>1, Zenon DEF ResolvedNamesPolicy, PublishedIsMeet
<1>2. PublishedInv /\ [PolicyNext /\ UNCHANGED lockVars]_<<policyVars, lockVars>>
        => PublishedInv'
  <2>1. CASE PolicyNext
    BY <2>1, PublishedStep, Zenon 
  <2>2. ASSUME PublishedInv, UNCHANGED <<policyVars, lockVars>>
        PROVE  PublishedInv'
    <3>1. PolicyTypeOK'
      BY <2>2, Zenon DEF policyVars, PolicyTypeOK, PublishedInv
    <3>2. ResolvedNamesPolicy' /\ PublishedIsMeet'
      BY <2>2, PublishedStays, Zenon DEF policyVars
    <3> QED
      BY <3>1, <3>2, Zenon DEF PublishedInv
  <2> QED
    BY <2>1, <2>2, Zenon 
<1>3. PublishedInv => PublishedIsMeet
  BY Zenon DEF PublishedInv
<1> QED
  BY <1>1, <1>2, <1>3, PTL DEF PolicySpec

-----------------------------------------------------------------------------
(* The principal grants of Feishu Articles.  An Article that is not there   *)
(* yet has none, whatever was observed of it before.                        *)

GrantsFor(a) ==
    (\E r \in Readers : access[a][r] = "allowed") =>
      /\ article[a].state # "absent"
      /\ article[a].state = "live" => obs[a].status = "resolved" /\ obs[a].policy = Private
GrantsInv == PolicyTypeOK /\ \A a \in FeishuArticles : GrantsFor(a)

\* No grant is added and nothing else that matters of a changes.
LEMMA GrantsStay ==
    ASSUME NEW a \in FeishuArticles, GrantsFor(a),
           \A r \in Readers : access'[a][r] = "allowed" => access[a][r] = "allowed",
           obs'[a] = obs[a], article'[a].state = article[a].state
    PROVE  GrantsFor(a)'
BY Zenon DEF GrantsFor

LEMMA GrantsByFeishu ==
    ASSUME GrantsInv, NEW a \in FeishuArticles, NEW t \in Nat,
           \/ \E o \in Outcomes : ApplyFeishuObservation(a, o, t)
           \/ ApplyFeishuDelete(a, t)
    PROVE  \A b \in FeishuArticles : GrantsFor(b)'
<1>0. /\ PolicyTypeOK /\ a \in Articles /\ \A b \in FeishuArticles : b \in Articles
      /\ \A b \in FeishuArticles : GrantsFor(b)
  BY Zenon DEF GrantsInv, Articles
<1>1. ASSUME NEW out \in Outcomes, ApplyFeishuObservation(a, out, t)
      PROVE  \A b \in FeishuArticles : GrantsFor(b)'
  <2> DEFINE j == JudgedOutcome(a, out, t)
             o == [status |-> j.status, policy |-> j.policy,
                   observedAt |-> RecordedAt(a, t)]
  <2>1. j.policy = Private => j.status = "resolved"
    BY <1>0, JudgedType, OutcomeTypes, Zenon 
  <2>2. o.status = j.status /\ o.policy = j.policy
    OBVIOUS
  <2>3. /\ obs' = [obs EXCEPT ![a] = o] /\ article' = article
        /\ IF article[a].state # "absent"
           THEN access' = [access EXCEPT ![a] =
                             [r \in Readers |-> SyncedGrant(access[a][r], r, j)]]
           ELSE access' = access
    BY <1>1, Zenon DEF ApplyFeishuObservation
  <2> HIDE DEF j, o
  <2>4. obs'[a] = o /\ \A b \in FeishuArticles \ {a} : obs'[b] = obs[b]
    BY <1>0, <2>3, Zenon DEF PolicyTypeOK
  <2>5. GrantsFor(a)'
    <3>1. CASE article[a].state = "absent"
      BY <1>0, <2>3, <3>1, Zenon DEF GrantsFor
    <3>2. CASE article[a].state # "absent"
      <4>1. \A r \in Readers : access'[a][r] = SyncedGrant(access[a][r], r, j)
        <5>1. access'[a] = [r \in Readers |-> SyncedGrant(access[a][r], r, j)]
          BY <1>0, <2>3, <3>2, Zenon DEF PolicyTypeOK
        <5> QED
          BY <5>1, Zenon 
      <4>2. \A r \in Readers : access'[a][r] = "allowed" => j.policy = Private
        BY <4>1, Zenon DEF SyncedGrant
      <4> QED
        BY <2>1, <2>2, <2>3, <2>4, <3>2, <4>2, Zenon DEF GrantsFor
    <3> QED
      BY <3>1, <3>2, Zenon 
  <2>6. ASSUME NEW b \in FeishuArticles \ {a}
        PROVE  GrantsFor(b)'
    <3>1. access'[b] = access[b]
      BY <1>0, <2>3, Zenon DEF PolicyTypeOK
    <3> QED
      BY <1>0, <2>3, <2>4, <3>1, GrantsStay, Zenon 
  <2> QED
    BY <2>5, <2>6, Zenon 
<1>2. CASE ApplyFeishuDelete(a, t)
  <2> DEFINE o == [status |-> "failed", policy |-> None, observedAt |-> RecordedAt(a, t)]
  <2>1. /\ obs' = [obs EXCEPT ![a] = o] /\ access' = access
        /\ article' = IF article[a].state = "absent" THEN article
                      ELSE [article EXCEPT ![a] = [@ EXCEPT !.state = "tombstoned"]]
    BY <1>2, Zenon DEF ApplyFeishuDelete
  <2>2. article \in [Articles -> ArticleRow] /\ article[a] \in ArticleRow
    BY <1>0, Zenon DEF PolicyTypeOK
  <2> HIDE DEF o
  <2>3. GrantsFor(a)'
    <3>1. CASE article[a].state = "absent"
      BY <1>0, <2>1, <3>1, Zenon DEF GrantsFor
    <3>2. CASE article[a].state # "absent"
      <4>1. article'[a].state = "tombstoned"
        BY <1>0, <2>1, <2>2, <3>2, Zenon DEF ArticleRow
      <4> QED
        BY <4>1, Zenon DEF GrantsFor
    <3> QED
      BY <3>1, <3>2, Zenon 
  <2>4. ASSUME NEW b \in FeishuArticles \ {a}
        PROVE  GrantsFor(b)'
    <3>1. obs'[b] = obs[b] /\ article'[b] = article[b]
      BY <1>0, <2>1, <2>2, Zenon DEF PolicyTypeOK
    <3> QED
      BY <1>0, <2>1, <3>1, GrantsStay, Zenon 
  <2> QED
    BY <2>3, <2>4, Zenon 
<1> QED
  BY <1>1, <1>2, Zenon 

LEMMA GrantsStep ==
    ASSUME GrantsInv, PolicyNext
    PROVE  GrantsInv'
<1>0. /\ PolicyTypeOK /\ PolicyTypeOK' /\ \A b \in FeishuArticles : GrantsFor(b)
      /\ \A b \in FeishuArticles : b \in Articles /\ b \notin FileArticles
  BY TypesStep, ArticlesAssumption, Zenon DEF GrantsInv, Articles
<1> DEFINE Kept == \A b \in FeishuArticles : GrantsFor(b)'
<1>1. ASSUME NEW a \in Articles, NEW r \in Readers, PrepareFileArticle(a, r)
      PROVE  Kept
  <2>1. ASSUME NEW b \in FeishuArticles
        PROVE  obs'[b] = obs[b] /\ access'[b] = access[b] /\ article'[b] = article[b]
    <3>1. a # b
      BY <1>0, <1>1, Zenon DEF PrepareFileArticle
    <3> QED
      BY <1>0, <1>1, <3>1, Zenon DEF PrepareFileArticle, PolicyTypeOK
  <2> QED
    BY <1>0, <2>1, GrantsStay, Zenon 
<1>2. ASSUME NEW a \in Articles, NEW r \in Readers, RevokeAccess(a, r)
      PROVE  Kept
  <2>1. ASSUME NEW b \in FeishuArticles
        PROVE  obs'[b] = obs[b] /\ article'[b] = article[b]
    <3>1. a \in FileArticles => a # b
      BY <1>0, Zenon 
    <3> QED
      BY <1>0, <1>2, <3>1, Zenon DEF RevokeAccess, PolicyTypeOK
  <2>2. ASSUME NEW b \in FeishuArticles, NEW q \in Readers
        PROVE  access'[b][q] = "allowed" => access[b][q] = "allowed"
    BY <1>0, <1>2, Zenon DEF RevokeAccess, PolicyTypeOK
  <2> QED
    BY <1>0, <2>1, <2>2, GrantsStay, Zenon 
<1>3. ASSUME NEW a \in Articles, SeedFeishuArticle(a)
      PROVE  Kept
  <2>1. article[a].state = "absent" /\ UNCHANGED <<obs, access>> /\ a \in FeishuArticles
    BY <1>3, Zenon DEF SeedFeishuArticle
  <2>2. GrantsFor(a)'
    BY <1>0, <2>1, Zenon DEF GrantsFor
  <2>3. \A b \in FeishuArticles \ {a} : article'[b] = article[b]
    BY <1>0, <1>3, Zenon DEF SeedFeishuArticle, PolicyTypeOK
  <2>4. \A b \in FeishuArticles \ {a} : GrantsFor(b)'
    BY <1>0, <2>1, <2>3, GrantsStay, Zenon 
  <2> QED
    BY <2>2, <2>4, ZenonT(60) 
<1>4. ASSUME NEW a \in Articles, ActivateRevision(a) \/ TombstoneFile(a)
      PROVE  Kept
  <2>1. a \in FileArticles /\ UNCHANGED <<obs, access>>
    BY <1>4, Zenon DEF ActivateRevision, TombstoneFile
  <2>2. ASSUME NEW b \in FeishuArticles
        PROVE  article'[b] = article[b]
    <3>1. a # b
      BY <1>0, <2>1, Zenon 
    <3> QED
      BY <1>0, <1>4, <3>1, Zenon DEF ActivateRevision, TombstoneFile, PolicyTypeOK
  <2> QED
    BY <1>0, <2>1, <2>2, GrantsStay, Zenon 
<1>5. ASSUME NEW a \in FeishuArticles, NEW t \in 1 .. ClockBound,
             \/ \E o \in Outcomes : ApplyFeishuObservation(a, o, t)
             \/ ApplyFeishuDelete(a, t)
      PROVE  Kept
  BY <1>5, TicksAreNat, GrantsByFeishu, Zenon 
<1>6. ASSUME UNCHANGED <<obs, access, article>>
      PROVE  Kept
  BY <1>0, <1>6, GrantsStay, Zenon 
<1>7. ASSUME \/ \E S \in SUBSET Articles, t \in TargetPolicies : ConfirmBulkChange(S, t)
             \/ \E a \in Articles, t \in TargetPolicies : ChangeArticlePolicy(a, t)
             \/ OffboardFileSource \/ ActivateSourceVersion \/ Tick
             \/ \E d \in Defaults, p \in DefaultPolicies : SetPolicyDefault(d, p)
      PROVE  Kept
  <2>1. UNCHANGED <<obs, access, article>>
    BY <1>7, Zenon DEF ConfirmBulkChange, ChangeArticlePolicy, OffboardFileSource,
                       ActivateSourceVersion, Tick, SetPolicyDefault
  <2> QED
    BY <1>6, <2>1, Zenon 
<1> HIDE DEF Kept
<1>8. Kept
  BY <1>1, <1>2, <1>3, <1>4, <1>5, <1>7, Zenon DEF PolicyNext
<1> QED
  BY <1>0, <1>8, Zenon DEF GrantsInv, Kept

\* A Feishu Article keeps a principal grant only under a resolved private
\* observation: no grant of an earlier private period comes back, however the
\* retained pages are applied and whatever operators do meanwhile.
THEOREM GrantsFollowObservations == PolicySpec => []FeishuGrantsFollowObservation
<1>1. PolicyInit => GrantsInv
  <2> SUFFICES ASSUME PolicyInit PROVE \A a \in FeishuArticles : GrantsFor(a)
    BY TypesInit, Zenon DEF GrantsInv
  <2>1. \A a \in FeishuArticles, r \in Readers : access[a][r] = "none"
    BY Zenon DEF PolicyInit, Articles
  <2> QED
    BY <2>1, Zenon DEF GrantsFor
<1>2. GrantsInv /\ [PolicyNext /\ UNCHANGED lockVars]_<<policyVars, lockVars>>
        => GrantsInv'
  <2>1. CASE PolicyNext
    BY <2>1, GrantsStep, Zenon 
  <2>2. CASE UNCHANGED <<policyVars, lockVars>>
    BY <2>2, Zenon DEF policyVars, GrantsInv, GrantsFor, PolicyTypeOK
  <2> QED
    BY <2>1, <2>2, Zenon 
<1>3. GrantsInv => FeishuGrantsFollowObservation
  BY Zenon DEF GrantsInv, GrantsFor, FeishuGrantsFollowObservation
<1> QED
  BY <1>1, <1>2, <1>3, PTL DEF PolicySpec


-----------------------------------------------------------------------------
(* The Policy Epoch.                                                       *)

\* The writers that leave the epoch alone take no Article from a reader: they
\* touch Articles that were absent, add a Revision, or leave a version of the
\* File source on which no published policy rests.  While a request holds the
\* publication lock the Revision stays as well, and while one holds the
\* field-rights lock so does the field right.
LEMMA QuietStepsKeepGrants ==
    ASSUME PolicyTypeOK, PolicyNext \/ ProvisioningNext, epoch' # epoch + 1,
           NEW a \in Articles, NEW r \in Readers, PolicyGrants(a, r)
    PROVE  /\ PolicyGrants(a, r)' /\ policy'[a] = policy[a]
           /\ pubShared # {} => article'[a] = article[a]
           /\ fieldShared # {} => fieldRight'[a] = fieldRight[a]
<1>0. /\ article \in [Articles -> ArticleRow] /\ policy \in [Articles -> PolicyRow]
      /\ access \in [Articles -> [Readers -> {"none", "allowed", "revoked"}]]
      /\ fieldRight \in [Articles -> SUBSET Readers]
      /\ article[a].state = "live" /\ article[a].revision > 0
      /\ article[a] \in ArticleRow /\ source \in SourceRow
  BY Zenon DEF PolicyTypeOK, PolicyGrants
<1> DEFINE Same == policy'[a] = policy[a] /\ access'[a] = access[a]
                   /\ fieldRight'[a] = fieldRight[a]
           Kept == Same /\ article'[a] = article[a] /\ source' = source
           Goal == /\ PolicyGrants(a, r)' /\ policy'[a] = policy[a]
                   /\ pubShared # {} => article'[a] = article[a]
                   /\ fieldShared # {} => fieldRight'[a] = fieldRight[a]
<1>1. ASSUME policy'[a] = policy[a], access'[a] = access[a], SourceVersionAllows(a)',
             article'[a].state = "live", article'[a].revision > 0
      PROVE  PolicyGrants(a, r)'
  BY <1>1, Zenon DEF PolicyGrants, Admits
<1>2. ASSUME policy'[a] = policy[a], source' = source
      PROVE  SourceVersionAllows(a)'
  BY <1>2, ZenonT(60) DEF PolicyGrants, SourceVersionAllows
<1>3. ASSUME Kept
      PROVE  Goal
  BY <1>0, <1>1, <1>2, <1>3, Zenon 
<1>4. ASSUME NEW b \in Articles, NEW q \in Readers, PrepareFileArticle(b, q)
      PROVE  Kept
  <2>1. b # a
    BY <1>0, <1>4, Zenon DEF PrepareFileArticle
  <2> QED
    BY <1>0, <1>4, <2>1, Zenon DEF PrepareFileArticle
<1>5. ASSUME NEW b \in Articles, SeedFeishuArticle(b)
      PROVE  Kept
  <2>1. b # a
    BY <1>0, <1>5, Zenon DEF SeedFeishuArticle
  <2> QED
    BY <1>0, <1>5, <2>1, Zenon DEF SeedFeishuArticle
<1>6. ASSUME NEW b \in Articles, ActivateRevision(b)
      PROVE  Goal
  <2>1. /\ UNCHANGED <<policy, access, source, fieldRight>> /\ pubShared = {}
        /\ article' = [article EXCEPT ![b].revision = @ + 1]
    BY <1>6, Zenon DEF ActivateRevision
  <2>2. article'[a].state = "live" /\ article'[a].revision > 0
    BY <1>0, <2>1 DEF ArticleRow
  <2> QED
    BY <1>1, <1>2, <2>1, <2>2, Zenon 
<1>7. ASSUME ActivateSourceVersion
      PROVE  Goal
  <2>1. /\ UNCHANGED <<article, policy, access, fieldRight>>
        /\ source' = [source EXCEPT !.version = @ + 1]
        /\ \A b \in FileArticles : policy[b].srcVersion # source.version
    BY <1>7, Zenon DEF ActivateSourceVersion, AdvanceEpoch
  <2>2. a \notin FileArticles
    BY <2>1, Zenon DEF PolicyGrants, SourceVersionAllows
  <2>3. SourceVersionAllows(a)'
    BY <2>1, <2>2, Zenon DEF PolicyGrants, SourceVersionAllows
  <2> QED
    BY <1>0, <1>1, <2>1, <2>3, Zenon 
<1>8. ASSUME \/ Tick
             \/ \E d \in Defaults, p \in DefaultPolicies : SetPolicyDefault(d, p)
             \/ \E q \in Leavers : EndMembership(q)
      PROVE  Kept
  BY <1>0, <1>8, ZenonT(60) DEF Tick, SetPolicyDefault, EndMembership
<1>9. ASSUME NEW b \in Articles, NEW q \in Readers, RevokeFieldRight(b, q)
      PROVE  Goal
  <2>1. UNCHANGED <<article, policy, access, source>> /\ fieldShared = {}
    BY <1>9, Zenon DEF RevokeFieldRight
  <2> QED
    BY <1>0, <1>1, <1>2, <2>1, Zenon 
<1>10. ASSUME \/ \E b \in Articles, q \in Readers : RevokeAccess(b, q)
              \/ \E b \in Articles : TombstoneFile(b)
              \/ \E S \in SUBSET Articles, p \in TargetPolicies : ConfirmBulkChange(S, p)
              \/ \E b \in Articles, p \in TargetPolicies : ChangeArticlePolicy(b, p)
              \/ \E b \in FeishuArticles, t \in 1 .. ClockBound :
                    \/ \E o \in Outcomes : ApplyFeishuObservation(b, o, t)
                    \/ ApplyFeishuDelete(b, t)
              \/ OffboardFileSource
       PROVE  FALSE
  BY <1>10, ZenonT(60) DEF RevokeAccess, TombstoneFile, ConfirmBulkChange, OffboardFileSource,
                     ChangeArticlePolicy, ApplyFeishuObservation, ApplyFeishuDelete,
                     AdvanceEpoch
<1> HIDE DEF Kept, Goal
<1>11. Goal
  BY <1>3, <1>4, <1>5, <1>6, <1>7, <1>8, <1>9, <1>10, Zenon DEF PolicyNext, ProvisioningNext
<1> QED
  BY <1>11, Zenon DEF Goal

\* No writer moves the Policy Epoch but by one, and none admits a reader whose
\* Membership has ended.
LEMMA EpochMoves ==
    ASSUME PolicyNext \/ ProvisioningNext
    PROVE  epoch' \in {epoch, epoch + 1} /\ member' \subseteq member
<1>1. ASSUME NEW a \in FeishuArticles, NEW t \in 1 .. ClockBound,
             (\E o \in Outcomes : ApplyFeishuObservation(a, o, t))
             \/ ApplyFeishuDelete(a, t)
      PROVE  epoch' = epoch + 1 /\ member' = member
  BY <1>1, Zenon DEF ApplyFeishuObservation, ApplyFeishuDelete, AdvanceEpoch
<1>2. ASSUME PolicyNext
      PROVE  epoch' \in {epoch, epoch + 1} /\ member' = member
  BY <1>1, <1>2, Zenon DEF PolicyNext, PrepareFileArticle, RevokeAccess, ActivateRevision,
     SeedFeishuArticle, TombstoneFile, ConfirmBulkChange, ChangeArticlePolicy,
     OffboardFileSource, ActivateSourceVersion, Tick, SetPolicyDefault, AdvanceEpoch
<1>3. ASSUME ProvisioningNext
      PROVE  epoch' = epoch /\ member' \subseteq member
  BY <1>3, Zenon DEF ProvisioningNext, EndMembership, RevokeFieldRight
<1> QED
  BY <1>2, <1>3, Zenon 

\* A step that takes an Article from a reader advances the Policy Epoch, so
\* that a delivery that compares epochs notices every withdrawal.
THEOREM LossesAdvanceTheEpoch == PolicySpec => AccessLossAdvancesEpoch
<1>1. PolicyTypeOK /\ [PolicyNext /\ UNCHANGED lockVars]_<<policyVars, lockVars>>
        => [\A a \in Articles, r \in Readers :
              PolicyGrants(a, r) /\ ~PolicyGrants(a, r)' => epoch' = epoch + 1]_policyVars
  <2> SUFFICES ASSUME PolicyTypeOK, PolicyNext,
                      NEW a \in Articles, NEW r \in Readers, PolicyGrants(a, r),
                      epoch' # epoch + 1
               PROVE  PolicyGrants(a, r)'
    BY Zenon 
  <2> QED
    BY QuietStepsKeepGrants, Zenon 
<1> QED
  BY <1>1, PolicyTypes, PTL DEF PolicySpec, AccessLossAdvancesEpoch

\* A resolved observation of a Feishu Article replaces another only if it was
\* observed later: a retained page applied again or late publishes nothing.
THEOREM ResolvedObservationsAreNewer == PolicySpec => ResolvedObservationsMoveForward
<1>1. PolicyTypeOK /\ [PolicyNext /\ UNCHANGED lockVars]_<<policyVars, lockVars>>
        => [\A a \in FeishuArticles :
              obs'[a] # obs[a] /\ obs'[a].status = "resolved" =>
                obs[a].status = "missing"
                \/ obs'[a].observedAt > obs[a].observedAt]_policyVars
  <2> SUFFICES ASSUME PolicyTypeOK, PolicyNext, NEW a \in FeishuArticles,
                      obs'[a] # obs[a], obs'[a].status = "resolved"
               PROVE  obs[a].status = "missing" \/ obs'[a].observedAt > obs[a].observedAt
    BY Zenon 
  <2>0. /\ a \in Articles /\ a \notin FileArticles
        /\ obs \in [Articles -> ObsRow] /\ obs[a] \in ObsRow /\ now \in Nat
    BY ArticlesAssumption, Zenon DEF Articles, PolicyTypeOK
  <2>1. \/ \E b \in FeishuArticles, t \in 1 .. ClockBound :
              \/ \E o \in Outcomes : ApplyFeishuObservation(b, o, t)
              \/ ApplyFeishuDelete(b, t)
        \/ \E b \in FileArticles, q \in Readers :
              PrepareFileArticle(b, q) \/ RevokeAccess(b, q)
    BY Zenon DEF PolicyNext, PrepareFileArticle, RevokeAccess, ActivateRevision,
       SeedFeishuArticle, TombstoneFile, ConfirmBulkChange, ChangeArticlePolicy,
       OffboardFileSource, ActivateSourceVersion, Tick, SetPolicyDefault, Articles
  <2>2. ASSUME NEW b \in FileArticles, NEW q \in Readers,
               PrepareFileArticle(b, q) \/ RevokeAccess(b, q)
        PROVE  FALSE
    <3>1. a # b
      BY <2>0, Zenon 
    <3> QED
      BY <2>0, <2>2, <3>1, Zenon DEF PrepareFileArticle, RevokeAccess
  <2>3. ASSUME NEW b \in FeishuArticles, NEW t \in 1 .. ClockBound,
               NEW o \in Outcomes, ApplyFeishuObservation(b, o, t)
        PROVE  obs[a].status = "missing" \/ obs'[a].observedAt > obs[a].observedAt
    <3>1. obs' = [obs EXCEPT ![b] = [status |-> JudgedOutcome(b, o, t).status,
                                     policy |-> JudgedOutcome(b, o, t).policy,
                                     observedAt |-> RecordedAt(b, t)]]
      BY <2>3, Zenon DEF ApplyFeishuObservation
    <3>2. b = a
      BY <2>0, <3>1, Zenon 
    <3>3. obs'[a].status = JudgedOutcome(a, o, t).status /\ obs'[a].observedAt = RecordedAt(a, t)
      BY <2>0, <3>1, <3>2, Zenon 
    <3>4. ~IsStale(a, t)
      BY <3>3, Zenon DEF JudgedOutcome, FailedOutcome
    <3> QED
      BY <2>0, <3>3, <3>4, TicksAreNat, SMTT(60) DEF IsStale, RecordedAt, ObsRow
  <2>4. ASSUME NEW b \in FeishuArticles, NEW t \in 1 .. ClockBound,
               ApplyFeishuDelete(b, t)
        PROVE  FALSE
    <3>1. obs' = [obs EXCEPT ![b] = [status |-> "failed", policy |-> None,
                                     observedAt |-> RecordedAt(b, t)]]
      BY <2>4, Zenon DEF ApplyFeishuDelete
    <3> QED
      BY <2>0, <3>1, Zenon 
  <2> QED
    BY <2>1, <2>2, <2>3, <2>4, Zenon 
<1> QED
  BY <1>1, PolicyTypes, PTL DEF PolicySpec, ResolvedObservationsMoveForward

-----------------------------------------------------------------------------
(* The context runtime.                                                    *)

\* What the policy still gives the reader of q after the transaction is over.
StillGranted(q, e) ==
    /\ PolicyGrants(e.article, ReaderOf[q])
    /\ policy[e.article].status = "resolved"
    /\ FreshAt(e.article, req[q].checkedAt)

LocksHeld(q) ==
    req[q].stage \in Active =>
      q \in pubShared /\ (req[q].evidence # {} => q \in fieldShared)
FoundStays(q) ==
    req[q].stage \in Active /\ EpochIsCurrent(q) /\ CurrentMember(q) =>
      /\ \A a \in req[q].located : Locatable(q, a)
      /\ \A e \in req[q].evidence : Permitted(q, e)
CommittedStays(q) ==
    req[q].stage = "committed" /\ EpochIsCurrent(q) =>
      \A e \in req[q].evidence : StillGranted(q, e)

\* The inductive invariant, one request at a time.
RequestInv(q) ==
    /\ req[q].stage = "idle" => req[q] = IdleReq
    /\ req[q].epoch <= epoch
    /\ LocksHeld(q)
    /\ FoundStays(q)
    /\ CommittedStays(q)
RuntimeInv == TypeOK /\ \A q \in Requests : RequestInv(q)

-----------------------------------------------------------------------------
(* The steps of other actors.                                              *)

LEMMA RequestTypes ==
    ASSUME TypeOK, NEW q \in Requests
    PROVE  /\ req[q] \in ReqRow /\ ReaderOf[q] \in Readers
           /\ req[q].epoch \in Nat /\ req[q].checkedAt \in Nat
           /\ req[q].evidence \subseteq Content /\ req[q].locators \subseteq Content
           /\ req[q].located \subseteq Articles /\ req[q].scope \subseteq Articles
           /\ req[q].todo \subseteq Articles
           /\ \A e \in req[q].evidence : e.article \in Articles
           /\ epoch \in Nat /\ now \in Nat
BY RequestsAssumption DEF TypeOK, PolicyTypeOK, ReqRow, Content

\* A writer of the policy tables leaves every request as it found it.
LEMMA WritersKeepRequests ==
    ASSUME RuntimeInv, PolicyNext \/ ProvisioningNext,
           UNCHANGED <<pubShared, fieldShared, req>>, NEW q \in Requests
    PROVE  RequestInv(q)'
<1>0. /\ TypeOK /\ PolicyTypeOK /\ RequestInv(q)
      /\ req'[q] = req[q] /\ pubShared' = pubShared /\ fieldShared' = fieldShared
  BY Zenon DEF RuntimeInv, TypeOK
<1>1. epoch' \in {epoch, epoch + 1} /\ member' \subseteq member
  BY EpochMoves, Zenon 
<1>2. req[q].epoch <= epoch'
  BY <1>0, <1>1, RequestTypes DEF RequestInv
<1>3. LocksHeld(q)'
  BY <1>0, ZenonT(60) DEF RequestInv, LocksHeld
<1>4. CASE epoch' # epoch
  <2>1. ~EpochIsCurrent(q)'
    BY <1>0, <1>1, <1>4, RequestTypes, SMTT(60) DEF RequestInv, EpochIsCurrent
  <2> QED
    BY <1>0, <1>2, <1>3, <2>1, ZenonT(60) DEF RequestInv, FoundStays, CommittedStays
<1>5. CASE epoch' = epoch
  <2>0. epoch' # epoch + 1
    BY <1>0, <1>5, RequestTypes, SMTT(60) 
  <2>1. ASSUME NEW a \in Articles, PolicyGrants(a, ReaderOf[q])
        PROVE  /\ PolicyGrants(a, ReaderOf[q])' /\ policy'[a] = policy[a]
               /\ pubShared # {} => article'[a] = article[a]
               /\ fieldShared # {} => fieldRight'[a] = fieldRight[a]
    BY <1>0, <2>0, <2>1, RequestTypes, QuietStepsKeepGrants, Zenon 
  <2>2. CommittedStays(q)'
    <3> SUFFICES ASSUME req[q].stage = "committed", EpochIsCurrent(q)',
                        NEW e \in req[q].evidence
                 PROVE  StillGranted(q, e)'
      BY <1>0, ZenonT(60) DEF CommittedStays
    <3>1. StillGranted(q, e) /\ e.article \in Articles
      BY <1>0, <1>5, RequestTypes, Zenon DEF RequestInv, CommittedStays, EpochIsCurrent
    <3> QED
      BY <1>0, <2>1, <3>1, Zenon DEF StillGranted, FreshAt
  <2>3. FoundStays(q)'
    <3> SUFFICES ASSUME req[q].stage \in Active, EpochIsCurrent(q)', CurrentMember(q)'
                 PROVE  /\ \A a \in req[q].located : Locatable(q, a)'
                        /\ \A e \in req[q].evidence : Permitted(q, e)'
      BY <1>0, Zenon DEF FoundStays
    <3>1. /\ EpochIsCurrent(q) /\ CurrentMember(q) /\ q \in pubShared
          /\ req[q].evidence # {} => q \in fieldShared
      BY <1>0, <1>1, <1>5, Zenon DEF EpochIsCurrent, CurrentMember, RequestInv, LocksHeld
    <3>2. ASSUME NEW a \in Articles, Locatable(q, a)
          PROVE  Locatable(q, a)' /\ article'[a] = article[a]
      BY <1>0, <2>1, <3>1, <3>2, Zenon DEF Locatable, RowsVisible, FreshAt, CurrentMember
    <3>3. ASSUME NEW e \in req[q].evidence
          PROVE  Permitted(q, e)'
      <4>1. Permitted(q, e) /\ e.article \in Articles /\ fieldShared # {}
        BY <1>0, <3>1, RequestTypes, Zenon DEF RequestInv, FoundStays
      <4>2. Locatable(q, e.article)' /\ article'[e.article] = article[e.article]
        BY <3>2, <4>1, Zenon DEF Permitted
      <4>3. PolicyGrants(e.article, ReaderOf[q])
        BY <4>1, Zenon DEF Permitted, Projectable, RowsVisible
      <4>4. fieldRight'[e.article] = fieldRight[e.article]
        BY <2>1, <4>1, <4>3, Zenon 
      <4> QED
        BY <4>1, <4>2, <4>4, ZenonT(60) DEF Permitted, Projectable, IsActiveContent, Locatable
    <3>4. \A a \in req[q].located : Locatable(q, a) /\ a \in Articles
      BY <1>0, <3>1, RequestTypes, Zenon DEF RequestInv, FoundStays
    <3> QED
      BY <3>2, <3>3, <3>4, Zenon 
  <2> QED
    BY <1>0, <1>2, <1>3, <2>2, <2>3, Zenon DEF RequestInv
<1> QED
  BY <1>4, <1>5, Zenon 

\* A step of request q, which changes no policy table, leaves another request
\* as it was.
LEMMA OthersStay ==
    ASSUME TypeOK, NEW q \in Requests, NEW row, Move(q, row),
           NEW p \in Requests \ {q}, RequestInv(p),
           p \in pubShared => p \in pubShared', p \in fieldShared => p \in fieldShared'
    PROVE  RequestInv(p)'
<1>1. req'[p] = req[p] /\ UNCHANGED policyVars
  BY Zenon DEF Move, TypeOK
<1>2. LocksHeld(p)'
  BY <1>1, Zenon DEF RequestInv, LocksHeld
<1>3. /\ \A a : Locatable(p, a)' <=> Locatable(p, a)
      /\ \A e : Permitted(p, e)' <=> Permitted(p, e)
      /\ \A e : StillGranted(p, e)' <=> StillGranted(p, e)
      /\ EpochIsCurrent(p)' <=> EpochIsCurrent(p)
      /\ CurrentMember(p)' <=> CurrentMember(p)
  BY <1>1, SMTT(60) DEF policyVars, Locatable, Permitted, StillGranted, RowsVisible, FreshAt,
     PolicyGrants, Admits, SourceVersionAllows, Projectable, IsActiveContent,
     EpochIsCurrent, CurrentMember
<1>4. epoch' = epoch
  BY <1>1, Zenon DEF policyVars
<1> QED
  BY <1>1, <1>2, <1>3, <1>4, Zenon DEF RequestInv, FoundStays, CommittedStays


-----------------------------------------------------------------------------
(* The steps of a request.                                                 *)

\* A step that reads, drops or narrows: it keeps the epoch observed, takes no
\* lock and adds nothing to what was located or projected.
Continues(q, row) ==
    /\ row \in ReqRow /\ Move(q, row) /\ UNCHANGED lockVars
    /\ row.stage \in Active /\ req[q].stage \in Active
    /\ row.epoch = req[q].epoch /\ row.checkedAt = req[q].checkedAt
    /\ row.located \subseteq req[q].located /\ row.evidence \subseteq req[q].evidence
    /\ row.grant = "consumed" => row.grant = req[q].grant

LEMMA Stages ==
    /\ \A s \in Active : s \in Active \cup {"idle", "committed", "aborted"}
    /\ {"begun", "scoped", "prepared", "redeemed", "authorizing", "finalized",
        "granted"} \subseteq Active
    /\ "idle" \notin Active /\ "committed" \notin Active /\ "aborted" \notin Active
BY Zenon DEF Active

LEMMA ScopeSteps ==
    ASSUME TypeOK, NEW q \in Requests,
           ReadScope(q) \/ PrepareAcquire(q) \/ Discover(q) \/ PrepareOpen(q)
    PROVE  \E row : Continues(q, row)
<1>0. req[q] \in ReqRow /\ req[q].scope \subseteq Articles
  BY RequestTypes, Zenon 
<1>1. ScopeIfCurrent(q) \subseteq Articles /\ ScopeSnapshot(q) \subseteq Articles
  BY <1>0, Zenon DEF ScopeIfCurrent, TrustedOperands, ScopeSnapshot
<1>2. CASE ReadScope(q)
  <2> DEFINE row == [req[q] EXCEPT !.stage = "scoped", !.scope = ScopeSnapshot(q)]
  <2>1. row \in ReqRow
    BY <1>0, <1>1, Stages, Zenon DEF ReqRow
  <2>2. /\ row.stage = "scoped" /\ row.epoch = req[q].epoch
        /\ row.checkedAt = req[q].checkedAt /\ row.grant = req[q].grant
        /\ row.located = req[q].located /\ row.evidence = req[q].evidence
    BY <1>0, Zenon DEF ReqRow
  <2>3. Continues(q, row)
    BY <1>2, <2>1, <2>2, Stages, Zenon DEF ReadScope, Continues
  <2> QED
    BY <2>3, Zenon 
<1>3. CASE PrepareAcquire(q)
  <2> DEFINE row == [req[q] EXCEPT !.stage = "prepared", !.scope = ScopeIfCurrent(q)]
  <2>1. row \in ReqRow
    BY <1>0, <1>1, Stages, Zenon DEF ReqRow
  <2>2. /\ row.stage = "prepared" /\ row.epoch = req[q].epoch
        /\ row.checkedAt = req[q].checkedAt /\ row.grant = req[q].grant
        /\ row.located = req[q].located /\ row.evidence = req[q].evidence
    BY <1>0, Zenon DEF ReqRow
  <2>3. Continues(q, row)
    BY <1>3, <2>1, <2>2, Stages, Zenon DEF PrepareAcquire, Continues
  <2> QED
    BY <2>3, Zenon 
<1>4. CASE Discover(q)
  <2>0. PICK found \in SUBSET req[q].scope :
               Move(q, [req[q] EXCEPT !.stage = "authorizing", !.todo = found])
    BY <1>4, Zenon DEF Discover
  <2> DEFINE row == [req[q] EXCEPT !.stage = "authorizing", !.todo = found]
  <2>1. row \in ReqRow
    <3>1. found \in SUBSET Articles
      BY <1>0, Zenon 
    <3> QED
      BY <1>0, <3>1, Stages, Zenon DEF ReqRow
  <2>2. /\ row.stage = "authorizing" /\ row.epoch = req[q].epoch
        /\ row.checkedAt = req[q].checkedAt /\ row.grant = req[q].grant
        /\ row.located = req[q].located /\ row.evidence = req[q].evidence
    BY <1>0, Zenon DEF ReqRow
  <2>3. Continues(q, row)
    BY <1>4, <2>0, <2>1, <2>2, Stages, Zenon DEF Discover, Continues
  <2> QED
    BY <2>3, Zenon 
<1>5. CASE PrepareOpen(q)
  <2> DEFINE row == [req[q] EXCEPT !.stage = "authorizing", !.scope = ScopeIfCurrent(q),
                                   !.hop = "yes"]
  <2>1. row \in ReqRow
    BY <1>0, <1>1, Stages, Zenon DEF ReqRow
  <2>2. /\ row.stage = "authorizing" /\ row.epoch = req[q].epoch
        /\ row.checkedAt = req[q].checkedAt /\ row.grant = req[q].grant
        /\ row.located = req[q].located /\ row.evidence = req[q].evidence
    BY <1>0, Zenon DEF ReqRow
  <2>3. Continues(q, row)
    BY <1>5, <2>1, <2>2, Stages, Zenon DEF PrepareOpen, Continues
  <2> QED
    BY <2>3, Zenon 
<1> QED
  BY <1>2, <1>3, <1>4, <1>5, Zenon 

LEMMA DeliverySteps ==
    ASSUME TypeOK, NEW q \in Requests,
           \/ \E p \in Requests : \E e \in req[p].locators : RedeemCitation(q, p, e)
           \/ ExpandOneHop(q) \/ FinalizeForDelivery(q)
           \/ \E e \in req[q].evidence : IssueCitation(q, e)
           \/ FinalizeEgress(q)
    PROVE  \E row : Continues(q, row)
<1>0. /\ req[q] \in ReqRow /\ req[q].scope \subseteq Articles
      /\ req[q].evidence \subseteq Content /\ req[q].locators \subseteq Content
  BY RequestTypes, Zenon 
<1>1. ScopeIfCurrent(q) \subseteq Articles
  BY <1>0, Zenon DEF ScopeIfCurrent, TrustedOperands
<1>2. ASSUME NEW p \in Requests, NEW e \in req[p].locators, RedeemCitation(q, p, e)
      PROVE  \E row : Continues(q, row)
  <2>0. PICK todo \in SUBSET Articles :
               Move(q, [req[q] EXCEPT !.stage = "redeemed", !.todo = todo])
    <3>1. e.article \in Articles
      BY RequestTypes, Zenon DEF Content
    <3> QED
      BY <1>2, <3>1, ZenonT(60) DEF RedeemCitation
  <2> DEFINE row == [req[q] EXCEPT !.stage = "redeemed", !.todo = todo]
  <2>1. row \in ReqRow
    BY <1>0, Stages, Zenon DEF ReqRow
  <2>2. /\ row.stage = "redeemed" /\ row.epoch = req[q].epoch
        /\ row.checkedAt = req[q].checkedAt /\ row.grant = req[q].grant
        /\ row.located = req[q].located /\ row.evidence = req[q].evidence
    BY <1>0, Zenon DEF ReqRow
  <2>3. Continues(q, row)
    BY <1>2, <2>0, <2>1, <2>2, Stages, Zenon DEF RedeemCitation, Continues
  <2> QED
    BY <2>3, Zenon 
<1>3. CASE ExpandOneHop(q)
  <2>0. PICK linked \in SUBSET Linked(q) :
               Move(q, [req[q] EXCEPT !.hop = "yes", !.todo = linked])
    BY <1>3, Zenon DEF ExpandOneHop
  <2> DEFINE row == [req[q] EXCEPT !.hop = "yes", !.todo = linked]
  <2>1. row \in ReqRow
    <3>1. linked \in SUBSET Articles
      BY Zenon DEF Linked
    <3> QED
      BY <1>0, <3>1, Stages, Zenon DEF ReqRow
  <2>2. /\ row.stage = req[q].stage /\ row.epoch = req[q].epoch
        /\ row.checkedAt = req[q].checkedAt /\ row.grant = req[q].grant
        /\ row.located = req[q].located /\ row.evidence = req[q].evidence
    BY <1>0, Zenon DEF ReqRow
  <2>3. Continues(q, row)
    BY <1>3, <2>0, <2>1, <2>2, Stages, Zenon DEF ExpandOneHop, Authorized, Continues
  <2> QED
    BY <2>3, Zenon 
<1>4. CASE FinalizeForDelivery(q)
  <2>0. PICK kept \in SUBSET req[q].evidence :
               Move(q, [req[q] EXCEPT !.stage = "finalized", !.evidence = kept,
                                      !.scope = ScopeIfCurrent(q)])
    <3>1. PICK kept \in SUBSET req[q].evidence :
                 Move(q, [req[q] EXCEPT
                            !.stage = "finalized",
                            !.evidence = IF EpochIsCurrent(q) THEN kept ELSE {},
                            !.scope = ScopeIfCurrent(q)])
      BY <1>4, Zenon DEF FinalizeForDelivery
    <3>2. (IF EpochIsCurrent(q) THEN kept ELSE {}) \in SUBSET req[q].evidence
      OBVIOUS
    <3> QED
      BY <3>1, <3>2, Zenon 
  <2> DEFINE row == [req[q] EXCEPT !.stage = "finalized", !.evidence = kept,
                                   !.scope = ScopeIfCurrent(q)]
  <2>1. row \in ReqRow
    <3>1. kept \in SUBSET Content
      BY <1>0, Zenon 
    <3> QED
      BY <1>0, <1>1, <3>1, Stages, Zenon DEF ReqRow
  <2>2. /\ row.stage = "finalized" /\ row.epoch = req[q].epoch
        /\ row.checkedAt = req[q].checkedAt /\ row.grant = req[q].grant
        /\ row.located = req[q].located /\ row.evidence = kept
    BY <1>0, Zenon DEF ReqRow
  <2>3. Continues(q, row)
    BY <1>4, <2>0, <2>1, <2>2, Stages, Zenon DEF FinalizeForDelivery, Authorized, Continues
  <2> QED
    BY <2>3, Zenon 
<1>5. ASSUME NEW e \in req[q].evidence, IssueCitation(q, e)
      PROVE  \E row : Continues(q, row)
  <2> DEFINE row == [req[q] EXCEPT !.locators = @ \cup {e}]
  <2>1. row \in ReqRow
    <3>1. req[q].locators \cup {e} \in SUBSET Content
      BY <1>0, Zenon 
    <3> QED
      BY <1>0, <3>1, Stages, Zenon DEF ReqRow
  <2>2. /\ row.stage = req[q].stage /\ row.epoch = req[q].epoch
        /\ row.checkedAt = req[q].checkedAt /\ row.grant = req[q].grant
        /\ row.located = req[q].located /\ row.evidence = req[q].evidence
    BY <1>0, Zenon DEF ReqRow
  <2>3. Continues(q, row)
    BY <1>5, <2>1, <2>2, Stages, Zenon DEF IssueCitation, Continues
  <2> QED
    BY <2>3, Zenon 
<1>6. CASE FinalizeEgress(q)
  <2>0. PICK g \in {"none", "issued"} :
               Move(q, [req[q] EXCEPT !.stage = "granted", !.grant = g])
    BY <1>6, Zenon DEF FinalizeEgress
  <2> DEFINE row == [req[q] EXCEPT !.stage = "granted", !.grant = g]
  <2>1. row \in ReqRow
    BY <1>0, Stages, Zenon DEF ReqRow
  <2>2. /\ row.stage = "granted" /\ row.epoch = req[q].epoch
        /\ row.checkedAt = req[q].checkedAt /\ row.grant # "consumed"
        /\ row.located = req[q].located /\ row.evidence = req[q].evidence
    BY <1>0, Zenon DEF ReqRow
  <2>3. Continues(q, row)
    BY <1>6, <2>0, <2>1, <2>2, Stages, Zenon DEF FinalizeEgress, Continues
  <2> QED
    BY <2>3, Zenon 
<1> QED
  BY <1>2, <1>3, <1>4, <1>5, <1>6, Zenon 


\* What a step that moves only request q leaves as it was.
LEMMA OwnView ==
    ASSUME TypeOK, NEW q \in Requests, NEW row, Move(q, row),
           row.epoch = req[q].epoch, row.checkedAt = req[q].checkedAt
    PROVE  /\ req'[q] = row /\ UNCHANGED policyVars /\ epoch' = epoch
           /\ \A a : Locatable(q, a)' <=> Locatable(q, a)
           /\ \A e : Permitted(q, e)' <=> Permitted(q, e)
           /\ \A e : StillGranted(q, e)' <=> StillGranted(q, e)
           /\ EpochIsCurrent(q)' <=> EpochIsCurrent(q)
           /\ CurrentMember(q)' <=> CurrentMember(q)
<1>1. req'[q] = row /\ UNCHANGED policyVars
  BY Zenon DEF Move, TypeOK
<1>2. req'[q].epoch = req[q].epoch /\ req'[q].checkedAt = req[q].checkedAt
  BY <1>1, Zenon 
<1>3. /\ \A a : RowsVisible(a, ReaderOf[q])' <=> RowsVisible(a, ReaderOf[q])
      /\ \A a : PolicyGrants(a, ReaderOf[q])' <=> PolicyGrants(a, ReaderOf[q])
  BY <1>1, Zenon DEF policyVars, RowsVisible, PolicyGrants, Admits, SourceVersionAllows
<1>4. \A a : FreshAt(a, req[q].checkedAt)' <=> FreshAt(a, req[q].checkedAt)
  BY <1>1, <1>2, Zenon DEF policyVars, FreshAt
<1>5. epoch' = epoch /\ policy' = policy /\ fieldRight' = fieldRight
      /\ article' = article /\ member' = member
  BY <1>1, Zenon DEF policyVars
<1>6. /\ \A a : Locatable(q, a)' <=> Locatable(q, a)
      /\ \A e : StillGranted(q, e)' <=> StillGranted(q, e)
  BY <1>3, <1>4, <1>5, Zenon DEF Locatable, StillGranted
<1>7. \A e : Permitted(q, e)' <=> Permitted(q, e)
  BY <1>3, <1>5, <1>6, ZenonT(60) DEF Permitted, Projectable, IsActiveContent
<1> QED
  BY <1>1, <1>2, <1>5, <1>6, <1>7, Zenon DEF EpochIsCurrent, CurrentMember

LEMMA ContinuingKeeps ==
    ASSUME TypeOK, NEW q \in Requests, RequestInv(q), NEW row, Continues(q, row)
    PROVE  RequestInv(q)'
<1>1. /\ Move(q, row) /\ UNCHANGED lockVars
      /\ row.stage \in Active /\ req[q].stage \in Active
      /\ row.epoch = req[q].epoch /\ row.checkedAt = req[q].checkedAt
      /\ row.located \subseteq req[q].located /\ row.evidence \subseteq req[q].evidence
  BY Zenon DEF Continues
<1>2. /\ req'[q] = row /\ epoch' = epoch
      /\ \A a : Locatable(q, a)' <=> Locatable(q, a)
      /\ \A e : Permitted(q, e)' <=> Permitted(q, e)
      /\ EpochIsCurrent(q)' <=> EpochIsCurrent(q)
      /\ CurrentMember(q)' <=> CurrentMember(q)
  BY <1>1, OwnView, ZenonT(60) 
<1>3. LocksHeld(q)'
  BY <1>1, <1>2, Zenon DEF RequestInv, LocksHeld, lockVars
<1>4. FoundStays(q)'
  BY <1>1, <1>2, ZenonT(60) DEF RequestInv, FoundStays
<1>5. CommittedStays(q)' /\ req'[q].stage # "idle"
  BY <1>1, <1>2, Stages, ZenonT(60) DEF CommittedStays
<1> QED
  BY <1>1, <1>2, <1>3, <1>4, <1>5, ZenonT(60) DEF RequestInv

\* The session is opened: the epoch is read under the publication lock.
LEMMA BeginKeeps ==
    ASSUME TypeOK, NEW q \in Requests, RequestInv(q), BeginRequest(q)
    PROVE  RequestInv(q)' /\ req' \in [Requests -> ReqRow]
<1> DEFINE row == [req[q] EXCEPT !.stage = "begun", !.epoch = epoch, !.checkedAt = now]
<1>0. req[q] \in ReqRow /\ epoch \in Nat /\ now \in Nat
  BY RequestTypes, Zenon 
<1>1. Move(q, row) /\ pubShared' = pubShared \cup {q}
  BY Zenon DEF BeginRequest, ObservedEpoch
<1>2. row \in ReqRow
  BY <1>0, Stages, Zenon DEF ReqRow
<1>3. req[q] = IdleReq
  BY Zenon DEF BeginRequest, RequestInv
<1>4. row.stage = "begun" /\ row.epoch = epoch /\ row.located = {} /\ row.evidence = {}
  BY <1>0, <1>3 DEF IdleReq, ReqRow
<1>5. req'[q] = row /\ epoch' = epoch /\ req' \in [Requests -> ReqRow]
  BY <1>1, <1>2, Zenon DEF Move, TypeOK, policyVars
<1> HIDE DEF row
<1>6. LocksHeld(q)'
  BY <1>1, <1>4, <1>5, Zenon DEF LocksHeld
<1>7. FoundStays(q)' /\ CommittedStays(q)'
  BY <1>4, <1>5, Zenon DEF FoundStays, CommittedStays
<1> QED
  BY <1>0, <1>4, <1>5, <1>6, <1>7, SMTT(60) DEF RequestInv

\* A candidate is located under the policy of the moment.
LEMMA LocateKeeps ==
    ASSUME TypeOK, NEW q \in Requests, RequestInv(q),
           NEW a \in Articles, LocateCandidate(q, a)
    PROVE  RequestInv(q)' /\ req' \in [Requests -> ReqRow]
<1>0. req[q] \in ReqRow
  BY RequestTypes, Zenon 
<1>1. PICK todo \in SUBSET Articles, found \in SUBSET {b \in {a} : Locatable(q, b)} :
             Move(q, [req[q] EXCEPT !.todo = todo, !.located = found])
  <2>1. req[q].todo \ {a} \in SUBSET Articles
    BY RequestTypes, Zenon 
  <2>2. (IF Locatable(q, a) /\ a \in req[q].scope THEN {a} ELSE {})
           \in SUBSET {b \in {a} : Locatable(q, b)}
    OBVIOUS
  <2> QED
    BY <2>1, <2>2, Zenon DEF LocateCandidate
<1> DEFINE row == [req[q] EXCEPT !.todo = todo, !.located = found]
<1>2. row \in ReqRow
  <2>1. found \in SUBSET Articles
    OBVIOUS
  <2> QED
    BY <1>0, <2>1, Zenon DEF ReqRow
<1>3. /\ row.stage = "authorizing" /\ row.epoch = req[q].epoch
      /\ row.checkedAt = req[q].checkedAt
      /\ row.located = found /\ row.evidence = req[q].evidence
  BY <1>0, Zenon DEF ReqRow, LocateCandidate
<1> HIDE DEF row
<1>4. Move(q, row) /\ UNCHANGED lockVars /\ req[q].stage = "authorizing"
  BY <1>1, Zenon DEF row, LocateCandidate
<1>5. /\ req'[q] = row /\ epoch' = epoch
      /\ \A b : Locatable(q, b)' <=> Locatable(q, b)
      /\ \A e : Permitted(q, e)' <=> Permitted(q, e)
      /\ EpochIsCurrent(q)' <=> EpochIsCurrent(q)
      /\ CurrentMember(q)' <=> CurrentMember(q)
  BY <1>3, <1>4, OwnView, Zenon 
<1>6. req' \in [Requests -> ReqRow]
  BY <1>2, <1>4, ZenonT(60) DEF Move, TypeOK
<1>7. LocksHeld(q)'
  BY <1>3, <1>4, <1>5, ZenonT(60) DEF RequestInv, LocksHeld, lockVars, Active
<1>8. FoundStays(q)'
  BY <1>3, <1>4, <1>5, ZenonT(60) DEF RequestInv, FoundStays, Active
<1>9. CommittedStays(q)' /\ req'[q].stage # "idle"
  BY <1>3, <1>5, ZenonT(60) DEF CommittedStays
<1> QED
  BY <1>3, <1>5, <1>6, <1>7, <1>8, <1>9, ZenonT(60) DEF RequestInv

\* A located candidate is projected under row-level security and its field
\* right; the policy status and the freshness are those of the first statement.
LEMMA ProjectKeeps ==
    ASSUME TypeOK, NEW q \in Requests, RequestInv(q),
           NEW a \in Articles, ProjectCandidate(q, a)
    PROVE  RequestInv(q)' /\ req' \in [Requests -> ReqRow]
<1>0. req[q] \in ReqRow /\ req[q].evidence \subseteq Content
  BY RequestTypes, Zenon 
<1>1. PICK kept : /\ Move(q, [req[q] EXCEPT !.located = {}, !.evidence = kept])
                  /\ kept \in {req[q].evidence, req[q].evidence \cup {ActiveContent(a)}}
                  /\ kept # req[q].evidence => Projectable(q, a)
  <2> DEFINE new == IF Projectable(q, a) THEN req[q].evidence \cup {ActiveContent(a)}
                    ELSE req[q].evidence
  <2>1. Move(q, [req[q] EXCEPT !.located = {}, !.evidence = new])
    BY Zenon DEF ProjectCandidate
  <2> QED
    BY <2>1, Zenon 
<1> DEFINE row == [req[q] EXCEPT !.located = {}, !.evidence = kept]
<1>2. row \in ReqRow
  <2>1. article[a].revision \in Nat
    BY Zenon DEF TypeOK, PolicyTypeOK, ArticleRow
  <2>2. kept \in SUBSET Content
    BY <1>0, <1>1, <2>1 DEF ActiveContent, Content
  <2> QED
    BY <1>0, <2>2, Zenon DEF ReqRow
<1>3. /\ row.stage = "authorizing" /\ row.epoch = req[q].epoch
      /\ row.checkedAt = req[q].checkedAt
      /\ row.located = {} /\ row.evidence = kept
  BY <1>0, Zenon DEF ReqRow, ProjectCandidate
<1> HIDE DEF row
<1>4. /\ Move(q, row) /\ fieldShared' = fieldShared \cup {q} /\ pubShared' = pubShared
      /\ req[q].stage = "authorizing" /\ a \in req[q].located
  BY <1>1, Zenon DEF row, ProjectCandidate
<1>5. /\ req'[q] = row /\ epoch' = epoch
      /\ \A e : Permitted(q, e)' <=> Permitted(q, e)
      /\ EpochIsCurrent(q)' <=> EpochIsCurrent(q)
      /\ CurrentMember(q)' <=> CurrentMember(q)
  BY <1>3, <1>4, OwnView, Zenon 
<1>6. req' \in [Requests -> ReqRow]
  BY <1>2, <1>4, ZenonT(60) DEF Move, TypeOK
<1>7. LocksHeld(q)'
  BY <1>3, <1>4, <1>5, ZenonT(60) DEF RequestInv, LocksHeld, Active
<1>8. FoundStays(q)'
  <2> SUFFICES ASSUME EpochIsCurrent(q), CurrentMember(q), NEW e \in kept
               PROVE  Permitted(q, e)
    BY <1>3, <1>5, ZenonT(60) DEF FoundStays
  <2>1. Locatable(q, a) /\ \A f \in req[q].evidence : Permitted(q, f)
    BY <1>4, ZenonT(60) DEF RequestInv, FoundStays, Active
  <2>2. ASSUME e \notin req[q].evidence
        PROVE  Permitted(q, e)
    <3>1. e = ActiveContent(a) /\ Projectable(q, a)
      BY <1>1, <2>2, Zenon 
    <3>2. e.article = a /\ e.revision = article[a].revision
      BY <3>1, Zenon DEF ActiveContent
    <3>3. article[a] \in ArticleRow /\ article[a].state = "live"
      BY <3>1, Zenon DEF TypeOK, PolicyTypeOK, Projectable, RowsVisible, PolicyGrants
    <3>4. IsActiveContent(e)
      BY <3>2, <3>3, ZenonT(60) DEF IsActiveContent, ArticleRow
    <3> QED
      BY <2>1, <3>1, <3>2, <3>4, Zenon DEF Permitted
  <2> QED
    BY <2>1, <2>2, Zenon 
<1>9. CommittedStays(q)' /\ req'[q].stage # "idle"
  BY <1>3, <1>5, Zenon DEF CommittedStays
<1> QED
  BY <1>3, <1>5, <1>6, <1>7, <1>8, <1>9, ZenonT(60) DEF RequestInv


\* The transaction ends: with a commit what was delivered is what was permitted
\* to a reader who is still a member; otherwise nothing is left of it.
LEMMA EndKeeps ==
    ASSUME TypeOK, NEW q \in Requests, RequestInv(q),
           PersistAndCommit(q) \/ FailRequest(q)
    PROVE  RequestInv(q)' /\ req' \in [Requests -> ReqRow]
<1>0. req[q] \in ReqRow
  BY RequestTypes, Zenon 
<1>1. CASE FailRequest(q)
  <2> DEFINE row == [IdleReq EXCEPT !.stage = "aborted"]
  <2>1. row \in ReqRow /\ row.stage = "aborted" /\ row.epoch = 0
    BY Zenon DEF IdleReq, ReqRow
  <2>2. Move(q, row)
    BY <1>1, Zenon DEF FailRequest
  <2> HIDE DEF row
  <2>3. req'[q] = row /\ epoch' = epoch /\ req' \in [Requests -> ReqRow]
    BY <2>1, <2>2, Zenon DEF Move, TypeOK, policyVars
  <2>4. epoch \in Nat
    BY RequestTypes, Zenon 
  <2> QED
    BY <2>1, <2>3, <2>4, Stages, SMTT(60) DEF RequestInv, LocksHeld, FoundStays, CommittedStays
<1>2. CASE PersistAndCommit(q)
  <2> DEFINE row == [req[q] EXCEPT !.stage = "committed", !.scope = {}]
  <2>1. row \in ReqRow
    BY <1>0, Zenon DEF ReqRow
  <2>2. /\ row.stage = "committed" /\ row.epoch = req[q].epoch
        /\ row.checkedAt = req[q].checkedAt /\ row.evidence = req[q].evidence
    BY <1>0, Zenon DEF ReqRow
  <2>3. Move(q, row) /\ CurrentMember(q) /\ req[q].stage \in Active
    BY <1>2, Stages, Zenon DEF PersistAndCommit
  <2> HIDE DEF row
  <2>4. /\ req'[q] = row /\ epoch' = epoch
        /\ \A e : StillGranted(q, e)' <=> StillGranted(q, e)
        /\ EpochIsCurrent(q)' <=> EpochIsCurrent(q)
    BY <2>2, <2>3, OwnView, Zenon 
  <2>5. req' \in [Requests -> ReqRow]
    BY <2>1, <2>3, ZenonT(60) DEF Move, TypeOK
  <2>6. ASSUME EpochIsCurrent(q), NEW e \in req[q].evidence
        PROVE  StillGranted(q, e)
    <3>1. Permitted(q, e)
      BY <2>3, <2>6, Zenon DEF RequestInv, FoundStays
    <3> QED
      BY <3>1, ZenonT(60) DEF Permitted, Locatable, RowsVisible, StillGranted
  <2>7. CommittedStays(q)'
    BY <2>2, <2>4, <2>6, ZenonT(60) DEF CommittedStays
  <2> QED
    BY <2>2, <2>4, <2>5, <2>7, Stages, Zenon DEF RequestInv, LocksHeld, FoundStays
<1> QED
  BY <1>1, <1>2, Zenon 

LEMMA RedeemKeeps ==
    ASSUME TypeOK, NEW q \in Requests, RequestInv(q), RedeemEgressGrant(q)
    PROVE  RequestInv(q)' /\ req' \in [Requests -> ReqRow]
<1> DEFINE row == [req[q] EXCEPT !.grant = "consumed"]
<1>0. req[q] \in ReqRow
  BY RequestTypes, Zenon 
<1>1. row \in ReqRow
  BY <1>0, Zenon DEF ReqRow
<1>2. /\ row.stage = "committed" /\ row.epoch = req[q].epoch
      /\ row.checkedAt = req[q].checkedAt /\ row.evidence = req[q].evidence
  BY <1>0, Zenon DEF ReqRow, RedeemEgressGrant
<1>3. Move(q, row) /\ req[q].stage = "committed"
  BY Zenon DEF RedeemEgressGrant
<1> HIDE DEF row
<1>4. /\ req'[q] = row /\ epoch' = epoch
      /\ \A e : StillGranted(q, e)' <=> StillGranted(q, e)
      /\ EpochIsCurrent(q)' <=> EpochIsCurrent(q)
  BY <1>2, <1>3, OwnView, Zenon 
<1>5. req' \in [Requests -> ReqRow]
  BY <1>1, <1>3, Zenon DEF Move, TypeOK
<1>6. CommittedStays(q)'
  BY <1>2, <1>3, <1>4, Zenon DEF RequestInv, CommittedStays
<1> QED
  BY <1>2, <1>4, <1>5, <1>6, Stages, ZenonT(60) DEF RequestInv, LocksHeld, FoundStays

\* A step of q moves only q, takes locks only for q and gives up only its own.
LEMMA StepsAreMoves ==
    ASSUME TypeOK, NEW q \in Requests, RequestNext(q)
    PROVE  /\ \E row : Move(q, row)
           /\ pubShared' \in {pubShared, pubShared \cup {q}, pubShared \ {q}}
           /\ fieldShared' \in {fieldShared, fieldShared \cup {q}, fieldShared \ {q}}
<1>1. ASSUME \E row : Continues(q, row)
      PROVE  /\ \E row : Move(q, row)
             /\ pubShared' = pubShared /\ fieldShared' = fieldShared
  BY <1>1, Zenon DEF Continues, lockVars
<1>2. ASSUME BeginRequest(q) \/ PersistAndCommit(q) \/ FailRequest(q)
             \/ RedeemEgressGrant(q)
             \/ \E a \in Articles : LocateCandidate(q, a) \/ ProjectCandidate(q, a)
      PROVE  /\ \E row : Move(q, row)
             /\ pubShared' \in {pubShared, pubShared \cup {q}, pubShared \ {q}}
             /\ fieldShared' \in {fieldShared, fieldShared \cup {q}, fieldShared \ {q}}
  BY <1>2, Zenon DEF BeginRequest, PersistAndCommit, FailRequest, RedeemEgressGrant,
                     LocateCandidate, ProjectCandidate, Release, lockVars
<1> QED
  BY <1>1, <1>2, ScopeSteps, DeliverySteps, Zenon DEF RequestNext

LEMMA RequestStep ==
    ASSUME RuntimeInv, NEW q \in Requests, RequestNext(q)
    PROVE  RuntimeInv'
<1>0. TypeOK /\ RequestInv(q) /\ \A p \in Requests : RequestInv(p)
  BY Zenon DEF RuntimeInv
<1>1. ASSUME \E row : Continues(q, row)
      PROVE  RequestInv(q)' /\ req' \in [Requests -> ReqRow]
  <2>1. PICK row : Continues(q, row)
    BY <1>1, Zenon 
  <2>2. RequestInv(q)'
    BY <1>0, <2>1, ContinuingKeeps, Zenon 
  <2>3. req' \in [Requests -> ReqRow]
    BY <1>0, <2>1, Zenon DEF Continues, Move, TypeOK
  <2> QED
    BY <2>2, <2>3, Zenon 
<1>2. RequestInv(q)' /\ req' \in [Requests -> ReqRow]
  BY <1>0, <1>1, ScopeSteps, DeliverySteps, BeginKeeps, LocateKeeps, ProjectKeeps,
     EndKeeps, RedeemKeeps, Zenon DEF RequestNext
<1>3. PICK row : Move(q, row)
  BY <1>0, StepsAreMoves, Zenon 
<1>4. ASSUME NEW p \in Requests \ {q}
      PROVE  RequestInv(p)'
  <2>1. /\ p \in pubShared => p \in pubShared'
        /\ p \in fieldShared => p \in fieldShared'
    BY <1>0, StepsAreMoves, Zenon 
  <2> QED
    BY <1>0, <1>3, <2>1, OthersStay, Zenon 
<1>5. pubShared' \subseteq Requests /\ fieldShared' \subseteq Requests
  BY <1>0, StepsAreMoves, Zenon DEF TypeOK
<1>6. PolicyTypeOK'
  BY <1>0, <1>3, Zenon DEF TypeOK, Move, policyVars, PolicyTypeOK
<1> QED
  BY <1>2, <1>4, <1>5, <1>6, Zenon DEF RuntimeInv, TypeOK

LEMMA RuntimeStep ==
    ASSUME RuntimeInv, [Next]_vars
    PROVE  RuntimeInv'
<1>1. CASE \E q \in Requests : RequestNext(q)
  BY <1>1, RequestStep, Zenon 
<1>2. CASE (PolicyNext \/ ProvisioningNext) /\ UNCHANGED <<pubShared, fieldShared, req>>
  <2>1. PolicyTypeOK'
    BY <1>2, TypesStep, Zenon DEF RuntimeInv, TypeOK
  <2>2. TypeOK'
    BY <1>2, <2>1, Zenon DEF RuntimeInv, TypeOK
  <2>3. \A q \in Requests : RequestInv(q)'
    BY <1>2, WritersKeepRequests, Zenon 
  <2> QED
    BY <2>2, <2>3, Zenon DEF RuntimeInv
<1>3. CASE UNCHANGED vars
  <2>1. UNCHANGED policyVars /\ UNCHANGED <<pubShared, fieldShared, req>>
    BY <1>3, Zenon DEF vars, policyVars
  <2>2. TypeOK'
    BY <2>1, Zenon DEF policyVars, RuntimeInv, TypeOK, PolicyTypeOK
  <2>3. ASSUME NEW q \in Requests
        PROVE  RequestInv(q)'
    <3>1. Move(q, req[q]) /\ TypeOK /\ RequestInv(q)
      BY <2>1, Zenon DEF Move, RuntimeInv, TypeOK
    <3>2. /\ req'[q] = req[q] /\ epoch' = epoch
          /\ \A a : Locatable(q, a)' <=> Locatable(q, a)
          /\ \A e : Permitted(q, e)' <=> Permitted(q, e)
          /\ \A e : StillGranted(q, e)' <=> StillGranted(q, e)
          /\ EpochIsCurrent(q)' <=> EpochIsCurrent(q)
          /\ CurrentMember(q)' <=> CurrentMember(q)
      BY <3>1, OwnView, ZenonT(60) 
    <3>3. LocksHeld(q)'
      BY <2>1, <3>1, <3>2, Zenon DEF RequestInv, LocksHeld
    <3> QED
      BY <3>1, <3>2, <3>3, Zenon DEF RequestInv, FoundStays, CommittedStays
  <2> QED
    BY <2>2, <2>3, Zenon DEF RuntimeInv
<1> QED
  BY <1>1, <1>2, <1>3, Zenon DEF Next

LEMMA RuntimeStarts == Init => RuntimeInv
<1> SUFFICES ASSUME Init PROVE RuntimeInv
  OBVIOUS
<1>1. IdleReq \in ReqRow /\ IdleReq.stage = "idle" /\ IdleReq.epoch = 0
  BY Zenon DEF IdleReq, ReqRow
<1>2. req = [q \in Requests |-> IdleReq] /\ PolicyTypeOK
  BY TypesInit, Zenon DEF Init
<1>3. TypeOK
  BY <1>1, <1>2, ZenonT(60) DEF Init, TypeOK
<1>4. ASSUME NEW q \in Requests
      PROVE  RequestInv(q)
  <2>1. req[q] = IdleReq /\ epoch = 1
    BY <1>2, Zenon DEF Init, PolicyInit
  <2> QED
    BY <1>1, <2>1, Stages, SMTT(60) DEF RequestInv, LocksHeld, FoundStays, CommittedStays
<1> QED
  BY <1>3, <1>4, Zenon DEF RuntimeInv

-----------------------------------------------------------------------------
(* Theorems.                                                               *)

\* Locks, observed epochs and findings of every request agree with the policy
\* tables, whatever requests and writers do in between.
THEOREM RuntimeInvariant == Spec => []RuntimeInv
BY RuntimeStarts, RuntimeStep, PTL DEF Spec

\* What a request has projected stays permitted to its reader until the
\* transaction ends, as long as the epoch it observed is current and its
\* reader a member: the epoch and the two shared locks leave no rule uncovered.
THEOREM ProjectionsArePermitted == Spec => []ProjectionsStayPermitted
<1>1. RuntimeInv => ProjectionsStayPermitted
  BY Zenon DEF RuntimeInv, RequestInv, FoundStays, ProjectionsStayPermitted
<1> QED
  BY <1>1, RuntimeInvariant, PTL

\* Everything finalize_for_delivery lets through is permitted to the reader in
\* the very database state in which the final epoch comparison is made.
THEOREM DeliveriesArePermitted == Spec => DeliveredContentIsPermitted
<1>1. RuntimeInv /\ [Next]_vars =>
        [\A q \in Requests :
           req[q].stage = "authorizing" /\ req'[q].stage = "finalized" =>
             \A e \in req'[q].evidence : Permitted(q, e)]_vars
  <2> SUFFICES ASSUME RuntimeInv, Next, NEW q \in Requests,
                      req[q].stage = "authorizing", req'[q].stage = "finalized",
                      NEW e \in req'[q].evidence
               PROVE  Permitted(q, e)
    BY ZenonT(60) 
  <2>0. TypeOK /\ RequestInv(q) /\ req[q] \in ReqRow
    BY RequestTypes, Zenon DEF RuntimeInv
  <2>1. PICK p \in Requests : RequestNext(p)
    BY Zenon DEF Next
  <2>2. p = q
    <3>1. PICK row : Move(p, row)
      BY <2>0, <2>1, StepsAreMoves, Zenon 
    <3> QED
      BY <2>0, <3>1, ZenonT(60) DEF Move, TypeOK
  <2>3. FinalizeForDelivery(q)
    <3>1. ASSUME NEW row, Move(q, row)
          PROVE  row.stage = "finalized"
      BY <2>0, <3>1, Zenon DEF Move, TypeOK
    <3>2. ASSUME NEW a \in Articles, LocateCandidate(q, a)
          PROVE  FALSE
      <4>1. PICK t, f : Move(q, [req[q] EXCEPT !.todo = t, !.located = f])
        BY <3>2, Zenon DEF LocateCandidate
      <4>2. [req[q] EXCEPT !.todo = t, !.located = f].stage = "finalized"
        BY <3>1, <4>1, Zenon 
      <4> QED
        BY <2>0, <4>2, Zenon DEF ReqRow
    <3>3. ASSUME NEW a \in Articles, ProjectCandidate(q, a)
          PROVE  FALSE
      <4>1. PICK f : Move(q, [req[q] EXCEPT !.located = {}, !.evidence = f])
        BY <3>3, Zenon DEF ProjectCandidate
      <4>2. [req[q] EXCEPT !.located = {}, !.evidence = f].stage = "finalized"
        BY <3>1, <4>1, Zenon 
      <4> QED
        BY <2>0, <4>2, Zenon DEF ReqRow
    <3>4. ASSUME ExpandOneHop(q)
          PROVE  FALSE
      <4>1. PICK t : Move(q, [req[q] EXCEPT !.hop = "yes", !.todo = t])
        BY <3>4, Zenon DEF ExpandOneHop
      <4>2. [req[q] EXCEPT !.hop = "yes", !.todo = t].stage = "finalized"
        BY <3>1, <4>1, Zenon 
      <4> QED
        BY <2>0, <4>2, Zenon DEF ReqRow
    <3>5. ASSUME FailRequest(q)
          PROVE  FALSE
      BY <3>1, <3>5 DEF FailRequest, IdleReq
    <3>6. ASSUME \/ BeginRequest(q) \/ ReadScope(q) \/ PrepareAcquire(q) \/ Discover(q)
                 \/ \E r \in Requests : \E f \in req[r].locators : RedeemCitation(q, r, f)
                 \/ PrepareOpen(q) \/ \E f \in req[q].evidence : IssueCitation(q, f)
                 \/ FinalizeEgress(q) \/ PersistAndCommit(q) \/ RedeemEgressGrant(q)
          PROVE  FALSE
      BY <3>6, Zenon DEF BeginRequest, ReadScope, PrepareAcquire, Discover, RedeemCitation,
         PrepareOpen, IssueCitation, FinalizeEgress, PersistAndCommit, RedeemEgressGrant
    <3> QED
      BY <2>1, <2>2, <3>2, <3>3, <3>4, <3>5, <3>6, Zenon DEF RequestNext
  <2>4. PICK kept \in SUBSET req[q].evidence :
               Move(q, [req[q] EXCEPT !.stage = "finalized",
                                      !.evidence = IF EpochIsCurrent(q) THEN kept ELSE {},
                                      !.scope = ScopeIfCurrent(q)])
    BY <2>3, Zenon DEF FinalizeForDelivery
  <2>5. req'[q] = [req[q] EXCEPT !.stage = "finalized",
                                 !.evidence = IF EpochIsCurrent(q) THEN kept ELSE {},
                                 !.scope = ScopeIfCurrent(q)]
    BY <2>0, <2>4, Zenon DEF Move, TypeOK
  <2>6. req'[q].evidence = IF EpochIsCurrent(q) THEN kept ELSE {}
    BY <2>0, <2>5, Zenon DEF ReqRow
  <2>7. EpochIsCurrent(q) /\ CurrentMember(q) /\ e \in req[q].evidence
    BY <2>3, <2>6, Zenon DEF FinalizeForDelivery, EpochIsReadable
  <2> QED
    BY <2>0, <2>7, Zenon DEF RequestInv, FoundStays, Active
<1> QED
  BY <1>1, RuntimeInvariant, PTL DEF Spec, DeliveredContentIsPermitted


\* An egress grant is redeemed only while the policy gives its reader every
\* Article of the Package: the grant names the epoch of the delivery, and no
\* writer takes an Article away within an epoch.
THEOREM RedemptionsArePermitted == Spec => RedeemedGrantIsPermitted
<1>1. RuntimeInv /\ [Next]_vars =>
        [\A q \in Requests :
           req[q].grant = "issued" /\ req'[q].grant = "consumed" =>
             \A e \in req[q].evidence :
                /\ PolicyGrants(e.article, ReaderOf[q])
                /\ policy[e.article].status = "resolved"
                /\ FreshAt(e.article, req[q].checkedAt)]_vars
  <2> SUFFICES ASSUME RuntimeInv, Next, NEW q \in Requests,
                      req[q].grant = "issued", req'[q].grant = "consumed",
                      NEW e \in req[q].evidence
               PROVE  StillGranted(q, e)
    BY Zenon DEF StillGranted
  <2>0. TypeOK /\ RequestInv(q) /\ req[q] \in ReqRow
    BY RequestTypes, Zenon DEF RuntimeInv
  <2>1. PICK p \in Requests : RequestNext(p)
    BY Zenon DEF Next
  <2>2. p = q
    <3>1. PICK row : Move(p, row)
      BY <2>0, <2>1, StepsAreMoves, Zenon 
    <3> QED
      BY <2>0, <3>1, ZenonT(60) DEF Move, TypeOK
  <2>3. ASSUME NEW row, Move(q, row)
        PROVE  row.grant = "consumed"
    BY <2>0, <2>3, ZenonT(60) DEF Move, TypeOK
  <2>4. ASSUME \E row : Continues(q, row)
        PROVE  FALSE
    BY <2>3, <2>4, Zenon DEF Continues
  <2>5. ASSUME NEW a \in Articles, LocateCandidate(q, a)
        PROVE  FALSE
    <3>1. PICK t, f : Move(q, [req[q] EXCEPT !.todo = t, !.located = f])
      BY <2>5, Zenon DEF LocateCandidate
    <3>2. [req[q] EXCEPT !.todo = t, !.located = f].grant = "consumed"
      BY <2>3, <3>1, Zenon 
    <3> QED
      BY <2>0, <3>2, Zenon DEF ReqRow
  <2>6. ASSUME NEW a \in Articles, ProjectCandidate(q, a)
        PROVE  FALSE
    <3>1. PICK f : Move(q, [req[q] EXCEPT !.located = {}, !.evidence = f])
      BY <2>6, Zenon DEF ProjectCandidate
    <3>2. [req[q] EXCEPT !.located = {}, !.evidence = f].grant = "consumed"
      BY <2>3, <3>1, Zenon 
    <3> QED
      BY <2>0, <3>2, Zenon DEF ReqRow
  <2>7. ASSUME BeginRequest(q) \/ FailRequest(q) \/ PersistAndCommit(q)
        PROVE  FALSE
    <3>1. IdleReq.grant = "none" /\ (req[q].stage = "idle" => req[q] = IdleReq)
      BY <2>0, Zenon DEF IdleReq, RequestInv
    <3>2. ASSUME PersistAndCommit(q)
          PROVE  FALSE
      <4>1. [req[q] EXCEPT !.stage = "committed", !.scope = {}].grant = "consumed"
        BY <2>3, <3>2, Zenon DEF PersistAndCommit
      <4> QED
        BY <2>0, <4>1, Zenon DEF ReqRow
    <3>3. ASSUME FailRequest(q)
          PROVE  FALSE
      <4>1. [IdleReq EXCEPT !.stage = "aborted"].grant = "consumed"
        BY <2>3, <3>3, Zenon DEF FailRequest
      <4> QED
        BY <4>1, Zenon DEF IdleReq
    <3> QED
      BY <2>7, <3>1, <3>2, <3>3, Zenon DEF BeginRequest
  <2>8. RedeemEgressGrant(q)
    BY <2>0, <2>1, <2>2, <2>4, <2>5, <2>6, <2>7, ScopeSteps, DeliverySteps, Zenon
       DEF RequestNext
  <2> QED
    BY <2>0, <2>8, Zenon DEF RedeemEgressGrant, RequestInv, CommittedStays
<1> QED
  BY <1>1, RuntimeInvariant, PTL DEF Spec, RedeemedGrantIsPermitted

-----------------------------------------------------------------------------
(* Bulk policy changes.                                                    *)

\* A policy row is created once and every later write of it takes a new
\* version.
RowStays(a) == policy'[a] = policy[a] \/ policy'[a].version > policy[a].version
AbsentHasNoPolicy ==
    \A a \in Articles : article[a].state = "absent" => policy[a] = NoPolicy

\* What an operator was shown of Article a is current as long as its version is.
ItemStands(b, a) ==
    LET item == shown[b].items[a]
    IN  /\ item.version \in Nat \ {0} /\ item.version <= policy[a].version
        /\ item.version = policy[a].version => item.current = policy[a].effective

\* A preview in hand names Articles and one target; after it was committed
\* some version of it is past.
PreviewStands(b) ==
    shown[b].stage # "none" =>
      /\ DOMAIN shown[b].items \in Selections
      /\ \A a \in DOMAIN shown[b].items : ItemStands(b, a)
      /\ \E t \in Policies : \A a \in DOMAIN shown[b].items : shown[b].items[a].target = t
      /\ commits[b] > 0 =>
           \E a \in DOMAIN shown[b].items : shown[b].items[a].version < policy[a].version
ShownShape ==
    shown = [b \in Editors |-> [items |-> shown[b].items, stage |-> shown[b].stage]]
BulkInv ==
    /\ PolicyTypeOK /\ AbsentHasNoPolicy
    /\ ShownShape /\ commits \in [Editors -> Nat]
    /\ \A b \in Editors : PreviewStands(b)

-----------------------------------------------------------------------------
(* Versions.                                                               *)

LEMMA VersionsAreNat ==
    ASSUME PolicyTypeOK, NEW a \in Articles
    PROVE  policy[a].version \in Nat
BY RowTypes, Zenon DEF PolicyRow

LEMMA BulkRowsMove ==
    ASSUME PolicyTypeOK, NEW S \in SUBSET Articles, NEW t \in Policies,
           ConfirmBulkChange(S, t)
    PROVE  /\ \A a \in Articles : RowStays(a)
           /\ \A a \in S : /\ policy'[a].version = policy[a].version + 1
                           /\ policy'[a].effective = t
           /\ PolicyTypeOK' /\ article' = article
           /\ \A a \in S : policy[a].version > 0
<1>1. policy' = [a \in Articles |-> IF a \in S THEN BulkRow(a, t) ELSE policy[a]]
  BY Zenon DEF ConfirmBulkChange
<1>2. ASSUME NEW a \in S
      PROVE  policy'[a].version = policy[a].version + 1 /\ policy'[a].effective = t
  <2>1. policy'[a] = BulkRow(a, t) /\ policy[a] \in PolicyRow
    BY <1>1, RowTypes, Zenon 
  <2> QED
    BY <2>1, Zenon DEF BulkRow, PolicyRow
<1>3. \A a \in Articles \ S : policy'[a] = policy[a]
  BY <1>1, Zenon 
<1>4. \A a \in Articles : RowStays(a)
  BY <1>2, <1>3, VersionsAreNat DEF RowStays
<1>5. \A a \in Articles : (IF a \in S THEN BulkRow(a, t) ELSE policy[a]) \in PolicyRow
  BY BulkType, RowTypes, Zenon 
<1>6. policy' \in [Articles -> PolicyRow]
  BY <1>1, <1>5, ZenonT(60) 
<1>7. epoch' \in Nat
  BY EpochType, Zenon DEF ConfirmBulkChange
<1>8. PolicyTypeOK'
  BY <1>6, <1>7, Zenon DEF ConfirmBulkChange, PolicyTypeOK
<1>9. article' = article /\ \A a \in S : policy[a].version > 0
  BY Zenon DEF ConfirmBulkChange
<1> QED
  BY <1>2, <1>4, <1>8, <1>9, ZenonT(60) 

\* Every writer leaves a policy row or gives it the next version.
LEMMA RowsMove ==
    ASSUME PolicyTypeOK, AbsentHasNoPolicy, PolicyNext, NEW a \in Articles
    PROVE  RowStays(a)
<1>0. /\ policy \in [Articles -> PolicyRow] /\ policy[a] \in PolicyRow
      /\ policy[a].version \in Nat
      /\ \A b \in FeishuArticles : b \in Articles
  BY VersionsAreNat, RowTypes, Zenon DEF PolicyTypeOK, Articles
<1>1. ASSUME NEW b \in Articles, NEW row, row.version > policy[b].version,
             policy' = [policy EXCEPT ![b] = row]
      PROVE  RowStays(a)
  BY <1>0, <1>1, Zenon DEF RowStays
<1>2. ASSUME NEW b \in Articles,
             (\E r \in Readers : PrepareFileArticle(b, r)) \/ SeedFeishuArticle(b)
      PROVE  RowStays(a)
  <2>1. policy[b].version = 0
    BY <1>2 DEF AbsentHasNoPolicy, PrepareFileArticle, SeedFeishuArticle, NoPolicy
  <2>2. PICK o, v : policy' = [policy EXCEPT ![b] = FixedPolicy(b, o, v)]
    BY <1>2, ZenonT(60) DEF PrepareFileArticle, SeedFeishuArticle
  <2>3. FixedPolicy(b, o, v).version > policy[b].version
    BY <2>1 DEF FixedPolicy
  <2> QED
    BY <1>1, <2>2, <2>3, Zenon 
<1>3. ASSUME NEW b \in Articles, NEW r \in Readers, RevokeAccess(b, r)
      PROVE  RowStays(a)
  <2>1. RevokedPolicy(b).version > policy[b].version
    BY RowTypes, VersionsAreNat DEF RevokedPolicy, PolicyRow
  <2>2. policy' = [policy EXCEPT ![b] = RevokedPolicy(b)] \/ policy' = policy
    BY <1>3, ZenonT(60) DEF RevokeAccess
  <2> QED
    BY <1>1, <2>1, <2>2, Zenon DEF RowStays
<1>4. ASSUME NEW S \in SUBSET Articles, NEW t \in TargetPolicies, ConfirmBulkChange(S, t)
      PROVE  RowStays(a)
  BY <1>4, PoliciesAssumption, BulkRowsMove, Zenon 
<1>5. ASSUME NEW b \in Articles, NEW t \in TargetPolicies, ChangeArticlePolicy(b, t)
      PROVE  RowStays(a)
  <2>1. ChangedRow(b, t).version > policy[b].version
    BY RowTypes, VersionsAreNat DEF ChangedRow, PolicyRow
  <2>2. policy' = [policy EXCEPT ![b] = ChangedRow(b, t)]
    BY <1>5, Zenon DEF ChangeArticlePolicy
  <2> QED
    BY <1>1, <2>1, <2>2, Zenon 
<1>6. ASSUME NEW b \in FeishuArticles, NEW t \in 1 .. ClockBound, NEW o \in Outcomes,
             ApplyFeishuObservation(b, o, t)
      PROVE  RowStays(a)
  <2>1. ObservedRow(b, JudgedOutcome(b, o, t), t).version > policy[b].version
    BY <1>0, RowTypes, VersionsAreNat DEF ObservedRow, PolicyRow
  <2>2. policy' = [policy EXCEPT ![b] = ObservedRow(b, JudgedOutcome(b, o, t), t)]
        \/ policy' = policy
    BY <1>6, Zenon DEF ApplyFeishuObservation
  <2> QED
    BY <1>0, <1>1, <2>1, <2>2, Zenon DEF RowStays
<1>7. ASSUME \/ \E b \in Articles : ActivateRevision(b) \/ TombstoneFile(b)
             \/ \E b \in FeishuArticles, t \in 1 .. ClockBound : ApplyFeishuDelete(b, t)
             \/ OffboardFileSource \/ ActivateSourceVersion \/ Tick
             \/ \E d \in Defaults, p \in DefaultPolicies : SetPolicyDefault(d, p)
      PROVE  RowStays(a)
  BY <1>7, Zenon DEF RowStays, ActivateRevision, TombstoneFile, ApplyFeishuDelete,
                     OffboardFileSource, ActivateSourceVersion, Tick, SetPolicyDefault
<1> QED
  BY <1>2, <1>3, <1>4, <1>5, <1>6, <1>7, ZenonT(60) DEF PolicyNext


LEMMA AbsentStays ==
    ASSUME PolicyTypeOK, AbsentHasNoPolicy, PolicyNext
    PROVE  AbsentHasNoPolicy'
<1> SUFFICES ASSUME NEW a \in Articles, article'[a].state = "absent"
             PROVE  policy'[a] = NoPolicy
  BY Zenon DEF AbsentHasNoPolicy
<1>0. /\ article \in [Articles -> ArticleRow] /\ article[a] \in ArticleRow
      /\ policy \in [Articles -> PolicyRow]
      /\ \A b \in FeishuArticles : b \in Articles
  BY Zenon DEF PolicyTypeOK, Articles
<1> DEFINE Kept == article[a].state = "absent" => policy'[a] = policy[a]
           Was == article[a].state = "absent"
<1>1. ASSUME NEW b \in Articles, NEW row, article' = [article EXCEPT ![b] = row],
             row.state # "absent"
      PROVE  Was /\ b # a
  BY <1>0, <1>1, Zenon 
<1>2. ASSUME NEW b \in Articles, NEW r \in Readers, PrepareFileArticle(b, r)
      PROVE  Was /\ policy'[a] = policy[a]
  BY <1>0, <1>1, <1>2, Zenon DEF PrepareFileArticle
<1>3. ASSUME NEW b \in Articles, SeedFeishuArticle(b)
      PROVE  Was /\ policy'[a] = policy[a]
  BY <1>0, <1>1, <1>3, Zenon DEF SeedFeishuArticle
<1>4. ASSUME NEW b \in Articles, ActivateRevision(b) \/ TombstoneFile(b)
      PROVE  Was /\ policy'[a] = policy[a]
  BY <1>0, <1>4 DEF ActivateRevision, TombstoneFile, ArticleRow
<1>5. ASSUME NEW b \in Articles, NEW r \in Readers, RevokeAccess(b, r)
      PROVE  Was /\ policy'[a] = policy[a]
  <2>1. article' = article
    BY <1>5, ZenonT(60) DEF RevokeAccess
  <2>2. Was /\ policy[a].effective = None
    BY <2>1 DEF AbsentHasNoPolicy, NoPolicy
  <2>3. \/ policy' = policy
        \/ policy' = [policy EXCEPT ![b] = RevokedPolicy(b)] /\ policy[b].effective # None
    BY <1>5, ZenonT(60) DEF RevokeAccess
  <2> QED
    BY <1>0, <2>2, <2>3, Zenon 
<1>6. ASSUME NEW S \in SUBSET Articles, NEW t \in TargetPolicies, ConfirmBulkChange(S, t)
      PROVE  Was /\ policy'[a] = policy[a]
  <2>1. article' = article /\ Was
    BY <1>6, Zenon DEF ConfirmBulkChange
  <2>2. a \notin S
    BY <1>6, <2>1, SMTT(60) DEF ConfirmBulkChange, AbsentHasNoPolicy, NoPolicy
  <2> QED
    BY <1>6, <2>1, <2>2, ZenonT(60) DEF ConfirmBulkChange
<1>7. ASSUME NEW b \in Articles, NEW t \in TargetPolicies, ChangeArticlePolicy(b, t)
      PROVE  Was /\ policy'[a] = policy[a]
  <2>1. article' = article /\ article[b].state = "live"
        /\ policy' = [policy EXCEPT ![b] = ChangedRow(b, t)]
    BY <1>7, Zenon DEF ChangeArticlePolicy
  <2> QED
    BY <1>0, <2>1, Zenon 
<1>8. ASSUME NEW b \in FeishuArticles, NEW t \in 1 .. ClockBound, NEW o \in Outcomes,
             ApplyFeishuObservation(b, o, t)
      PROVE  Was /\ policy'[a] = policy[a]
  <2>1. /\ article' = article
        /\ \/ policy' = policy
           \/ /\ policy' = [policy EXCEPT ![b] = ObservedRow(b, JudgedOutcome(b, o, t), t)]
              /\ article[b].state # "absent"
    BY <1>8, Zenon DEF ApplyFeishuObservation
  <2> QED
    BY <1>0, <2>1, Zenon 
<1>9. ASSUME NEW b \in FeishuArticles, NEW t \in 1 .. ClockBound, ApplyFeishuDelete(b, t)
      PROVE  Was /\ policy'[a] = policy[a]
  BY <1>0, <1>9, Zenon DEF ApplyFeishuDelete, ArticleRow
<1>10. ASSUME \/ OffboardFileSource \/ ActivateSourceVersion \/ Tick
              \/ \E d \in Defaults, p \in DefaultPolicies : SetPolicyDefault(d, p)
       PROVE  Was /\ policy'[a] = policy[a]
  BY <1>10, Zenon DEF OffboardFileSource, ActivateSourceVersion, Tick, SetPolicyDefault
<1>11. Was /\ policy'[a] = policy[a]
  BY <1>2, <1>3, <1>4, <1>5, <1>6, <1>7, <1>8, <1>9, <1>10, ZenonT(60) DEF PolicyNext
<1> QED
  BY <1>11, Zenon DEF AbsentHasNoPolicy

-----------------------------------------------------------------------------
(* Previews.                                                               *)

\* A preview stands while rows are left alone or take later versions.
LEMMA PreviewKept ==
    ASSUME PolicyTypeOK, PolicyTypeOK', \A a \in Articles : RowStays(a),
           NEW b \in Editors, PreviewStands(b), shown[b].stage # "none",
           shown'[b].items = shown[b].items, commits'[b] = commits[b]
    PROVE  PreviewStands(b)'
<1> DEFINE D == DOMAIN shown[b].items
<1>1. /\ D \in Selections /\ D \subseteq Articles
      /\ \A a \in D : ItemStands(b, a)
      /\ \E t \in Policies : \A a \in D : shown[b].items[a].target = t
      /\ commits[b] > 0 => \E a \in D : shown[b].items[a].version < policy[a].version
  BY Zenon DEF PreviewStands, Selections
<1>2. ASSUME NEW a \in D
      PROVE  /\ ItemStands(b, a)'
             /\ shown[b].items[a].version < policy[a].version
                  => shown[b].items[a].version < policy'[a].version
  <2>1. a \in Articles /\ policy[a].version \in Nat /\ policy'[a].version \in Nat
    BY <1>1, VersionsAreNat, ZenonT(60) DEF PolicyTypeOK, PolicyRow
  <2>2. ItemStands(b, a) /\ RowStays(a)
    BY <1>1, <2>1, Zenon 
  <2> QED
    BY <2>1, <2>2, SMTT(60) DEF ItemStands, RowStays
<1> QED
  BY <1>1, <1>2, ZenonT(60) DEF PreviewStands


\* What the operator does with a preview.
LEMMA ShownMoves ==
    ASSUME ShownShape, NEW b \in Editors, NEW stage,
           shown' = [shown EXCEPT ![b].stage = stage]
    PROVE  /\ ShownShape' /\ \A c \in Editors \ {b} : shown'[c] = shown[c]
           /\ shown'[b].items = shown[b].items /\ shown'[b].stage = stage
BY DEF ShownShape

LEMMA ShownSet ==
    ASSUME ShownShape, NEW b \in Editors, NEW items, NEW stage,
           shown' = [shown EXCEPT ![b] = [items |-> items, stage |-> stage]]
    PROVE  /\ ShownShape' /\ \A c \in Editors \ {b} : shown'[c] = shown[c]
           /\ shown'[b].items = items /\ shown'[b].stage = stage
BY Zenon DEF ShownShape

LEMMA OtherPreviews ==
    ASSUME PolicyTypeOK, PolicyTypeOK', \A a \in Articles : RowStays(a),
           NEW c \in Editors, PreviewStands(c), shown'[c] = shown[c], commits'[c] = commits[c]
    PROVE  PreviewStands(c)'
<1>1. CASE shown[c].stage = "none"
  BY <1>1, ZenonT(60) DEF PreviewStands
<1>2. CASE shown[c].stage # "none"
  BY <1>2, PreviewKept, Zenon 
<1> QED
  BY <1>1, <1>2, ZenonT(60) 

LEMMA QuietRows ==
    ASSUME UNCHANGED policyVars
    PROVE  /\ PolicyTypeOK => PolicyTypeOK'
           /\ AbsentHasNoPolicy => AbsentHasNoPolicy'
           /\ \A a \in Articles : RowStays(a)
<1>1. PolicyTypeOK => PolicyTypeOK'
  BY ZenonT(60) DEF policyVars, PolicyTypeOK
<1> QED
  BY <1>1, Zenon DEF policyVars, AbsentHasNoPolicy, RowStays

LEMMA PreviewStep ==
    ASSUME BulkInv, NEW b \in Editors, NEW S \in Selections, NEW p \in BulkTargets,
           PreviewBulkChange(b, S, p)
    PROVE  BulkInv'
<1>0. /\ PolicyTypeOK /\ AbsentHasNoPolicy /\ ShownShape /\ commits \in [Editors -> Nat]
      /\ PolicyTypeOK' /\ AbsentHasNoPolicy' /\ (\A a \in Articles : RowStays(a))
      /\ S \subseteq Articles /\ policy' = policy
  BY QuietRows, Zenon DEF BulkInv, PreviewBulkChange, Selections, policyVars
<1>1. /\ ShownShape' /\ \A c \in Editors \ {b} : shown'[c] = shown[c]
      /\ shown'[b].items = Previewed(S, p) /\ shown'[b].stage = "shown"
  <2>1. shown' = [shown EXCEPT ![b] = [items |-> Previewed(S, p), stage |-> "shown"]]
    BY Zenon DEF PreviewBulkChange
  <2> QED
    BY <1>0, <2>1, ShownSet, ZenonT(60) 
<1>2. /\ commits' \in [Editors -> Nat] /\ commits'[b] = 0
      /\ \A c \in Editors \ {b} : commits'[c] = commits[c]
  BY <1>0, Zenon DEF PreviewBulkChange
<1>3. \A a \in S : policy[a].version > 0 /\ policy[a].version \in Nat
  BY <1>0, VersionsAreNat, Zenon DEF PreviewBulkChange, IsAdministrable
<1>4. PreviewStands(b)'
  <2>1. DOMAIN shown'[b].items = S
    BY <1>1, Zenon DEF Previewed
  <2>2. ASSUME NEW a \in S
        PROVE  ItemStands(b, a)' /\ shown'[b].items[a].target = p
    BY <1>0, <1>1, <1>3, SMTT(60) DEF Previewed, ItemStands
  <2>3. p \in Policies
    BY BulkAssumption, Zenon 
  <2> QED
    BY <1>2, <2>1, <2>2, <2>3, SMTT(60) DEF PreviewStands
<1>5. \A c \in Editors \ {b} : PreviewStands(c)'
  BY <1>0, <1>1, <1>2, OtherPreviews, Zenon DEF BulkInv
<1> QED
  BY <1>0, <1>1, <1>2, <1>4, <1>5, Zenon DEF BulkInv

\* The second transaction: the preview is current, and past afterwards.
LEMMA CommitStep ==
    ASSUME BulkInv, NEW b \in Editors, NEW answered \in BOOLEAN,
           CommitBulkChange(b, answered)
    PROVE  /\ BulkInv'
           /\ commits[b] = 0
           /\ \A c \in Editors \ {b} : commits'[c] = commits[c]
           /\ \A a \in DOMAIN shown[b].items :
                 /\ policy[a].version = shown[b].items[a].version
                 /\ policy[a].effective = shown[b].items[a].current
                 /\ policy'[a].effective = shown[b].items[a].target
<1> DEFINE D == DOMAIN shown[b].items
<1>0. /\ PolicyTypeOK /\ AbsentHasNoPolicy /\ ShownShape /\ commits \in [Editors -> Nat]
      /\ PreviewStands(b) /\ shown[b].stage = "confirmed" /\ ExpectsVersions(b)
      /\ ConfirmBulkChange(D, TargetOf(b))
  BY Zenon DEF BulkInv, CommitBulkChange
<1>1. /\ D \in Selections /\ D \subseteq Articles /\ D # {}
      /\ \A a \in D : ItemStands(b, a)
      /\ commits[b] > 0 => \E a \in D : shown[b].items[a].version < policy[a].version
  BY <1>0, ZenonT(60) DEF PreviewStands, Selections
<1>2. \A a \in D : policy[a].version = shown[b].items[a].version /\ policy[a].version \in Nat
  BY <1>0, <1>1, VersionsAreNat, ZenonT(60) DEF ExpectsVersions
<1>3. commits[b] = 0 /\ commits[b] \in Nat
  BY <1>0, <1>1, <1>2, SMTT(60) 
<1>4. PICK t \in Policies : \A a \in D : shown[b].items[a].target = t
  BY <1>0, Zenon DEF PreviewStands
<1>5. TargetOf(b) = t
  <2> DEFINE Items == {shown[b].items[a] : a \in D}
  <2>1. (CHOOSE item \in Items : TRUE) \in Items
    BY <1>1, ZenonT(60) 
  <2>2. \A item \in Items : item.target = t
    BY <1>4, Zenon 
  <2> HIDE DEF Items
  <2>3. (CHOOSE item \in Items : TRUE).target = t
    BY <2>1, <2>2, Zenon 
  <2> QED
    BY <2>3, Zenon DEF TargetOf, Items
<1>6. /\ \A a \in Articles : RowStays(a)
      /\ \A a \in D : policy'[a].version = policy[a].version + 1 /\ policy'[a].effective = t
      /\ PolicyTypeOK' /\ article' = article
      /\ \A a \in D : policy[a].version > 0
  <2>1. ConfirmBulkChange(D, t) /\ D \in SUBSET Articles /\ PolicyTypeOK
    BY <1>0, <1>1, <1>5, ZenonT(60) 
  <2> HIDE DEF D
  <2> QED
    BY <2>1, BulkRowsMove, Zenon 
<1>7. \A a \in D : /\ policy[a].version = shown[b].items[a].version
                   /\ policy[a].effective = shown[b].items[a].current
                   /\ policy'[a].effective = shown[b].items[a].target
  BY <1>1, <1>2, <1>4, <1>6, Zenon DEF ItemStands
<1>8. AbsentHasNoPolicy'
  <2>1. \A a \in Articles \ D : policy'[a] = policy[a]
    BY <1>0, ZenonT(60) DEF ConfirmBulkChange
  <2>2. \A a \in D : article[a].state # "absent"
    BY <1>0, <1>1, <1>6, SMTT(60) DEF AbsentHasNoPolicy, NoPolicy
  <2> QED
    BY <1>0, <1>6, <2>1, <2>2, ZenonT(60) DEF AbsentHasNoPolicy
<1>9. PICK stage \in {"done", "shown"} : shown' = [shown EXCEPT ![b].stage = stage]
  BY Zenon DEF CommitBulkChange
<1>10. /\ ShownShape' /\ \A c \in Editors \ {b} : shown'[c] = shown[c]
       /\ shown'[b].items = shown[b].items /\ shown'[b].stage = stage
  BY <1>0, <1>9, ShownMoves, Zenon 
<1>11. /\ commits' \in [Editors -> Nat] /\ commits'[b] = 1
       /\ \A c \in Editors \ {b} : commits'[c] = commits[c]
  BY <1>0, <1>3 DEF CommitBulkChange
<1>12. PreviewStands(b)'
  <2>1. ASSUME NEW a \in D
        PROVE  ItemStands(b, a)' /\ shown[b].items[a].version < policy'[a].version
    <3>1. ItemStands(b, a) /\ policy'[a].version = shown[b].items[a].version + 1
      BY <1>1, <1>2, <1>6, ZenonT(60) 
    <3> QED
      BY <1>10, <3>1, SMTT(60) DEF ItemStands
  <2> QED
    BY <1>1, <1>4, <1>10, <2>1, ZenonT(60) DEF PreviewStands
<1>13. \A c \in Editors \ {b} : PreviewStands(c)'
  BY <1>0, <1>6, <1>10, <1>11, OtherPreviews, Zenon DEF BulkInv
<1> QED
  BY <1>3, <1>6, <1>7, <1>8, <1>10, <1>11, <1>12, <1>13, Zenon DEF BulkInv


LEMMA BulkStep ==
    ASSUME BulkInv, [BulkNext]_bulkVars
    PROVE  BulkInv'
<1>0. /\ PolicyTypeOK /\ AbsentHasNoPolicy /\ ShownShape /\ commits \in [Editors -> Nat]
      /\ \A b \in Editors : PreviewStands(b)
  BY Zenon DEF BulkInv
<1>1. ASSUME NEW b \in Editors, NEW S \in Selections, NEW p \in BulkTargets,
             PreviewBulkChange(b, S, p)
      PROVE  BulkInv'
  BY <1>1, PreviewStep, Zenon 
<1>2. ASSUME NEW b \in Editors, CommitBulkChange(b, TRUE) \/ CommitBulkChange(b, FALSE)
      PROVE  BulkInv'
  BY <1>2, CommitStep, Zenon 
<1>3. ASSUME NEW b \in Editors, NEW stage, shown[b].stage # "none",
             shown' = [shown EXCEPT ![b].stage = stage], commits' = commits,
             UNCHANGED policyVars
      PROVE  BulkInv'
  <2>1. /\ ShownShape' /\ \A c \in Editors \ {b} : shown'[c] = shown[c]
        /\ shown'[b].items = shown[b].items
    BY <1>0, <1>3, ShownMoves, Zenon 
  <2>2. /\ PolicyTypeOK' /\ AbsentHasNoPolicy' /\ \A a \in Articles : RowStays(a)
    BY <1>0, <1>3, QuietRows, Zenon 
  <2>3. PreviewStands(b)'
    BY <1>0, <1>3, <2>1, <2>2, PreviewKept, Zenon 
  <2>4. \A c \in Editors \ {b} : PreviewStands(c)'
    BY <1>0, <1>3, <2>1, <2>2, OtherPreviews, Zenon 
  <2> QED
    BY <1>0, <1>3, <2>1, <2>2, <2>3, <2>4, Zenon DEF BulkInv
<1>4. ASSUME NEW b \in Editors,
             \/ \E S \in Selections, p \in BulkTargets : ConfirmPreview(b, S, p)
             \/ FailBulkChange(b)
      PROVE  BulkInv'
  <2>1. PICK stage \in {"confirmed", "shown"} :
               /\ shown' = [shown EXCEPT ![b].stage = stage]
               /\ shown[b].stage # "none" /\ commits' = commits /\ UNCHANGED policyVars
    BY <1>4, Zenon DEF ConfirmPreview, FailBulkChange
  <2> QED
    BY <1>3, <2>1, Zenon 
<1>5. ASSUME NEW b \in Editors, ForgetPreview(b)
      PROVE  BulkInv'
  <2>1. /\ shown' = [shown EXCEPT ![b] = [items |-> <<>>, stage |-> "none"]]
        /\ commits' = commits /\ UNCHANGED policyVars
    BY <1>5, Zenon DEF ForgetPreview, NoPreview
  <2>2. /\ ShownShape' /\ \A c \in Editors \ {b} : shown'[c] = shown[c]
        /\ shown'[b].stage = "none"
    <3>1. PICK items, stage : items = <<>> /\ stage = "none"
      BY Zenon
    <3>2. shown' = [shown EXCEPT ![b] = [items |-> items, stage |-> stage]]
      BY <2>1, <3>1, Zenon
    <3>3. ShownShape /\ b \in Editors
      BY <1>0, <1>5, Zenon
    <3>4. /\ ShownShape' /\ \A c \in Editors \ {b} : shown'[c] = shown[c]
          /\ shown'[b].stage = stage
      BY <3>2, <3>3, ShownSet, ZenonT(60)
    <3> QED
      BY <3>1, <3>4, Zenon
  <2>3. /\ PolicyTypeOK' /\ AbsentHasNoPolicy' /\ \A a \in Articles : RowStays(a)
    BY <1>0, <2>1, QuietRows, Zenon 
  <2>4. \A c \in Editors \ {b} : PreviewStands(c)'
    BY <1>0, <2>1, <2>2, <2>3, OtherPreviews, Zenon 
  <2> QED
    BY <1>0, <2>1, <2>2, <2>3, <2>4, Zenon DEF BulkInv, PreviewStands
<1>6. ASSUME shown' = shown, commits' = commits, PolicyTypeOK', AbsentHasNoPolicy',
             \A a \in Articles : RowStays(a)
      PROVE  BulkInv'
  BY <1>0, <1>6, OtherPreviews, Zenon DEF BulkInv, ShownShape
<1>7. ASSUME PolicyNext, UNCHANGED <<pubShared, fieldShared, shown, commits>>
      PROVE  BulkInv'
  BY <1>0, <1>6, <1>7, TypesStep, AbsentStays, RowsMove, Zenon 
<1>8. ASSUME UNCHANGED bulkVars
      PROVE  BulkInv'
  <2>1. UNCHANGED policyVars /\ shown' = shown /\ commits' = commits
    BY <1>8, Zenon DEF bulkVars, policyVars
  <2> QED
    BY <1>0, <1>6, <2>1, QuietRows, Zenon 
<1> QED
  BY <1>1, <1>2, <1>4, <1>5, <1>7, <1>8, Zenon DEF BulkNext

LEMMA BulkStarts == PolicyInit /\ BulkInit => BulkInv
<1> SUFFICES ASSUME PolicyInit, BulkInit PROVE BulkInv
  OBVIOUS
<1>1. PolicyTypeOK
  BY TypesInit, Zenon 
<1>2. AbsentHasNoPolicy
  BY Zenon DEF PolicyInit, AbsentHasNoPolicy
<1>3. ShownShape /\ commits \in [Editors -> Nat]
  BY Zenon DEF BulkInit, ShownShape, NoPreview
<1>4. \A b \in Editors : PreviewStands(b)
  BY Zenon DEF BulkInit, PreviewStands, NoPreview
<1> QED
  BY <1>1, <1>2, <1>3, <1>4, Zenon DEF BulkInv

\* A bulk change that commits finds every Article with the policy version and
\* the published policy its operator was shown, publishes the target shown,
\* and is committed once for a preview, although the confirmation compares
\* only versions and a lost reply has the operator confirm again.
THEOREM BulkChangesAreShown == BulkSpec => BulkChangesWereShown
<1>1. BulkInv /\ [BulkNext]_bulkVars =>
        [\A b \in Editors :
           commits'[b] > commits[b] =>
             /\ commits[b] = 0
             /\ \A a \in DOMAIN shown[b].items :
                   /\ policy[a].version = shown[b].items[a].version
                   /\ policy[a].effective = shown[b].items[a].current
                   /\ policy'[a].effective = shown[b].items[a].target]_bulkVars
  <2> SUFFICES ASSUME BulkInv, BulkNext, NEW b \in Editors, commits'[b] > commits[b]
               PROVE  /\ commits[b] = 0
                      /\ \A a \in DOMAIN shown[b].items :
                            /\ policy[a].version = shown[b].items[a].version
                            /\ policy[a].effective = shown[b].items[a].current
                            /\ policy'[a].effective = shown[b].items[a].target
    BY Zenon 
  <2>0. commits \in [Editors -> Nat]
    BY Zenon DEF BulkInv
  <2>1. PICK c \in Editors : CommitBulkChange(c, TRUE) \/ CommitBulkChange(c, FALSE)
    <3>1. ASSUME NEW c \in Editors, NEW S \in Selections, NEW p \in BulkTargets,
                 PreviewBulkChange(c, S, p)
          PROVE  FALSE
      BY <2>0, <3>1 DEF PreviewBulkChange
    <3>2. commits' # commits
      BY <2>0
    <3>3. ASSUME NEW c \in Editors,
                 \/ \E S \in Selections, p \in BulkTargets : ConfirmPreview(c, S, p)
                 \/ FailBulkChange(c) \/ ForgetPreview(c)
          PROVE  FALSE
      BY <3>2, <3>3, Zenon DEF ConfirmPreview, FailBulkChange, ForgetPreview
    <3>4. ~UNCHANGED <<pubShared, fieldShared, shown, commits>>
      BY <3>2, Zenon 
    <3> QED
      BY <3>1, <3>3, <3>4, Zenon DEF BulkNext
  <2>2. b = c
    <3>1. \A d \in Editors \ {c} : commits'[d] = commits[d]
      BY <2>1, CommitStep, Zenon 
    <3> QED
      BY <2>0, <3>1
  <2> QED
    BY <2>1, <2>2, CommitStep, Zenon 
<1>2. BulkSpec => []BulkInv
  BY BulkStarts, BulkStep, PTL DEF BulkSpec
<1> QED
  BY <1>1, <1>2, PTL DEF BulkSpec, BulkChangesWereShown
=============================================================================
