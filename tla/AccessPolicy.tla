---------------------------- MODULE AccessPolicy ----------------------------
(***************************************************************************)
(* Who may read an Article, as the database decides it, and the writers    *)
(* that change the answer.                                                 *)
(*                                                                         *)
(* An Article is a context_resource row.  Its article_access_policy row    *)
(* holds what the Organization proposed (local) and what is published      *)
(* (effective): the meet of the proposal and of the newest resolved source *)
(* ACL observation.  The organization_policy_epoch counter is what readers *)
(* compare at the start and at the end of a delivery.                      *)
(*                                                                         *)
(* Every writer is one transaction: each takes the epoch row FOR UPDATE    *)
(* before it commits, so that two of them never interleave, and a writer   *)
(* PostgreSQL aborts as a deadlock victim leaves no trace.  The writers    *)
(* that also take the publication lock wait for the requests that hold it  *)
(* shared (pubShared); field-right writers wait for fieldShared.           *)
(***************************************************************************)
EXTENDS Integers

CONSTANTS
    Readers,         \* the Memberships that may ask, with their principals
    Groups,          \* article_access_group
    GroupsOf,        \* article_access_group_membership: reader -> groups
    FileArticles,    \* Articles of the Organization's File source
    FeishuArticles,  \* Articles of its Feishu source
    TargetPolicies,  \* the policies an operator asks for
    DefaultPolicies, \* the defaults an operator sets, None among them
    SourcePolicies,  \* the policies a Feishu document may be observed with
    Leavers,         \* the readers whose Membership may end
    EpochBound,      \* bound on the Policy Epoch, in place of 2^63 - 1
    ClockBound,      \* bound on the clock
    RevisionBound,   \* bound on the Revisions of one Article
    VersionBound,    \* bound on the versions of the File source
    MaxAge           \* FEISHU_DOCS_MIRRORED_ACL_MAX_AGE, in ticks

None == [kind |-> "none", groups |-> {}]
Private == [kind |-> "private", groups |-> {}]
Organization == [kind |-> "organization", groups |-> {}]
GroupPolicies == [kind : {"groups"}, groups : (SUBSET Groups) \ {{}}]
Policies == {Private, Organization} \cup GroupPolicies
PolicyOrNone == Policies \cup {None}

Articles == FileArticles \cup FeishuArticles
Defaults == {"tenant", "file", "feishu"}

ASSUME ArticlesAssumption == FileArticles \cap FeishuArticles = {}
ASSUME GroupsAssumption == GroupsOf \in [Readers -> SUBSET Groups]
ASSUME LeaversAssumption == Leavers \subseteq Readers
ASSUME PoliciesAssumption ==
    /\ TargetPolicies \subseteq Policies /\ SourcePolicies \subseteq Policies
    /\ DefaultPolicies \subseteq PolicyOrNone
ASSUME BoundsAssumption ==
    /\ EpochBound \in Nat /\ ClockBound \in Nat /\ RevisionBound \in Nat
    /\ VersionBound \in Nat /\ MaxAge \in Nat

VARIABLES
    epoch,        \* organization_policy_epoch.policy_epoch
    now,          \* the database clock
    article,      \* context_resource: state and active Revision
    source,       \* context_source of the Files: lifecycle, active version
    policy,       \* article_access_policy (version 0: no row)
    obs,          \* article_source_acl_observation (status "missing": no row)
    access,       \* resource_access_policy: Article -> reader -> state
    fieldRight,   \* membership_resource_field_right, of the body
    member,       \* the readers whose Membership is active
    defaults,     \* the tenant default and the default of each source
    pubShared,    \* transactions holding the publication lock shared
    fieldShared   \* transactions holding the field-rights lock shared

policyVars == <<epoch, now, article, source, policy, obs, access, fieldRight,
                member, defaults>>
lockVars == <<pubShared, fieldShared>>

Statuses == {"missing", "resolved", "failed", "unresolved_group"}
ArticleRow == [state : {"absent", "live", "tombstoned"}, revision : Nat]
SourceRow == [lifecycle : {"active", "disabled"}, version : Nat]
ObsRow == [status : Statuses, policy : PolicyOrNone, observedAt : Nat]
PolicyRow == [version : Nat, local : PolicyOrNone, effective : PolicyOrNone,
              status : Statuses, srcVersion : Nat, asOf : Nat,
              aged : {"no", "yes"}, fixedAt : Nat]
NoObs == [status |-> "missing", policy |-> None, observedAt |-> 0]
NoPolicy == [version |-> 0, local |-> None, effective |-> None,
             status |-> "missing", srcVersion |-> 0, asOf |-> 0,
             aged |-> "no", fixedAt |-> 0]

PolicyInit ==
    /\ epoch = 1 /\ now = 1
    /\ article = [a \in Articles |-> [state |-> "absent", revision |-> 0]]
    /\ source = [lifecycle |-> "active", version |-> 1]
    /\ policy = [a \in Articles |-> NoPolicy]
    /\ obs = [a \in Articles |-> NoObs]
    /\ access = [a \in Articles |-> [r \in Readers |-> "none"]]
    /\ fieldRight = [a \in Articles |-> {}]
    /\ member = Readers
    /\ defaults = [d \in Defaults |-> Private]

-----------------------------------------------------------------------------
(* What a reader sees.                                                     *)

\* The most restrictive of a local proposal and of an observed policy.
Meet(local, observed) ==
    LET shared == local.groups \cap observed.groups
    IN  IF local = None \/ observed = None THEN None
        ELSE IF local = Private \/ observed = Private THEN Private
        ELSE IF local = Organization THEN observed
        ELSE IF observed = Organization THEN local
        ELSE IF shared = {} THEN None
        ELSE [kind |-> "groups", groups |-> shared]

\* The Source of the Article is active in the version its policy was fixed to.
\* The Feishu source has one version, 1, and no lifecycle writer.
SourceVersionAllows(a) ==
    IF a \in FileArticles
    THEN source.lifecycle = "active" /\ policy[a].srcVersion = source.version
    ELSE policy[a].srcVersion = 1

\* The published policy of a names r.
Admits(a, r) ==
    \/ policy[a].effective = Organization
    \/ policy[a].effective = Private /\ access[a][r] = "allowed"
    \/ /\ policy[a].effective.kind = "groups"
       /\ GroupsOf[r] \cap policy[a].effective.groups # {}

\* The Article is visible to r by policy, whatever r's Membership and fields.
PolicyGrants(a, r) ==
    /\ article[a].state = "live"
    /\ article[a].revision > 0
    /\ policy[a].effective # None
    /\ SourceVersionAllows(a)
    /\ Admits(a, r)

\* Row-level security: the rows of Article a are visible to reader r.
RowsVisible(a, r) == r \in member /\ PolicyGrants(a, r)

\* A mirrored Feishu ACL is usable for MaxAge after it was observed.
FreshAt(a, t) == policy[a].aged = "no" \/ policy[a].asOf + MaxAge >= t

-----------------------------------------------------------------------------
(* Writers.                                                                *)

AdvanceEpoch == epoch < EpochBound /\ epoch' = epoch + 1

Published(row, observed, status) ==
    IF status = "resolved" THEN Meet(row.local, observed) ELSE None

\* context_fix_article_access_policy: only creates the row, and only reads
\* the epoch.  It copies no source_policy_epoch, so the row has no age limit.
LocalDefault(a) ==
    LET own == defaults[IF a \in FileArticles THEN "file" ELSE "feishu"]
    IN  IF own # None THEN own ELSE defaults["tenant"]
FixedPolicy(a, o, srcVersion) ==
    [version |-> 1,
     local |-> LocalDefault(a),
     effective |-> IF o.status = "resolved" THEN Meet(LocalDefault(a), o.policy)
                   ELSE None,
     status |-> o.status,
     srcVersion |-> IF o.status = "missing" THEN 0 ELSE srcVersion,
     asOf |-> o.observedAt,
     aged |-> "no",
     fixedAt |-> epoch]

\* The prepared stage of an initial File publication: the Article, the grant
\* and the field right of its audience, and by the trigger on the grant a
\* private observation and the fixed policy.
PrepareFileArticle(a, r) ==
    /\ a \in FileArticles
    /\ article[a].state = "absent"
    /\ source.lifecycle = "active"
    /\ r \in member
    /\ fieldShared = {}
    /\ article' = [article EXCEPT ![a] = [state |-> "live", revision |-> 0]]
    /\ access' = [access EXCEPT ![a][r] = "allowed"]
    /\ fieldRight' = [fieldRight EXCEPT ![a] = {r}]
    /\ LET o == [status |-> "resolved", policy |-> Private, observedAt |-> now]
       IN  /\ obs' = [obs EXCEPT ![a] = o]
           /\ policy' = [policy EXCEPT ![a] = FixedPolicy(a, o, source.version)]
    /\ UNCHANGED <<epoch, now, source, member, defaults>>

\* Activation of an initial or a replacement Revision.  A replacement needs
\* the grant and the field right of its audience.
ActivateRevision(a) ==
    /\ a \in FileArticles
    /\ article[a].state = "live"
    /\ article[a].revision < RevisionBound
    /\ source.lifecycle = "active"
    /\ pubShared = {}
    /\ \/ article[a].revision = 0
       \/ \E r \in fieldRight[a] : access[a][r] = "allowed"
    /\ article' = [article EXCEPT ![a].revision = @ + 1]
    /\ UNCHANGED <<epoch, now, source, policy, obs, access, fieldRight, member,
                   defaults>>

\* A Feishu document enters as an Article with one Revision.  No component
\* under src/ does this yet; the policy is fixed by the function all use.
SeedFeishuArticle(a) ==
    /\ a \in FeishuArticles
    /\ article[a].state = "absent"
    /\ fieldShared = {}
    /\ article' = [article EXCEPT ![a] = [state |-> "live", revision |-> 1]]
    /\ fieldRight' = [fieldRight EXCEPT ![a] = Readers]
    /\ policy' = [policy EXCEPT ![a] = FixedPolicy(a, obs[a], 1)]
    /\ UNCHANGED <<epoch, now, source, obs, access, member, defaults>>

\* The trigger on a revoked grant: the last allowed grant of a File Article
\* takes its observation and its published policy with it.
RevokedPolicy(a) ==
    [policy[a] EXCEPT !.version = @ + 1, !.effective = None,
                      !.status = "failed", !.asOf = now, !.fixedAt = epoch + 1]
FailedObs == [status |-> "failed", policy |-> None, observedAt |-> now]
LastGrant(a, r) == \A q \in Readers \ {r} : access[a][q] # "allowed"

RevokeAccess(a, r) ==
    /\ access[a][r] = "allowed"
    /\ AdvanceEpoch
    /\ access' = [access EXCEPT ![a][r] = "revoked"]
    /\ IF /\ a \in FileArticles /\ source.lifecycle = "active"
          /\ LastGrant(a, r) /\ policy[a].effective # None
       THEN /\ policy' = [policy EXCEPT ![a] = RevokedPolicy(a)]
            /\ obs' = [obs EXCEPT ![a] = FailedObs]
       ELSE UNCHANGED <<policy, obs>>
    /\ UNCHANGED <<now, article, source, fieldRight, member, defaults>>

\* A bulk check that compares kinds of policy and not the groups.
WithinObservationKind(target, o) ==
    /\ o.status = "resolved"
    /\ target = Private \/ o.policy = Organization \/ target.kind = o.policy.kind

\* A confirmed bulk change: every Article or none, and never more than the
\* source shows.  It takes no publication lock and does not look at tombstones.
WithinObservation(target, o) ==
    /\ o.status = "resolved"
    /\ \/ target = Private
       \/ o.policy = Organization
       \/ /\ target.kind = "groups" /\ o.policy.kind = "groups"
          /\ target.groups \subseteq o.policy.groups
BulkRow(a, target) ==
    [policy[a] EXCEPT !.version = @ + 1, !.local = target,
                      !.effective = target, !.fixedAt = epoch + 1]

ConfirmBulkChange(S, target) ==
    /\ S # {}
    /\ \A a \in S : policy[a].version > 0 /\ WithinObservation(target, obs[a])
    /\ AdvanceEpoch
    /\ policy' = [a \in Articles |->
                    IF a \in S THEN BulkRow(a, target) ELSE policy[a]]
    /\ UNCHANGED <<now, article, source, obs, access, fieldRight, member,
                   defaults>>

\* An Article's policy changed from the review page, under the publication
\* lock and for the exact epoch and version the page showed.
ChangedRow(a, target) ==
    [policy[a] EXCEPT
        !.version = @ + 1, !.local = target,
        !.effective = IF obs[a].status = "resolved"
                      THEN Meet(target, obs[a].policy) ELSE None,
        !.fixedAt = epoch + 1]

ChangeArticlePolicy(a, target) ==
    /\ pubShared = {}
    /\ member # {}
    /\ article[a].state = "live"
    /\ policy[a].version > 0
    /\ AdvanceEpoch
    /\ policy' = [policy EXCEPT ![a] = ChangedRow(a, target)]
    /\ UNCHANGED <<now, article, source, obs, access, fieldRight, member,
                   defaults>>

\* What the engine's own subject mapping makes of one observed ACL.
Outcomes ==
    [status : {"resolved"}, policy : SourcePolicies \cap {Private},
     principals : SUBSET Readers]
      \cup [status : {"resolved"}, policy : SourcePolicies \ {Private},
            principals : {{}}]
      \cup [status : {"failed", "unresolved_group"}, policy : {None},
            principals : {{}}]
FailedOutcome == [status |-> "failed", policy |-> None, principals |-> {}]

\* An observation that is not newer than the one recorded fails closed.
IsStale(a, t) == obs[a].status # "missing" /\ t <= obs[a].observedAt
JudgedOutcome(a, o, t) == IF IsStale(a, t) THEN FailedOutcome ELSE o
RecordedAt(a, t) == IF IsStale(a, t) THEN now ELSE t

\* Grants that are added and never taken back.
SyncedGrantAdding(state, r, o) ==
    IF o.policy = Private /\ r \in o.principals THEN "allowed" ELSE state

\* Grants after an observation: exactly the principals of a private one.
SyncedGrant(state, r, o) ==
    IF o.policy = Private /\ r \in o.principals THEN "allowed"
    ELSE IF state = "allowed" THEN "revoked" ELSE state
ObservedRow(a, o, t) ==
    [policy[a] EXCEPT
        !.version = @ + 1,
        !.effective = Published(policy[a], o.policy, o.status),
        !.status = o.status, !.srcVersion = 1, !.asOf = t, !.aged = "yes",
        !.fixedAt = epoch + 1]

\* Applies the ACL observed at t of an accepted page.  Accepted pages are
\* kept: one may be applied late, out of order or again.
ApplyFeishuObservation(a, outcome, t) ==
    /\ a \in FeishuArticles
    /\ t <= now
    /\ AdvanceEpoch
    /\ LET o == JudgedOutcome(a, outcome, t)
       IN  /\ obs' = [obs EXCEPT ![a] =
                        [status |-> o.status, policy |-> o.policy,
                         observedAt |-> RecordedAt(a, t)]]
           /\ IF article[a].state # "absent"
              THEN /\ policy' = [policy EXCEPT ![a] = ObservedRow(a, o, t)]
                   /\ access' = [access EXCEPT ![a] =
                         [r \in Readers |-> SyncedGrant(access[a][r], r, o)]]
              ELSE UNCHANGED <<policy, access>>
    /\ UNCHANGED <<now, article, source, fieldRight, member, defaults>>

\* Applies an observed deletion: the Article is tombstoned; its grants and
\* its policy row stay as they were.
ApplyFeishuDelete(a, t) ==
    /\ a \in FeishuArticles
    /\ t <= now
    /\ AdvanceEpoch
    /\ obs' = [obs EXCEPT ![a] =
                 [status |-> "failed", policy |-> None,
                  observedAt |-> RecordedAt(a, t)]]
    /\ article' = IF article[a].state = "absent" THEN article
                  ELSE [article EXCEPT ![a] = [@ EXCEPT !.state = "tombstoned"]]
    /\ UNCHANGED <<now, source, policy, access, fieldRight, member, defaults>>

TombstoneFile(a) ==
    /\ a \in FileArticles
    /\ pubShared = {}
    /\ article[a].state = "live"
    /\ article[a].revision > 0
    /\ AdvanceEpoch
    /\ article' = [article EXCEPT ![a] = [@ EXCEPT !.state = "tombstoned"]]
    /\ UNCHANGED <<now, source, policy, obs, access, fieldRight, member,
                   defaults>>

OffboardFileSource ==
    /\ pubShared = {}
    /\ source.lifecycle = "active"
    /\ AdvanceEpoch
    /\ source' = [source EXCEPT !.lifecycle = "disabled"]
    /\ UNCHANGED <<now, article, policy, obs, access, fieldRight, member,
                   defaults>>

\* An activation that leaves the Policy Epoch alone.
ActivateSourceVersionSilently ==
    /\ pubShared = {}
    /\ source.lifecycle = "active"
    /\ source.version < VersionBound
    /\ source' = [source EXCEPT !.version = @ + 1]
    /\ UNCHANGED <<epoch, now, article, policy, obs, access, fieldRight, member,
                   defaults>>

\* A new version of the File source.  The trigger on context_source advances
\* the epoch exactly when some policy rests on the version left behind.
ActivateSourceVersion ==
    /\ pubShared = {}
    /\ source.lifecycle = "active"
    /\ source.version < VersionBound
    /\ source' = [source EXCEPT !.version = @ + 1]
    /\ IF \E a \in FileArticles : policy[a].srcVersion = source.version
       THEN AdvanceEpoch
       ELSE UNCHANGED epoch
    /\ UNCHANGED <<now, article, policy, obs, access, fieldRight, member,
                   defaults>>

\* Defaults govern the Articles fixed later.
SetPolicyDefault(d, p) ==
    /\ d = "file" => source.lifecycle = "active"
    /\ defaults' = [defaults EXCEPT ![d] = p]
    /\ UNCHANGED <<epoch, now, article, source, policy, obs, access, fieldRight,
                   member>>

\* Provisioning outside the engine: a Membership ends, a field right goes.
EndMembership(r) ==
    /\ r \in member
    /\ member' = member \ {r}
    /\ UNCHANGED <<epoch, now, article, source, policy, obs, access, fieldRight,
                   defaults>>

RevokeFieldRight(a, r) ==
    /\ fieldShared = {}
    /\ r \in fieldRight[a]
    /\ fieldRight' = [fieldRight EXCEPT ![a] = @ \ {r}]
    /\ UNCHANGED <<epoch, now, article, source, policy, obs, access, member,
                   defaults>>

Tick ==
    /\ now < ClockBound
    /\ now' = now + 1
    /\ UNCHANGED <<epoch, article, source, policy, obs, access, fieldRight,
                   member, defaults>>

PolicyNext ==
    \/ \E a \in Articles, r \in Readers :
          PrepareFileArticle(a, r) \/ RevokeAccess(a, r)
    \/ \E a \in Articles :
          ActivateRevision(a) \/ SeedFeishuArticle(a) \/ TombstoneFile(a)
    \/ \E S \in SUBSET Articles, p \in TargetPolicies : ConfirmBulkChange(S, p)
    \/ \E a \in Articles, p \in TargetPolicies : ChangeArticlePolicy(a, p)
    \/ \E a \in FeishuArticles, t \in 1 .. ClockBound :
          \/ \E o \in Outcomes : ApplyFeishuObservation(a, o, t)
          \/ ApplyFeishuDelete(a, t)
    \/ OffboardFileSource \/ ActivateSourceVersion \/ Tick
    \/ \E d \in Defaults, p \in DefaultPolicies : SetPolicyDefault(d, p)

ProvisioningNext ==
    \/ \E r \in Leavers : EndMembership(r)
    \/ \E a \in Articles, r \in Readers : RevokeFieldRight(a, r)

\* The engine's writers by themselves, with no request in the way.
PolicySpec ==
    /\ PolicyInit /\ pubShared = {} /\ fieldShared = {}
    /\ [][PolicyNext /\ UNCHANGED lockVars]_<<policyVars, lockVars>>

-----------------------------------------------------------------------------
(* Properties.                                                             *)

PolicyTypeOK ==
    /\ epoch \in Nat /\ now \in Nat
    /\ article \in [Articles -> ArticleRow]
    /\ source \in SourceRow
    /\ policy \in [Articles -> PolicyRow]
    /\ obs \in [Articles -> ObsRow]
    /\ access \in [Articles -> [Readers -> {"none", "allowed", "revoked"}]]
    /\ fieldRight \in [Articles -> SUBSET Readers]
    /\ member \subseteq Readers
    /\ defaults \in [Defaults -> PolicyOrNone]

\* A step after which the policy no longer gives some reader an Article it
\* gave before advances the Policy Epoch: this is what readers compare.
AccessLossAdvancesEpoch ==
    [][\A a \in Articles, r \in Readers :
         PolicyGrants(a, r) /\ ~PolicyGrants(a, r)' => epoch' = epoch + 1]_policyVars

\* What is published of an Article that is not tombstoned is the meet of its
\* local policy and of its source observation, and nothing unless the latter
\* is resolved, after any order of observations and operator changes.
PublishedIsMeet ==
    \A a \in Articles :
        article[a].state = "live" =>
          /\ policy[a].status = obs[a].status
          /\ policy[a].effective = Published(policy[a], obs[a].policy, obs[a].status)

\* A Feishu Article keeps a principal grant only while its newest observation
\* is a resolved private one, so that no grant of an earlier sharing comes
\* back to life when the document turns private again.
FeishuGrantsFollowObservation ==
    \A a \in FeishuArticles :
        article[a].state = "live" /\ (\E r \in Readers : access[a][r] = "allowed") =>
          obs[a].status = "resolved" /\ obs[a].policy = Private

\* A retained page that is applied again or out of order never publishes:
\* a resolved observation replaces another only if it was observed later.
ResolvedObservationsMoveForward ==
    [][\A a \in FeishuArticles :
         obs'[a] # obs[a] /\ obs'[a].status = "resolved" =>
           obs[a].status = "missing" \/ obs'[a].observedAt > obs[a].observedAt]_policyVars

\* ADR-0092, decision 3: applying a delete observation "revokes retained
\* principal grants for that Article in the same transaction".
DeleteRevokesGrants ==
    \A a \in FeishuArticles :
        article[a].state = "tombstoned" =>
          \A r \in Readers : access[a][r] # "allowed"
=============================================================================
