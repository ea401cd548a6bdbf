--------------------------- MODULE ContextRuntime ---------------------------
(***************************************************************************)
(* Runtime.resolve on the owning current-UserActor transaction, beside the *)
(* writers of AccessPolicy.                                                *)
(*                                                                         *)
(* A request is one READ COMMITTED transaction of many statements.  It     *)
(* holds the publication lock shared from its start and the field-rights   *)
(* lock shared from its first projection; against every other writer it    *)
(* only has the Policy Epoch it observed first and compares again before   *)
(* discovery and before delivery.  Content is abstracted to the Article    *)
(* and the Revision it was read from: an Article stands for its Fragments. *)
(*                                                                         *)
(* The active release is fixed for the request by the shared release lock. *)
(* It can only leave Articles out of the scope, as discovery can, so the   *)
(* scope here is that of a release that selects every active Revision.     *)
(***************************************************************************)
EXTENDS AccessPolicy

CONSTANTS
    Requests,
    ReaderOf,   \* the reader of a request
    KindOf,     \* "acquire" or "open"
    EgressOf,   \* the egress profile: "internal" or "external"
    Links,      \* pairs of Articles joined by an edge of the link graph
    PackageTtl  \* package_ttl_seconds, in ticks

ASSUME RequestsAssumption ==
    /\ ReaderOf \in [Requests -> Readers]
    /\ KindOf \in [Requests -> {"acquire", "open"}]
    /\ EgressOf \in [Requests -> {"internal", "external"}]
    /\ Links \subseteq Articles \X Articles
    /\ PackageTtl \in Nat

VARIABLE req

vars == <<epoch, now, article, source, policy, obs, access, fieldRight, member,
          defaults, pubShared, fieldShared, req>>

Content == [article : Articles, revision : Nat]
Active == {"begun", "scoped", "prepared", "redeemed", "authorizing",
           "finalized", "granted"}
ReqRow == [stage : Active \cup {"idle", "committed", "aborted"},
           epoch : Nat,                \* policy_epoch_verification
           checkedAt : Nat,            \* checked_at
           scope : SUBSET Articles,    \* effective_scope.targets
           todo : SUBSET Articles,     \* candidates still to authorize
           located : SUBSET Articles,  \* the candidate located, if any
           hop : {"no", "yes"},        \* one-hop expansion done
           evidence : SUBSET Content,  \* projections, then Package evidence
           locators : SUBSET Content,  \* citation locators issued
           grant : {"none", "issued", "consumed"}]
IdleReq == [stage |-> "idle", epoch |-> 0, checkedAt |-> 0, scope |-> {},
            todo |-> {}, located |-> {}, hop |-> "no", evidence |-> {},
            locators |-> {}, grant |-> "none"]

Init ==
    /\ PolicyInit
    /\ req = [q \in Requests |-> IdleReq]
    /\ pubShared = {} /\ fieldShared = {}

-----------------------------------------------------------------------------
(* What the statements of one request read.                                *)

CurrentMember(q) == ReaderOf[q] \in member

\* The epoch row is shown to a current member only; without it the session is
\* unavailable and the request ends.
EpochIsReadable(q) == CurrentMember(q)
ObservedEpoch(q) == [epoch |-> epoch, checkedAt |-> now]
EpochIsCurrent(q) == epoch = req[q].epoch

\* current_scope_operands, every operand met.
InScope(q, a) ==
    /\ RowsVisible(a, ReaderOf[q])
    /\ FreshAt(a, req[q].checkedAt)
    /\ ReaderOf[q] \in fieldRight[a]

\* locate: the active Fragment under a resolved and fresh policy.
Locatable(q, a) ==
    /\ RowsVisible(a, ReaderOf[q])
    /\ policy[a].status = "resolved"
    /\ FreshAt(a, req[q].checkedAt)

\* project: row-level security again, and the field right of the reader.
Projectable(q, a) ==
    RowsVisible(a, ReaderOf[q]) /\ ReaderOf[q] \in fieldRight[a]

ActiveContent(a) == [article |-> a, revision |-> article[a].revision]
IsActiveContent(e) ==
    article[e.article] = [state |-> "live", revision |-> e.revision]

-----------------------------------------------------------------------------
(* The steps of a request.                                                 *)

\* A step that only moves the request.
Move(q, row) ==
    /\ req' = [req EXCEPT ![q] = row]
    /\ UNCHANGED policyVars

\* _current_user_actor_transaction: Membership, the shared publication lock,
\* the Policy Epoch.
BeginRequest(q) ==
    /\ req[q].stage = "idle"
    /\ EpochIsReadable(q)
    /\ Move(q, [req[q] EXCEPT !.stage = "begun",
                              !.epoch = ObservedEpoch(q).epoch,
                              !.checkedAt = ObservedEpoch(q).checkedAt])
    /\ pubShared' = pubShared \cup {q}
    /\ UNCHANGED fieldShared

\* The operands of the scope, read once and kept for the request.
ScopeSnapshot(q) == {a \in Articles : InScope(q, a)}

ReadScope(q) ==
    /\ req[q].stage = "begun"
    /\ Move(q, [req[q] EXCEPT !.stage = "scoped", !.scope = ScopeSnapshot(q)])
    /\ UNCHANGED lockVars

TrustedOperands(q) == req[q].scope
ScopeIfCurrent(q) == IF EpochIsCurrent(q) THEN TrustedOperands(q) ELSE {}

\* prepare_acquire; the epoch is hidden from a reader who is no member now.
PrepareAcquire(q) ==
    /\ KindOf[q] = "acquire"
    /\ req[q].stage = "scoped"
    /\ EpochIsReadable(q)
    /\ Move(q, [req[q] EXCEPT !.stage = "prepared", !.scope = ScopeIfCurrent(q)])
    /\ UNCHANGED lockVars

\* Discovery returns some of the visible Articles of the scope.
Discover(q) ==
    /\ req[q].stage = "prepared"
    /\ \E found \in SUBSET {a \in req[q].scope : RowsVisible(a, ReaderOf[q])} :
          Move(q, [req[q] EXCEPT !.stage = "authorizing", !.todo = found])
    /\ UNCHANGED lockVars

\* redeem_citation_open_ref of a locator another request committed, whoever
\* it was issued to: the target, or none when it is no longer available.
RedeemCitation(q, p, e) ==
    /\ KindOf[q] = "open"
    /\ req[q].stage = "scoped"
    /\ req[p].stage = "committed"
    /\ e \in req[p].locators
    /\ LET available == /\ CurrentMember(q)
                        /\ IsActiveContent(e)
                        /\ now < req[p].checkedAt + PackageTtl
       IN  Move(q, [req[q] EXCEPT !.stage = "redeemed",
                                  !.todo = IF available THEN {e.article} ELSE {}])
    /\ UNCHANGED lockVars

\* authorize_open_citation up to its first statement on content.
PrepareOpen(q) ==
    /\ req[q].stage = "redeemed"
    /\ EpochIsReadable(q)
    /\ Move(q, [req[q] EXCEPT !.stage = "authorizing",
                              !.scope = ScopeIfCurrent(q), !.hop = "yes"])
    /\ UNCHANGED lockVars

\* _authorize_and_project, first statement: a candidate that is not located,
\* or outside the scope, is dropped.
LocateCandidate(q, a) ==
    /\ req[q].stage = "authorizing"
    /\ req[q].located = {}
    /\ a \in req[q].todo
    /\ Move(q, [req[q] EXCEPT
                  !.todo = @ \ {a},
                  !.located = IF Locatable(q, a) /\ a \in req[q].scope
                              THEN {a} ELSE {}])
    /\ UNCHANGED lockVars

\* A projection that does not take the field-rights lock.
ProjectCandidateUnlocked(q, a) ==
    /\ req[q].stage = "authorizing"
    /\ a \in req[q].located
    /\ Move(q, [req[q] EXCEPT
                  !.located = {},
                  !.evidence = IF Projectable(q, a)
                               THEN @ \cup {ActiveContent(a)} ELSE @])
    /\ UNCHANGED lockVars

\* Second statement, under the shared field-rights lock.
ProjectCandidate(q, a) ==
    /\ req[q].stage = "authorizing"
    /\ a \in req[q].located
    /\ Move(q, [req[q] EXCEPT
                  !.located = {},
                  !.evidence = IF Projectable(q, a)
                               THEN @ \cup {ActiveContent(a)} ELSE @])
    /\ fieldShared' = fieldShared \cup {q}
    /\ UNCHANGED pubShared

Authorized(q) ==
    req[q].stage = "authorizing" /\ req[q].todo = {} /\ req[q].located = {}

\* discover_one_hop from every Article projected so far.
Linked(q) ==
    {a \in Articles : \E e \in req[q].evidence : <<e.article, a>> \in Links}

\* One-hop expansion of an Acquire: linked Articles become candidates that
\* are authorized like the discovered ones and expand no further.
ExpandOneHop(q) ==
    /\ Authorized(q)
    /\ req[q].hop = "no"
    /\ req[q].evidence # {}
    /\ \E linked \in SUBSET Linked(q) :
          Move(q, [req[q] EXCEPT !.hop = "yes", !.todo = linked])
    /\ UNCHANGED lockVars

\* A delivery that trusts the epoch observed at the start.
FinalizeForDeliveryUnchecked(q) ==
    /\ Authorized(q)
    /\ CurrentMember(q)
    /\ \E kept \in SUBSET req[q].evidence :
          Move(q, [req[q] EXCEPT !.stage = "finalized", !.evidence = kept])
    /\ UNCHANGED lockVars

\* select_for_delivery keeps what the budget allows; finalize_for_delivery
\* empties content and scope unless the epoch is still the observed one.
FinalizeForDelivery(q) ==
    /\ Authorized(q)
    /\ EpochIsReadable(q)
    /\ \E kept \in SUBSET req[q].evidence :
          Move(q, [req[q] EXCEPT
                     !.stage = "finalized",
                     !.evidence = IF EpochIsCurrent(q) THEN kept ELSE {},
                     !.scope = ScopeIfCurrent(q)])
    /\ UNCHANGED lockVars

IssueCitation(q, e) ==
    /\ req[q].stage = "finalized"
    /\ e \in req[q].evidence \ req[q].locators
    /\ CurrentMember(q)
    /\ IsActiveContent(e)
    /\ Move(q, [req[q] EXCEPT !.locators = @ \cup {e}])
    /\ UNCHANGED lockVars

\* finalize_egress: an external profile needs a grant, and the grant the
\* current epoch; an open that found nothing asks for none.
FinalizeEgress(q) ==
    LET external == /\ EgressOf[q] = "external"
                    /\ KindOf[q] = "acquire" \/ req[q].evidence # {}
    IN  /\ req[q].stage = "finalized"
        /\ req[q].locators = req[q].evidence
        /\ external => EpochIsReadable(q) /\ EpochIsCurrent(q)
        /\ Move(q, [req[q] EXCEPT !.stage = "granted",
                                  !.grant = IF external THEN "issued" ELSE "none"])
        /\ UNCHANGED lockVars

Release(q) ==
    pubShared' = pubShared \ {q} /\ fieldShared' = fieldShared \ {q}

\* persist_context_run, for a reader who is still a member, and the commit.
PersistAndCommit(q) ==
    /\ req[q].stage = "granted"
    /\ CurrentMember(q)
    /\ Move(q, [req[q] EXCEPT !.stage = "committed", !.scope = {}])
    /\ Release(q)

\* Any refusal, error, timeout or crash before the commit rolls back.
FailRequest(q) ==
    /\ req[q].stage \in Active
    /\ Move(q, [IdleReq EXCEPT !.stage = "aborted"])
    /\ Release(q)

\* A redemption that does not compare the epoch again.
RedeemEgressGrantAnyEpoch(q) ==
    /\ req[q].stage = "committed"
    /\ req[q].grant = "issued"
    /\ now < req[q].checkedAt + PackageTtl
    /\ Move(q, [req[q] EXCEPT !.grant = "consumed"])
    /\ UNCHANGED lockVars

\* redeem of an egress grant: once, in time, in the epoch it was issued for.
RedeemEgressGrant(q) ==
    /\ req[q].stage = "committed"
    /\ req[q].grant = "issued"
    /\ now < req[q].checkedAt + PackageTtl
    /\ EpochIsCurrent(q)
    /\ Move(q, [req[q] EXCEPT !.grant = "consumed"])
    /\ UNCHANGED lockVars

RequestNext(q) ==
    \/ BeginRequest(q) \/ ReadScope(q) \/ PrepareAcquire(q) \/ Discover(q)
    \/ \E p \in Requests : \E e \in req[p].locators : RedeemCitation(q, p, e)
    \/ PrepareOpen(q)
    \/ \E a \in Articles : LocateCandidate(q, a) \/ ProjectCandidate(q, a)
    \/ ExpandOneHop(q) \/ FinalizeForDelivery(q)
    \/ \E e \in req[q].evidence : IssueCitation(q, e)
    \/ FinalizeEgress(q) \/ PersistAndCommit(q) \/ FailRequest(q)
    \/ RedeemEgressGrant(q)

Next ==
    \/ \E q \in Requests : RequestNext(q)
    \/ (PolicyNext \/ ProvisioningNext) /\ UNCHANGED <<pubShared, fieldShared, req>>

Spec == Init /\ [][Next]_vars

-----------------------------------------------------------------------------
(* Properties.                                                             *)

TypeOK ==
    /\ PolicyTypeOK
    /\ pubShared \subseteq Requests /\ fieldShared \subseteq Requests
    /\ req \in [Requests -> ReqRow]

\* Content the database would show the reader of q in this state, by every
\* rule at once: the active Revision, the Membership, the published policy,
\* the source and its version, the freshness of the ACL, the field right.
Permitted(q, e) ==
    /\ IsActiveContent(e)
    /\ Locatable(q, e.article)
    /\ Projectable(q, e.article)

\* Content leaves finalize_for_delivery only if every item of it is permitted
\* to the reader in the database state of the final epoch comparison, however
\* many statements and commits ago it was projected.
DeliveredContentIsPermitted ==
    [][\A q \in Requests :
         req[q].stage = "authorizing" /\ req'[q].stage = "finalized" =>
           \A e \in req'[q].evidence : Permitted(q, e)]_vars

\* Until its transaction ends, what a request has projected stays permitted
\* as long as the epoch it observed is current and its reader a member: the
\* epoch and the two shared locks cover every rule a projection relied on.
ProjectionsStayPermitted ==
    \A q \in Requests :
        req[q].stage \in Active /\ EpochIsCurrent(q) /\ CurrentMember(q) =>
          \A e \in req[q].evidence : Permitted(q, e)

\* An egress grant is consumed only while the policy still gives its reader
\* every Article in the Package: a revocation, a narrower policy, a tombstone
\* or a source change committed after the delivery makes it unredeemable.
RedeemedGrantIsPermitted ==
    [][\A q \in Requests :
         req[q].grant = "issued" /\ req'[q].grant = "consumed" =>
           \A e \in req[q].evidence :
              /\ PolicyGrants(e.article, ReaderOf[q])
              /\ policy[e.article].status = "resolved"
              /\ FreshAt(e.article, req[q].checkedAt)]_vars
=============================================================================
