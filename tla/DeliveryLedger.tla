--------------------------- MODULE DeliveryLedger ---------------------------
(***************************************************************************)
(* What one resolve request leaves behind, and who may read it later.      *)
(*                                                                         *)
(* A request of the HTTP carrier runs in one transaction.  It redeems the  *)
(* evidence of a private delivery, decides, issues citation locators and   *)
(* an egress grant, records the ContextRun with the DecisionAudit of an    *)
(* empty Package, and answers after the commit.  Identity issues and       *)
(* retires delivery evidence, the egress role consumes grants, retention   *)
(* deletes old locators, and a security operator reads one decision with a *)
(* one-use ticket.  Authorization itself is the subject of ContextRuntime: *)
(* here a decision is an arbitrary answer, one Revision of one Resource or *)
(* nothing.                                                                *)
(***************************************************************************)
EXTENDS Integers, Sequences, FiniteSets

CONSTANTS
    Decisions,        \* the requests of the run; each issues one decision_ref
    RequestIds,       \* X-Context-Request-Id values
    EvidenceRefs,     \* delivery evidence rows
    Operators,        \* calls of find_by_decision_ref
    OrgOfOperator,    \* the Organization each operator is verified for
    Home,             \* the Organization of the requests
    LedgerClock,      \* bound: last reading of the database clock
    LedgerEpochs,     \* bound: Policy Epochs
    HostSkew,         \* how far a host's clock may be from the database's
    Carriers,         \* the conditions requests arrive under
    CitationSkew,     \* tolerance of the citation functions (5 s)
    EvidenceTtl, PackageTtl, LocatorRetention, TicketTtl,
    EgressOf,         \* the egress profile serving each request
    GrantAttempts,    \* bound: redemptions tried per grant
    NotSet            \* no reference

\* The conditions a carrier checks before the request opens a transaction.
CarrierConditions ==
    [transport : {"closed", "invalid"}, credential : {"verified", "rejected"},
     requestId : {"valid", "invalid"},
     route : {"allow", "forbid", "rate_limit", "unavailable"},
     binding : {"direct", "private"}, organization : {"existing", "rejected"}]

ASSUME LedgerAssumption ==
    /\ Carriers \subseteq CarrierConditions
    /\ LedgerClock \in Nat /\ LedgerEpochs \in Nat \ {0}
    /\ HostSkew \subseteq Int /\ HostSkew # {} /\ CitationSkew \in Nat /\ GrantAttempts \in Nat
    /\ {EvidenceTtl, PackageTtl, LocatorRetention, TicketTtl} \subseteq Nat \ {0}
    /\ NotSet \notin EvidenceRefs \cup Decisions
    /\ RequestIds # {}
    /\ DOMAIN OrgOfOperator = Operators
    /\ EgressOf \in [Decisions -> {"internal", "external"}]

VARIABLES
    world,      \* clock, Policy Epoch, Membership and active Revision
    resolve,    \* the request of each decision
    ledger,     \* the committed rows
    reader      \* the operators' calls

ledgerVars == <<world, resolve, ledger, reader>>

-----------------------------------------------------------------------------
(* Rows.                                                                   *)

Times == {t + skew : t \in 0 .. LedgerClock, skew \in HostSkew}
Kinds == {"acquire", "continue", "open"}
NoRevision == 0

\* Closed answers of the carrier; "lost" is an answer that reached nobody.
Refusals == {"400", "401", "403", "422", "429", "500", "503"}
Answers == Refusals \cup {"resolved", "request_not_available",
                          "citation_not_available", "lost"}

\* delivery_evidence: first is first_redeemed_at.
Evidence == [rid : RequestIds, kind : {"acquire", "open"},
             epoch : 1 .. LedgerEpochs, issued : Times, expires : Int,
             first : {<<>>} \cup {<<t>> : t \in Times}]
Unredeemed == <<>>

\* context_run: an outcome is empty exactly when it carries no Evidence, and
\* a Package is finalized no earlier than its request was accepted.
RunRow ==
    [rid : RequestIds, kind : {"acquire", "open"}, evidence : EvidenceRefs \cup {NotSet},
     epoch : 1 .. LedgerEpochs, accepted : Times, finalized : Times, expires : Int,
     outcome : {"authorized", "empty"}, revision : Nat]
ContextRunRecord ==
    {r \in RunRow : /\ r.accepted <= r.finalized
                    /\ r.finalized < r.expires
                    /\ (r.outcome = "empty") <=> (r.revision = NoRevision)}

\* decision_audit: the epoch and the moment of its empty run.
DecisionAudit == [epoch : 1 .. LedgerEpochs, recorded : Times]

\* decision_audit_require_exact_empty_parent.
IsEmptyParent(run, audit) ==
    run.outcome = "empty" /\ run.epoch = audit.epoch /\ run.finalized = audit.recorded

\* citation_open_locator and egress_grant with its audit trail.
Locator == [revision : Nat \ {NoRevision}, issued : Times, expires : Int]
Grant == [epoch : 1 .. LedgerEpochs, issued : Times, expires : Int,
          trail : Seq({"issued", "consumed", "not_available"})]

\* A table is a function on the keys that have a row.
Insert(t, k, r) == [j \in DOMAIN t \cup {k} |-> IF j = k THEN r ELSE t[j]]
Without(t, K) == [j \in DOMAIN t \ K |-> t[j]]
NoRows == [j \in {} |-> j]

\* A request: what it asks, what it observed, and the rows its transaction
\* has written but not committed.
Idle == [stage |-> "idle", kind |-> "acquire", rid |-> CHOOSE i \in RequestIds : TRUE,
         evidence |-> NotSet, opens |-> NotSet, received |-> 0, epoch |-> 1,
         asOf |-> 0, revision |-> NoRevision, redeemed |-> "no", cited |-> "no",
         granted |-> "no", answer |-> "none"]
Stages == {"idle", "received", "acting", "trusted", "decided", "finalized",
           "cited", "granted", "recorded", "answered"}
InTransaction(d) ==
    resolve[d].stage \in Stages \ {"idle", "received", "answered"}

\* A ticket row belongs to the call that issued it.
IdleReader == [stage |-> "idle", org |-> Home, decision |-> NotSet,
               answer |-> "none", view |-> NoRows]

LedgerInit ==
    /\ world = [now |-> 0, epoch |-> 1, member |-> "active", revision |-> 1]
    /\ resolve = [d \in Decisions |-> Idle]
    /\ ledger = [evidence |-> NoRows, run |-> NoRows, audit |-> NoRows,
                 locator |-> NoRows, grant |-> NoRows, ticket |-> NoRows]
    /\ reader = [o \in Operators |-> IdleReader]

-----------------------------------------------------------------------------
(* The surroundings.                                                       *)

\* A host's clock() within the skew of the database clock.
HostClock == {world.now + skew : skew \in HostSkew}

LedgerTick ==
    /\ world.now < LedgerClock
    /\ world' = [world EXCEPT !.now = @ + 1]
    /\ UNCHANGED <<resolve, ledger, reader>>

AdvanceLedgerEpoch ==
    /\ world.epoch < LedgerEpochs
    /\ world' = [world EXCEPT !.epoch = @ + 1]
    /\ UNCHANGED <<resolve, ledger, reader>>

EndMembership ==
    /\ world.member = "active"
    /\ world' = [world EXCEPT !.member = "ended"]
    /\ UNCHANGED <<resolve, ledger, reader>>

\* A publication waits for the shared file-publication lock of every request.
PublishRevision ==
    /\ world.revision = 1
    /\ \A d \in Decisions : ~InTransaction(d)
    /\ world' = [world EXCEPT !.revision = 2]
    /\ UNCHANGED <<resolve, ledger, reader>>

-----------------------------------------------------------------------------
(* A request of the HTTP carrier.                                          *)

\* Identity that cannot be established: an open of a citation never tells
\* it apart from a citation that does not exist.
NotAuthenticated(kind) == IF kind = "open" THEN "citation_not_available" ELSE "401"

\* The answer to an error inside the transaction: an authority that fails is
\* never told apart from another, and only what no clause names escapes.
ClosedAnswer(error, kind) ==
    IF error \in {"membership", "evidence"} THEN NotAuthenticated(kind)
    ELSE IF error = "authority" THEN "503"
    ELSE IF error = "stopped" THEN "lost"
    ELSE "500"

\* All that is left of a request is its answer.
Answered(answer) == [Idle EXCEPT !.stage = "answered", !.answer = answer]

\* The request returns having written nothing.
Return(d, answer) ==
    /\ resolve' = [resolve EXCEPT ![d] = Answered(answer)]
    /\ UNCHANGED <<world, ledger, reader>>

\* An error inside the transaction: what the request wrote is gone.
Rollback(d, error) == Return(d, ClosedAnswer(error, resolve[d].kind))

Step(d, row) ==
    /\ resolve' = [resolve EXCEPT ![d] = row]
    /\ UNCHANGED <<world, ledger, reader>>

\* What the carrier decides before it opens a transaction: the body limit and
\* the closed JSON transport, the bearer credential, the request id header,
\* the route policy, then identity.
TransportAnswer(c) == IF c.transport = "invalid" THEN "400" ELSE "admitted"
CredentialAnswer(c) ==
    IF c.credential = "rejected" THEN "401"
    ELSE IF c.requestId = "invalid" THEN "422" ELSE "admitted"
RouteAnswer(c) ==
    IF c.route = "forbid" THEN "403"
    ELSE IF c.route = "rate_limit" THEN "429"
    ELSE IF c.route = "unavailable" THEN "503" ELSE "admitted"

\* Evidence is presented exactly on a private binding, never by a Continue,
\* and the Organization exists.
IdentityAnswer(kind, evidence, c) ==
    IF \/ evidence = NotSet /\ c.binding = "private"
       \/ evidence # NotSet /\ (kind = "continue" \/ c.binding = "direct")
       \/ c.organization = "rejected"
    THEN NotAuthenticated(kind) ELSE "admitted"

\* The first that refuses answers.
Admission(kind, evidence, c) ==
    IF TransportAnswer(c) # "admitted" THEN TransportAnswer(c)
    ELSE IF CredentialAnswer(c) # "admitted" THEN CredentialAnswer(c)
    ELSE IF RouteAnswer(c) # "admitted" THEN RouteAnswer(c)
    ELSE IdentityAnswer(kind, evidence, c)

\* resolve_context up to current_user_actor: received_at is read here.
Receive(d) ==
    /\ resolve[d].stage = "idle"
    /\ \E kind \in Kinds, rid \in RequestIds, e \in EvidenceRefs \cup {NotSet},
          c \in Carriers, t \in HostClock :
         LET answer == Admission(kind, e, c) IN
         IF answer = "admitted"
         THEN \E o \in (IF kind = "open" THEN Decisions ELSE {NotSet}) :
                Step(d, [Idle EXCEPT !.stage = "received", !.kind = kind, !.rid = rid,
                                     !.evidence = e, !.opens = o, !.received = t])
         ELSE Return(d, answer)

ActiveMember == world.member = "active"

\* current_user_actor: the Membership at received_at, the epoch, the Release
\* that serves this path's schema and the scope snapshot.
BeginActor(d) ==
    /\ resolve[d].stage = "received"
    /\ IF ~ActiveMember
       THEN Rollback(d, "membership")
       ELSE \/ Rollback(d, "authority")
            \/ Step(d, [resolve[d] EXCEPT !.stage = "acting", !.epoch = world.epoch])

\* Only the transaction that updated an evidence row holds its lock.
EvidenceLocked(e) ==
    \E d \in Decisions :
        InTransaction(d) /\ resolve[d].evidence = e /\ resolve[d].redeemed = "yes"

\* PrivateDeliveryEvidenceRedemption: what the carrier presents.
Presented(d) == [rid |-> resolve[d].rid, kind |-> resolve[d].kind,
                 epoch |-> resolve[d].epoch, at |-> resolve[d].received]
InWindow(row, t) == row.issued <= t /\ t < row.expires

\* A redemption that forgets the Policy Epoch.
RedeemableAtAnyEpoch(d) ==
    /\ resolve[d].evidence \in DOMAIN ledger.evidence
    /\ LET row == ledger.evidence[resolve[d].evidence]
           asked == Presented(d)
       IN  row.rid = asked.rid /\ row.kind = asked.kind /\ InWindow(row, asked.at)
    /\ ActiveMember

\* context_runtime_redeem_private_delivery_evidence: the exact bindings, the
\* window at the host's received_at, and the current Membership and epoch.
Redeemable(d) ==
    /\ resolve[d].evidence \in DOMAIN ledger.evidence
    /\ LET row == ledger.evidence[resolve[d].evidence]
           asked == Presented(d)
       IN  /\ row.rid = asked.rid /\ row.kind = asked.kind
           /\ row.epoch = asked.epoch /\ row.epoch = world.epoch
           /\ InWindow(row, asked.at)
    /\ ActiveMember

\* The delivery context: direct, or by redemption of the evidence.  What is
\* not redeemable ends the request: an open by a return, an Acquire by a
\* rollback, neither with anything written.
EstablishDelivery(d) ==
    /\ resolve[d].stage = "acting"
    /\ IF resolve[d].evidence = NotSet
       THEN Step(d, [resolve[d] EXCEPT !.stage = "trusted"])
       ELSE /\ ~EvidenceLocked(resolve[d].evidence)
            /\ IF Redeemable(d)
               THEN Step(d, [resolve[d] EXCEPT !.stage = "trusted", !.redeemed = "yes"])
               ELSE Rollback(d, "evidence")

\* A carrier without a capability: the content-free preflight, no run.
RefuseCapability(d) ==
    /\ resolve[d].stage = "trusted"
    /\ resolve[d].kind = "continue"
    /\ IF world.epoch = resolve[d].epoch /\ ActiveMember
       THEN Return(d, "request_not_available")
       ELSE Rollback(d, "authority")

\* context_runtime_redeem_citation_open_ref, for a locator any request left.
Opens(d, asOf) ==
    LET o == resolve[d].opens IN
    /\ o \in DOMAIN ledger.locator
    /\ asOf <= world.now + CitationSkew
    /\ ledger.locator[o].issued <= world.now
    /\ world.now < ledger.locator[o].expires
    /\ ledger.locator[o].revision = world.revision
    /\ ActiveMember

\* Runtime.resolve up to the sealed decision: as_of is the host's clock, and
\* authorization keeps the content or nothing.
Decide(d) ==
    /\ resolve[d].stage = "trusted"
    /\ resolve[d].kind # "continue"
    /\ \/ ~ActiveMember /\ Rollback(d, "authority")
       \/ ActiveMember /\ \E t \in HostClock :
         \E content \in {NoRevision} \cup
              (IF resolve[d].kind = "acquire" \/ Opens(d, t) THEN {world.revision} ELSE {}) :
           Step(d, [resolve[d] EXCEPT !.stage = "decided", !.asOf = t,
                                      !.revision = content])

\* finalize_for_delivery: the epoch read again, behind the Membership.
FinalizeDecision(d) ==
    /\ resolve[d].stage = "decided"
    /\ IF ActiveMember
       THEN Step(d, [resolve[d] EXCEPT
                       !.stage = "finalized",
                       !.revision = IF world.epoch = resolve[d].epoch THEN @ ELSE NoRevision])
       ELSE Rollback(d, "authority")

ExpiresAt(d) == resolve[d].asOf + PackageTtl

\* context_runtime_issue_citation_open_ref and the locator it stores.
CitationAccepted(d) ==
    /\ resolve[d].asOf <= world.now + CitationSkew
    /\ world.now < ExpiresAt(d)
    /\ resolve[d].revision = world.revision
    /\ ActiveMember
LocatorOf(d) ==
    [revision |-> resolve[d].revision, issued |-> resolve[d].asOf, expires |-> ExpiresAt(d)]

\* Locators written outside the request's transaction.
IssueCitationsAtOnce(d) ==
    /\ resolve[d].stage = "finalized"
    /\ IF resolve[d].revision = NoRevision
       THEN Step(d, [resolve[d] EXCEPT !.stage = "cited"])
       ELSE IF CitationAccepted(d)
       THEN /\ resolve' = [resolve EXCEPT ![d].stage = "cited", ![d].cited = "yes"]
            /\ ledger' = [ledger EXCEPT !.locator = Insert(@, d, LocatorOf(d))]
            /\ UNCHANGED <<world, reader>>
       ELSE Rollback(d, "authority")

\* One locator for the Evidence; a refusal ends the request.
IssueCitations(d) ==
    /\ resolve[d].stage = "finalized"
    /\ IF resolve[d].revision = NoRevision
       THEN Step(d, [resolve[d] EXCEPT !.stage = "cited"])
       ELSE IF CitationAccepted(d)
       THEN Step(d, [resolve[d] EXCEPT !.stage = "cited", !.cited = "yes"])
       ELSE Rollback(d, "authority")

\* context_runtime_issue_egress_grant: unlike a locator, a grant may not be
\* dated after the database clock, and it needs the current epoch.
GrantAccepted(d) ==
    /\ resolve[d].asOf <= world.now /\ world.now < ExpiresAt(d)
    /\ resolve[d].epoch = world.epoch
    /\ ActiveMember
GrantOf(d) ==
    [epoch |-> resolve[d].epoch, issued |-> resolve[d].asOf, expires |-> ExpiresAt(d),
     trail |-> <<"issued">>]

\* EgressGate.finalize: an external hop needs a grant, except for an open
\* that found nothing.
FinalizeLedgerEgress(d) ==
    LET r == resolve[d]
        wanted == EgressOf[d] = "external" /\ (r.kind = "acquire" \/ r.revision # NoRevision)
    IN  /\ r.stage = "cited"
        /\ IF ~wanted THEN Step(d, [r EXCEPT !.stage = "granted"])
           ELSE IF GrantAccepted(d) THEN Step(d, [r EXCEPT !.stage = "granted", !.granted = "yes"])
           ELSE Rollback(d, "authority")

\* build_context_run_records.
RunOf(d) ==
    LET r == resolve[d] IN
    [rid |-> r.rid, kind |-> r.kind, evidence |-> r.evidence, epoch |-> r.epoch,
     accepted |-> r.received, finalized |-> r.asOf, expires |-> ExpiresAt(d),
     outcome |-> IF r.revision = NoRevision THEN "empty" ELSE "authorized",
     revision |-> r.revision]

\* The audit of an empty run.
AuditOf(d) == [epoch |-> resolve[d].epoch, recorded |-> resolve[d].asOf]

\* persist_context_run: a Package dated before its request is an error no
\* handler closes, and the row policy asks for the Membership again.
PersistRun(d) ==
    /\ resolve[d].stage = "granted"
    /\ IF resolve[d].asOf < resolve[d].received THEN Rollback(d, "invalid")
       ELSE IF /\ ActiveMember
               /\ resolve[d].revision = NoRevision => IsEmptyParent(RunOf(d), AuditOf(d))
       THEN Step(d, [resolve[d] EXCEPT !.stage = "recorded"])
       ELSE Rollback(d, "authority")

\* The rows of one request, with the first redemption of its evidence.
Recorded(d) ==
    LET r == resolve[d]
        row == ledger.evidence[r.evidence]
    IN  [ledger EXCEPT
           !.evidence = IF r.redeemed = "no" \/ row.first # Unredeemed THEN @
                        ELSE Insert(@, r.evidence, [row EXCEPT !.first = <<r.received>>]),
           !.run = Insert(@, d, RunOf(d)),
           !.audit = IF r.revision # NoRevision THEN @ ELSE Insert(@, d, AuditOf(d)),
           !.locator = IF r.cited = "no" THEN @ ELSE Insert(@, d, LocatorOf(d)),
           !.grant = IF r.granted = "no" THEN @ ELSE Insert(@, d, GrantOf(d))]

\* The commit, then the answer that was built before it.  The answer may be
\* lost on the way, and a connection that breaks during COMMIT answers 503
\* although the rows are stored.
Commit(d) ==
    /\ resolve[d].stage = "recorded"
    /\ ledger' = Recorded(d)
    /\ \E answer \in {"lost", "503",
                       IF resolve[d].kind = "open" /\ resolve[d].revision = NoRevision
                       THEN "citation_not_available" ELSE "resolved"} :
         resolve' = [resolve EXCEPT ![d] = Answered(answer)]
    /\ UNCHANGED <<world, reader>>

\* A statement or the commit fails, or the process stops, and PostgreSQL rolls
\* all back.
FailResolve(d) ==
    /\ InTransaction(d)
    /\ \E error \in {"authority", "stopped"} : Rollback(d, error)

-----------------------------------------------------------------------------
(* Delivery evidence, egress grants and retention.                         *)

Write(table) == ledger' = table /\ UNCHANGED <<world, resolve, reader>>

\* PrivateDeliveryEvidenceIssuer: the row, dated by the issuer's clock.
EvidenceRow(t, rid, kind) ==
    [rid |-> rid, kind |-> kind, epoch |-> world.epoch, issued |-> t,
     expires |-> t + EvidenceTtl, first |-> Unredeemed]

\* context_identity_issue_private_delivery_evidence: one stored row per
\* request id, not dated in the database's future, for a current member.
EvidenceIssuable(rid, t) ==
    /\ \A f \in DOMAIN ledger.evidence : ledger.evidence[f].rid # rid
    /\ t <= world.now /\ world.now < t + EvidenceTtl
    /\ ActiveMember

IssueEvidence(e, rid, kind) ==
    /\ e \notin DOMAIN ledger.evidence
    /\ \E t \in HostClock :
         /\ EvidenceIssuable(rid, t)
         /\ Write([ledger EXCEPT !.evidence = Insert(@, e, EvidenceRow(t, rid, kind))])

\* Retention, by the database clock; it waits for a redemption in progress.
DeleteExpiredEvidence ==
    LET expired == {e \in DOMAIN ledger.evidence : ledger.evidence[e].expires <= world.now}
    IN  /\ expired # {}
        /\ \A e \in expired : ~EvidenceLocked(e)
        /\ Write([ledger EXCEPT !.evidence = Without(@, expired)])

OldLocators ==
    {d \in DOMAIN ledger.locator : ledger.locator[d].issued + LocatorRetention <= world.now}
DeleteExpiredLineage ==
    /\ OldLocators # {}
    /\ Write([ledger EXCEPT !.locator = Without(@, OldLocators)])

\* context_egress_redeem_grant: consumed once, with exact bindings, in its
\* window and epoch; any other attempt on the grant is written to its trail.
GrantRedeemable(g, exact) ==
    /\ exact = "yes"
    /\ \A i \in DOMAIN g.trail : g.trail[i] # "consumed"
    /\ g.issued <= world.now /\ world.now < g.expires
    /\ g.epoch = world.epoch
RedeemGrant(d, exact) ==
    /\ d \in DOMAIN ledger.grant
    /\ Len(ledger.grant[d].trail) <= GrantAttempts
    /\ Write([ledger EXCEPT !.grant[d].trail =
                 Append(@, IF GrantRedeemable(ledger.grant[d], exact)
                           THEN "consumed" ELSE "not_available")])

-----------------------------------------------------------------------------
(* The security operator's reader.                                         *)

ReaderStep(o, row) ==
    /\ reader' = [reader EXCEPT ![o] = row]
    /\ UNCHANGED <<world, resolve, ledger>>

\* ContextRunOperatorAuthority.authorize and the consumed authorization of
\* find_by_decision_ref: the verified Organization is the requested one.
AuthorizeOperator(o, org, d) ==
    /\ reader[o].stage = "idle"
    /\ OrgOfOperator[o] = org
    /\ ReaderStep(o, [IdleReader EXCEPT !.stage = "authorized", !.org = org,
                                        !.decision = d])

\* issue_context_run_operator_read_ticket: for a run of the Organization.
Ticketable(o) == reader[o].org = Home /\ reader[o].decision \in DOMAIN ledger.run
Ticketed(o) == [ledger EXCEPT !.ticket = Insert(@, o, world.now + TicketTtl)]

\* _issue_ticket on the control engine.  An error leaves it open whether the
\* ticket was committed.
IssueTicket(o) ==
    /\ reader[o].stage = "authorized"
    /\ \/ /\ Ticketable(o) /\ ledger' = Ticketed(o)
          /\ reader' = [reader EXCEPT ![o].stage = "issued"]
       \/ /\ ~Ticketable(o) /\ UNCHANGED ledger
          /\ reader' = [reader EXCEPT ![o].stage = "closing", ![o].answer = "nothing"]
       \/ /\ UNCHANGED ledger \/ (Ticketable(o) /\ ledger' = Ticketed(o))
          /\ reader' = [reader EXCEPT ![o].stage = "closing", ![o].answer = "unavailable"]
    /\ UNCHANGED <<world, resolve>>

\* What read_context_run_by_operator_ticket returns: the run, and the audit
\* its decision has or has not.
ViewOf(d) ==
    [run |-> ledger.run[d],
     audit |-> IF d \in DOMAIN ledger.audit THEN {ledger.audit[d]} ELSE {}]

\* read_context_run_by_operator_ticket deletes the ticket, expired or not, and
\* answers for one that was not.
ValidTicket(o) == o \in DOMAIN ledger.ticket /\ world.now < ledger.ticket[o]
Unticketed(o) == [ledger EXCEPT !.ticket = Without(@, {o})]
ShowView(o) ==
    reader' = [reader EXCEPT
                 ![o].stage = "closing",
                 ![o].view = IF ValidTicket(o) THEN ViewOf(reader[o].decision) ELSE NoRows,
                 ![o].answer = IF ValidTicket(o) THEN "view" ELSE "nothing"]

\* The read on the operator engine; an error leaves it open whether the
\* deletion was committed.
ReadByTicket(o) ==
    /\ reader[o].stage = "issued"
    /\ \/ ledger' = Unticketed(o) /\ ShowView(o)
       \/ /\ ledger' \in {ledger, Unticketed(o)}
          /\ reader' = [reader EXCEPT ![o].stage = "closing", ![o].answer = "unavailable"]
    /\ UNCHANGED <<world, resolve>>

\* _revoke_ticket in the finally block; its failure replaces a good answer.
RevokeTicket(o) ==
    /\ reader[o].stage = "closing"
    /\ \/ /\ ledger' = Unticketed(o)
          /\ reader' = [reader EXCEPT ![o].stage = "closed"]
       \/ /\ UNCHANGED ledger
          /\ reader' = [reader EXCEPT ![o].stage = "stranded", ![o].view = NoRows,
                                      ![o].answer = "unavailable"]
    /\ UNCHANGED <<world, resolve>>

\* The process stops; nothing revokes its ticket.
StopReader(o) ==
    /\ reader[o].stage \in {"authorized", "issued", "closing"}
    /\ ReaderStep(o, [reader[o] EXCEPT !.stage = "stranded", !.answer = "lost",
                                       !.view = NoRows])

ResolveStep(d) ==
    \/ Receive(d) \/ BeginActor(d) \/ EstablishDelivery(d) \/ RefuseCapability(d)
    \/ Decide(d) \/ FinalizeDecision(d) \/ IssueCitations(d)
    \/ FinalizeLedgerEgress(d) \/ PersistRun(d) \/ Commit(d) \/ FailResolve(d)

ReaderCall(o) ==
    \/ \E org \in {Home, OrgOfOperator[o]}, d \in Decisions : AuthorizeOperator(o, org, d)
    \/ IssueTicket(o) \/ ReadByTicket(o) \/ RevokeTicket(o) \/ StopReader(o)

LedgerNext ==
    \/ LedgerTick \/ AdvanceLedgerEpoch \/ EndMembership \/ PublishRevision
    \/ \E d \in Decisions : ResolveStep(d)
    \/ \E e \in EvidenceRefs, rid \in RequestIds, kind \in {"acquire", "open"} :
          IssueEvidence(e, rid, kind)
    \/ DeleteExpiredEvidence \/ DeleteExpiredLineage
    \/ \E d \in Decisions, exact \in {"yes", "no"} : RedeemGrant(d, exact)
    \/ \E o \in Operators : ReaderCall(o)

LedgerSpec == LedgerInit /\ [][LedgerNext]_ledgerVars

-----------------------------------------------------------------------------
(* Properties.                                                             *)

LedgerTypeOK ==
    /\ world \in [now : 0 .. LedgerClock, epoch : 1 .. LedgerEpochs,
                  member : {"active", "ended"}, revision : 1 .. 2]
    /\ \A d \in Decisions : resolve[d].stage \in Stages
                            /\ resolve[d].answer \in Answers \cup {"none"}
    /\ DOMAIN ledger.evidence \subseteq EvidenceRefs
    /\ \A e \in DOMAIN ledger.evidence : ledger.evidence[e] \in Evidence
    /\ \A d \in DOMAIN ledger.run : ledger.run[d] \in ContextRunRecord
    /\ \A d \in DOMAIN ledger.audit : ledger.audit[d] \in DecisionAudit
    /\ \A d \in DOMAIN ledger.locator : ledger.locator[d] \in Locator
    /\ \A d \in DOMAIN ledger.grant : ledger.grant[d] \in Grant
    /\ DOMAIN ledger.ticket \subseteq Operators

\* The answers, or none yet, of a request that has stored no row.
NothingStored == (Refusals \ {"503"}) \cup {"none", "request_not_available"}

\* However a request ends - refused, failed at any statement, unanswered or
\* answered - the ledger holds either all of its rows or none: a run that is
\* a valid context_run, an audit exactly for an empty run and equal to it, a
\* locator and a grant only with the run and the content they were issued
\* for.  A request that was answered with a Package has its run, and one that
\* was refused has left nothing; only a 503, which a COMMIT in doubt answers
\* too, and a lost answer leave it open which of the two it is
\* (resolve_context, current_user_actor, persist_context_run).
LedgerIsWhole ==
    \A d \in Decisions :
        LET recorded == d \in DOMAIN ledger.run
            run == ledger.run[d]
        IN  /\ resolve[d].answer = "resolved" => recorded
            /\ resolve[d].answer \in NothingStored => ~recorded
            /\ d \in DOMAIN ledger.audit <=> recorded /\ run.outcome = "empty"
            /\ d \in DOMAIN ledger.audit => IsEmptyParent(run, ledger.audit[d])
            /\ d \in DOMAIN ledger.locator =>
                 recorded /\ run.revision = ledger.locator[d].revision
            /\ d \in DOMAIN ledger.grant =>
                 /\ recorded /\ ledger.grant[d].epoch = run.epoch
                 /\ Cardinality({i \in DOMAIN ledger.grant[d].trail :
                                   ledger.grant[d].trail[i] = "consumed"}) <= 1
            /\ recorded => run \in ContextRunRecord

\* A run of a private delivery commits only while the evidence it redeemed
\* is still stored, for the same request and carrier and in the epoch of the
\* run, and marked as redeemed inside its window; the first redemption never
\* moves (context_runtime_redeem_private_delivery_evidence against retention
\* and against a second request with the same reference).  A decision is shown
\* only to an operator of its Organization, at the cost of a ticket that was
\* stored and unexpired and no longer is, and with the audit an empty run must
\* have; and a ticket outlives its call only when the call was cut off or could
\* not revoke it (find_by_decision_ref).
RunsAndReadsAreBacked ==
    [][/\ \A d \in DOMAIN ledger'.run \ DOMAIN ledger.run :
            LET run == ledger'.run[d] IN
            run.evidence # NotSet =>
              /\ run.evidence \in DOMAIN ledger'.evidence
              /\ LET row == ledger'.evidence[run.evidence] IN
                 /\ row.rid = run.rid /\ row.kind = run.kind /\ row.epoch = run.epoch
                 /\ row.first # Unredeemed
                 /\ row.issued <= row.first[1] /\ row.first[1] < row.expires
       /\ \A e \in DOMAIN ledger.evidence \cap DOMAIN ledger'.evidence :
            ledger.evidence[e].first # Unredeemed =>
              ledger'.evidence[e].first = ledger.evidence[e].first
       /\ \A o \in Operators :
            reader[o].answer # "view" /\ reader'[o].answer = "view" =>
              /\ o \in DOMAIN ledger.ticket /\ world.now < ledger.ticket[o]
              /\ o \notin DOMAIN ledger'.ticket
              /\ OrgOfOperator[o] = Home
              /\ Cardinality(reader'[o].view.audit)
                   = (IF reader'[o].view.run.outcome = "empty" THEN 1 ELSE 0)
       /\ \A o \in DOMAIN ledger'.ticket :
            reader'[o].stage \in {"issued", "closing", "stranded"}]_ledgerVars
=============================================================================
