---------------------------- MODULE ModelBoundary ----------------------------
(***************************************************************************)
(* How a private question reaches the model, and how a citation is opened. *)
(*                                                                         *)
(* The Bot verifies a provider event, resolves the question, admits the    *)
(* Package it gets back, and calls the model boundary, which consumes the  *)
(* Package's egress grant, calls the gateway once, validates what it said  *)
(* and records the outcome.  Every await is a step of its own: the clocks, *)
(* the Policy Epoch, a second caller, close() and the loss of the process  *)
(* come in between.  BotDelivery models the effects around one answer;     *)
(* this module models what it takes as given.                              *)
(***************************************************************************)
EXTENDS Integers, Sequences, FiniteSets

CONSTANTS
    ProviderEvents,    \* the events the provider sends, any of them repeatedly
    IngressAge,        \* maximumAgeSeconds
    IngressSkew,       \* maximumFutureSkewSeconds
    IngressLifetime,   \* maximumLifetimeSeconds
    Documents,         \* for each resolve of a question, the Packages it may answer with
    CitationDocuments, \* the same for the resolve of a citation
    PackageSpan,       \* ttlSeconds
    Openable,          \* evidence that carries a CitationOpenRef
    ProviderOutputs,   \* what the gateway may say
    GenerateCalls,     \* concurrent calls of generate
    BotSkew,           \* differences between the Bot's and the database's clock
    GatewayClock,      \* largest time explored
    GatewayEpochs,     \* largest Policy Epoch explored
    ProcessLives       \* number of Bot processes explored

\* The two events of the provider, with what their checks tell apart.
EventShape ==
    [id : STRING, kind : {"question", "citation_open"}, binding : {"known", "unknown"},
     asker : {"mapped", "unmapped"}, values : {"exact", "altered", "secret"},
     signature : {"valid", "invalid"}, issued : Nat, expires : Nat]

\* A v1 Package: its Evidence with lineage and source ACL, and its blocks.
DocumentShape ==
    [form : {"exact", "altered"}, audience : {"asker", "other"},
     purpose : {"context.answer", "citation.open"}, coverage : {"sufficient", "gaps"},
     evidence : Seq([ref : STRING, lineage : {"package", "other"},
                     acl : [kind : {"mirrored", "live", "weak"}, checked : Int, span : Int]]),
     blocks : Seq([ref : STRING, cites : STRING])]

\* What the gateway says: bounded, blank or oversized text, and its use.
OutputShape ==
    [citations : Seq(STRING), text : {"bounded", "blank", "oversized"},
     usage : {"within", "over"}]

ASSUME BoundaryAssumption ==
    /\ ProviderEvents \subseteq EventShape
    /\ Documents \in Seq(SUBSET DocumentShape)
    /\ CitationDocuments \subseteq DocumentShape
    /\ ProviderOutputs \subseteq OutputShape
    /\ {IngressAge, IngressSkew, IngressLifetime} \subseteq Nat
    /\ PackageSpan \in Nat \ {0}
    /\ BotSkew \subseteq Int
    /\ {GatewayClock, GatewayEpochs, ProcessLives} \subseteq Nat

VARIABLES
    gateway,    \* time, epoch, the process and whether the boundary is closed
    ingress,    \* the event identities this process has accepted
    desk,       \* the answer in progress
    opening,    \* the citation open in progress
    calls,      \* the calls of generate
    egress,     \* egress_grant with its model_egress_audit row
    outbox      \* answers the boundary returned as generated

boundaryVars == <<gateway, ingress, desk, opening, calls, egress, outbox>>

-----------------------------------------------------------------------------
(* Packages                                                                *)

RefsOf(s) == {s[i].ref : i \in DOMAIN s}
UniqueRefs(s) == Cardinality(RefsOf(s)) = Len(s)

\* Evidence of the Package's own run, decision, purpose, policy and epoch.
EvidenceIsOfPackage(doc) ==
    /\ doc.evidence # <<>>
    /\ UniqueRefs(doc.evidence)
    /\ \A i \in DOMAIN doc.evidence : doc.evidence[i].lineage = "package"

\* A weak source ACL proof has to cover the Package's whole window.
AclCovers(doc, asOf, now) ==
    \A i \in DOMAIN doc.evidence :
       LET acl == doc.evidence[i].acl
       IN  acl.kind = "weak" =>
             /\ acl.checked <= 0         \* checkedAt and expiresAt, from asOf
             /\ now < asOf + acl.span
             /\ PackageSpan <= acl.span

\* Block references are no longer compared with each other.
BlocksCloseRepeated(doc) ==
    /\ doc.blocks # <<>>
    /\ \A i \in DOMAIN doc.blocks :
         /\ doc.blocks[i].cites \in RefsOf(doc.evidence)
         /\ doc.blocks[i].ref = doc.blocks[i].cites
    /\ {doc.blocks[i].cites : i \in DOMAIN doc.blocks} = RefsOf(doc.evidence)

\* Every block cites one carried Evidence and is named after it, and no
\* Evidence is left without a block.
BlocksClose(doc) ==
    /\ doc.blocks # <<>>
    /\ UniqueRefs(doc.blocks)
    /\ \A i \in DOMAIN doc.blocks :
         /\ doc.blocks[i].cites \in RefsOf(doc.evidence)
         /\ doc.blocks[i].ref = doc.blocks[i].cites
    /\ {doc.blocks[i].cites : i \in DOMAIN doc.blocks} = RefsOf(doc.evidence)

\* requirePackage: the closed v1 document with its digest and size, current
\* at now, with its Evidence, their source ACLs and its blocks.
RequirePackage(doc, asOf, now) ==
    /\ doc.form = "exact"
    /\ asOf <= now /\ now < asOf + PackageSpan
    /\ EvidenceIsOfPackage(doc)
    /\ AclCovers(doc, asOf, now)
    /\ BlocksClose(doc)

\* The identity the Bot resolves under: the asker, at the epoch and for the
\* purpose its Delivery Evidence was issued with.
Binding(purpose) == [audience |-> "asker", epoch |-> 1, purpose |-> purpose]

\* exactCurrentPackage: for the binding's audience, epoch and purpose.
ExactCurrentPackage(doc, epoch, binding, asOf, now) ==
    /\ doc.audience = binding.audience
    /\ epoch = binding.epoch
    /\ doc.purpose = binding.purpose
    /\ doc.coverage = "sufficient"
    /\ doc.blocks # <<>> /\ doc.evidence # <<>>
    /\ asOf <= now /\ now < asOf + PackageSpan

-----------------------------------------------------------------------------
(* State                                                                   *)

\* The gateway threw; no document yet.
NoOutput == [citations |-> <<>>, text |-> "none", usage |-> "within"]
NoDocument == [form |-> "none", audience |-> "none", purpose |-> "none",
               coverage |-> "none", evidence |-> <<>>, blocks |-> <<>>]

IdleDesk == [stage |-> "idle", grant |-> 0]
IdleOpening == [stage |-> "idle", doc |-> NoDocument, asOf |-> 0, epoch |-> 0]
IdleCall == [stage |-> "idle", grant |-> 0, output |-> NoOutput]

BoundaryInit ==
    /\ gateway = [now |-> 0, epoch |-> 1, life |-> 1, boundary |-> "open"]
    /\ ingress = {}
    /\ desk = IdleDesk
    /\ opening = IdleOpening
    /\ calls = [c \in GenerateCalls |-> IdleCall]
    /\ egress = <<>>
    /\ outbox = {}

BotClock == {gateway.now + s : s \in BotSkew} \cap Nat

GatewayTick ==
    /\ gateway.now < GatewayClock
    /\ gateway' = [gateway EXCEPT !.now = @ + 1]
    /\ UNCHANGED <<ingress, desk, opening, calls, egress, outbox>>

AdvanceGatewayEpoch ==
    /\ gateway.epoch < GatewayEpochs
    /\ gateway' = [gateway EXCEPT !.epoch = @ + 1]
    /\ UNCHANGED <<ingress, desk, opening, calls, egress, outbox>>

\* close() ends the boundary's pool; the process may go on.
CloseBoundary ==
    /\ gateway.boundary = "open"
    /\ gateway' = [gateway EXCEPT !.boundary = "closed"]
    /\ UNCHANGED <<ingress, desk, opening, calls, egress, outbox>>

\* A process is lost with its identities, turns and calls; the next starts.
RestartBot ==
    /\ gateway.life < ProcessLives
    /\ gateway' = [gateway EXCEPT !.life = @ + 1, !.boundary = "open"]
    /\ ingress' = {}
    /\ desk' = IdleDesk
    /\ opening' = IdleOpening
    /\ calls' = [c \in GenerateCalls |-> IdleCall]
    /\ UNCHANGED <<egress, outbox>>

-----------------------------------------------------------------------------
(* The provider's events                                                   *)

\* A turn or a citation the identity twin holds, asked as it is bound there.
IsBound(e) == e.binding = "known"

\* The asker is mapped to the Membership and User of the binding.
IsMapped(e) == e.asker = "mapped"

\* The window an event may be used in, by the Bot's clock.
EventIsTimely(e, t) ==
    /\ e.issued < e.expires
    /\ e.expires - e.issued <= IngressLifetime
    /\ t - e.issued <= IngressAge
    /\ e.issued - t <= IngressSkew
    /\ t < e.expires

\* verifyQuestionEvent, verifyCitationEvent: a known turn and asker, a fresh
\* identity, every bound value exact, no configured secret, timely, signed.
VerifiesEvent(e, t) ==
    /\ IsBound(e) /\ IsMapped(e)
    /\ e.id \notin ingress
    /\ e.values = "exact"
    /\ EventIsTimely(e, t)
    /\ e.signature = "valid"

\* answerFeishuEvent: a turn already being answered is not started again.
AnswerFeishuEvent(e) ==
    /\ e.kind = "question"
    /\ \E t \in BotClock : VerifiesEvent(e, t)
    /\ ingress' = ingress \cup {e.id}
    /\ desk' = IF desk.stage = "idle" THEN [desk EXCEPT !.stage = "resolve"] ELSE desk
    /\ UNCHANGED <<gateway, opening, calls, egress, outbox>>

OpenFeishuCitationEvent(e) ==
    /\ e.kind = "citation_open"
    /\ opening.stage = "idle"
    /\ \E t \in BotClock : VerifiesEvent(e, t)
    /\ ingress' = ingress \cup {e.id}
    /\ opening' = [opening EXCEPT !.stage = "resolve"]
    /\ UNCHANGED <<gateway, desk, calls, egress, outbox>>

-----------------------------------------------------------------------------
(* Resolving                                                               *)

\* The Runtime answers at the binding's epoch with a Package and a model
\* grant over the Package's window; the reply is on its way.
ResolveQuestion ==
    /\ desk.stage = "resolve"
    /\ Len(egress) < Len(Documents)
    /\ gateway.epoch = Binding("context.answer").epoch
    /\ \E doc \in Documents[Len(egress) + 1] :
         egress' = Append(egress, [doc |-> doc, issued |-> gateway.now, epoch |-> gateway.epoch,
                                   state |-> "issued", requests |-> 0,
                                   outcome |-> "none", citations |-> <<>>])
    /\ desk' = [stage |-> "reply", grant |-> Len(egress) + 1]
    /\ UNCHANGED <<gateway, ingress, opening, calls, outbox>>

\* No answer, another answer, or no model grant: delivery_not_available.
ResolveFails ==
    /\ desk.stage \in {"resolve", "reply"}
    /\ desk' = IdleDesk
    /\ UNCHANGED <<gateway, ingress, opening, calls, egress, outbox>>

\* prepareAuthorizedModelInput, at one reading of the clock.
Authorizes(g, t) ==
    /\ ExactCurrentPackage(g.doc, g.epoch, Binding("context.answer"), g.issued, t)
    /\ RequirePackage(g.doc, g.issued, t)

PrepareAuthorizedModelInput ==
    /\ desk.stage = "reply"
    /\ LET g == egress[desk.grant]
       IN  \E t \in BotClock :
             desk' = IF Authorizes(g, t)
                     THEN [desk EXCEPT !.stage = "authorized"] ELSE IdleDesk
    /\ UNCHANGED <<gateway, ingress, opening, calls, egress, outbox>>

\* openCitation has the same resolve and the same check of the Package; what
\* it shows is the Package itself.
ResolveCitation(doc) ==
    /\ opening.stage = "resolve"
    /\ gateway.epoch = Binding("citation.open").epoch
    /\ opening' = [stage |-> "reply", doc |-> doc, asOf |-> gateway.now, epoch |-> gateway.epoch]
    /\ UNCHANGED <<gateway, ingress, desk, calls, egress, outbox>>

OpenCitation ==
    /\ opening.stage = "reply"
    /\ \E t \in BotClock :
         opening' = IF ExactCurrentPackage(opening.doc, opening.epoch,
                                           Binding("citation.open"), opening.asOf, t)
                    THEN [opening EXCEPT !.stage = "opened"] ELSE IdleOpening
    /\ UNCHANGED <<gateway, ingress, desk, calls, egress, outbox>>

CitationNotAvailable ==
    /\ opening.stage \in {"resolve", "reply"}
    /\ opening' = IdleOpening
    /\ UNCHANGED <<gateway, ingress, desk, calls, egress, outbox>>

-----------------------------------------------------------------------------
(* generate                                                                *)

EndCall(c) == calls' = [calls EXCEPT ![c] = [IdleCall EXCEPT !.stage = "refused"]]

\* The checks before the first await: not closed, and unexpired.
Generate(c) ==
    /\ calls[c].stage = "idle"
    /\ desk.stage = "authorized"
    /\ \E t \in BotClock :
         IF gateway.boundary = "open" /\ t < egress[desk.grant].issued + PackageSpan
         THEN calls' = [calls EXCEPT ![c] = [@ EXCEPT !.stage = "redeem", !.grant = desk.grant]]
         ELSE EndCall(c)
    /\ UNCHANGED <<gateway, ingress, desk, opening, egress, outbox>>

\* context_egress_redeem_grant: once, in its window and epoch.
Redeems(g) ==
    /\ g.state = "issued"
    /\ g.issued <= gateway.now /\ gateway.now < g.issued + PackageSpan
    /\ g.epoch = gateway.epoch

\* The statement may be refused, fail, or commit and lose its answer.
RedeemModelGrant(c) ==
    LET g == calls[c].grant
    IN  /\ calls[c].stage = "redeem"
        /\ \/ /\ gateway.boundary = "open" /\ Redeems(egress[g])
              /\ egress' = [egress EXCEPT ![g] = [@ EXCEPT !.state = "consumed"]]
              /\ \/ calls' = [calls EXCEPT ![c] = [@ EXCEPT !.stage = "invoke"]]
                 \/ EndCall(c)
           \/ EndCall(c) /\ UNCHANGED egress
        /\ UNCHANGED <<gateway, ingress, desk, opening, outbox>>

\* The gateway is called with the blocks of the admitted Package; it answers
\* or throws.
InvokeModel(c, output) ==
    LET g == calls[c].grant
    IN  /\ calls[c].stage = "invoke"
        /\ egress' = [egress EXCEPT ![g] = [@ EXCEPT !.requests = egress[g].requests + 1]]
        /\ calls' = [calls EXCEPT ![c] = [@ EXCEPT !.stage = "record", !.output = output]]
        /\ UNCHANGED <<gateway, ingress, desk, opening, outbox>>

\* The citation loop: it stops at the first reference that is repeated, not
\* carried or cannot be opened.
CitationsAreValid(doc, citations) ==
    \A i \in DOMAIN citations :
       /\ citations[i] \in RefsOf(doc.evidence) \cap Openable
       /\ \A j \in 1 .. i - 1 : citations[j] # citations[i]

ValidOutput(doc, output) ==
    /\ output.text = "bounded" /\ output.usage = "within"
    /\ Len(output.citations) <= Len(doc.evidence)
    /\ CitationsAreValid(doc, output.citations)

\* answerPayloadDigest: nonblank text, and references that open, once each.
IsAnswerPayload(output) ==
    LET refs == {output.citations[i] : i \in DOMAIN output.citations}
    IN  /\ output.text # "blank"
        /\ refs \subseteq Openable
        /\ Cardinality(refs) = Len(output.citations)

OutcomeCategory(doc, output) ==
    IF output.text = "none" THEN "provider_unavailable"
    ELSE IF ValidOutput(doc, output) /\ IsAnswerPayload(output) THEN "generated"
    ELSE "output_rejected"

\* context_egress_record_model_outcome: a consumed grant without a row.
MayRecord(g) ==
    gateway.boundary = "open" /\ g.state = "consumed" /\ g.outcome = "none"

\* The answer is returned whether or not its outcome was recorded.
ReturnsGenerated(category, recorded) == category = "generated"

\* An outcome not known to be recorded is no answer.
ReturnsAnswer(category, recorded) == category = "generated" /\ recorded

\* The row may be stored and the statement's reply lost.
RecordModelOutcome(c) ==
    LET k == calls[c].grant
        output == calls[c].output
        category == OutcomeCategory(egress[k].doc, output)
        citations == IF category = "generated" THEN output.citations ELSE <<>>
    IN  /\ calls[c].stage = "record"
        /\ \E stored, recorded \in BOOLEAN :
             /\ stored => MayRecord(egress[k])
             /\ recorded => stored
             /\ egress' = IF stored
                          THEN [egress EXCEPT ![k] = [@ EXCEPT !.outcome = category,
                                                               !.citations = citations]]
                          ELSE egress
             /\ IF ReturnsAnswer(category, recorded)
                THEN /\ calls' = [calls EXCEPT ![c] = [@ EXCEPT !.stage = "generated"]]
                     /\ outbox' = outbox \cup {[grant |-> k, citations |-> citations]}
                ELSE EndCall(c) /\ UNCHANGED outbox
        /\ UNCHANGED <<gateway, ingress, desk, opening>>

\* The answer is over when its calls are.
FinishAnswer ==
    /\ desk.stage = "authorized"
    /\ \E c \in GenerateCalls : calls[c].stage # "idle"
    /\ \A c \in GenerateCalls : calls[c].stage \in {"idle", "refused", "generated"}
    /\ desk' = IdleDesk
    /\ calls' = [c \in GenerateCalls |-> IdleCall]
    /\ UNCHANGED <<gateway, ingress, opening, egress, outbox>>

-----------------------------------------------------------------------------
ModelCallStep(c) ==
    \/ Generate(c)
    \/ RedeemModelGrant(c)
    \/ \E output \in ProviderOutputs \cup {NoOutput} : InvokeModel(c, output)
    \/ RecordModelOutcome(c)

BoundaryNext ==
    \/ GatewayTick
    \/ AdvanceGatewayEpoch
    \/ CloseBoundary
    \/ RestartBot
    \/ \E e \in ProviderEvents : AnswerFeishuEvent(e) \/ OpenFeishuCitationEvent(e)
    \/ ResolveQuestion
    \/ \E doc \in CitationDocuments : ResolveCitation(doc)
    \/ ResolveFails
    \/ PrepareAuthorizedModelInput
    \/ OpenCitation
    \/ CitationNotAvailable
    \/ \E c \in GenerateCalls : ModelCallStep(c)
    \/ FinishAnswer

BoundarySpec == BoundaryInit /\ [][BoundaryNext]_boundaryVars

-----------------------------------------------------------------------------
(* Properties                                                              *)

BoundaryTypeOK ==
    /\ gateway.now \in 0 .. GatewayClock /\ gateway.epoch \in 1 .. GatewayEpochs
    /\ desk.grant \in 0 .. Len(egress)
    /\ \A c \in GenerateCalls : calls[c].grant \in 0 .. Len(egress)

\* A document whose blocks and Evidence correspond one to one, each block
\* resting on the Evidence it is named after.
IsClosed(doc) ==
    /\ Len(doc.blocks) = Len(doc.evidence)
    /\ \E f \in [DOMAIN doc.blocks -> DOMAIN doc.evidence] :
         /\ \A i, j \in DOMAIN doc.blocks : f[i] = f[j] => i = j
         /\ \A i \in DOMAIN doc.blocks :
              doc.blocks[i].cites = doc.evidence[f[i]].ref

\* However calls of generate overlap, whatever expires or closes between
\* their awaits and however often the process restarts, a grant lets at most
\* one request through to the model, and what that request carries is a
\* Package for the asker whose blocks and Evidence match one to one
\* (requirePackage, ModelGenerationBoundary.generate).
ModelCallsAreGranted ==
    \A k \in DOMAIN egress :
       LET g == egress[k]
       IN  /\ g.requests <= 1
           /\ g.requests = 1 =>
                /\ g.state = "consumed" /\ g.epoch = Binding("context.answer").epoch
                /\ g.doc.audience = "asker" /\ g.doc.purpose = "context.answer"
                /\ IsClosed(g.doc)

\* An answer leaves the boundary only with a stored "generated" row for its
\* own grant, and every citation it shows can be opened, names Evidence of
\* the Package that was sent, and appears once; a call whose row could not be
\* stored returns nothing (the citation loop and #recordOutcome of generate).
AnswersCiteTheirPackage ==
    \A a \in outbox :
       LET g == egress[a.grant]
       IN  /\ g.requests = 1 /\ g.outcome = "generated" /\ g.citations = a.citations
           /\ Cardinality({a.citations[i] : i \in DOMAIN a.citations}) = Len(a.citations)
           /\ \A i \in DOMAIN a.citations : a.citations[i] \in RefsOf(g.doc.evidence) \cap Openable
=============================================================================
