---------------------------- MODULE MCBotDelivery ----------------------------
(* The surfaces a person meets, for TLC.  A behaviour is one of answers     *)
(* delivered to a chat through the ActionPlane (BotDelivery), of the model  *)
(* boundary in front of them (ModelBoundary), or of the minimal UI          *)
(* (UiConfirmations: an import, a policy or feedback); they share nothing   *)
(* and `part` says which.                                                   *)
EXTENDS BotDelivery, ModelBoundary, UiConfirmations, TLC

VARIABLE part

-----------------------------------------------------------------------------
(* BotDelivery.                                                            *)

MCFinalEffect == [t \in Turns |-> "finalize_reply"]
MCPayloads == Texts \cup {Working}

Symmetry == Permutations(Texts) \cup Permutations(GenerateCalls)

-----------------------------------------------------------------------------
(* ModelBoundary.                                                          *)

EvidenceNames == {"e1", "e2"}
UpToTwo(S) == {<<>>} \cup {<<a>> : a \in S} \cup {<<a, b>> : a, b \in S}

Mirrored == [kind |-> "mirrored", checked |-> 0, span |-> 0]
WeakFor(span) == [kind |-> "weak", checked |-> 0, span |-> span]
EvidenceAs(ref, lineage, acl) == [ref |-> ref, lineage |-> lineage, acl |-> acl]
Carried == {EvidenceAs(r, "package", Mirrored) : r \in EvidenceNames}
\* The names are interchangeable until the first piece is carried.
OrderedCarried == {s \in UpToTwo(Carried) : s # <<>> => s[1].ref = "e1"}
Blocks == [ref : EvidenceNames, cites : EvidenceNames]

Document(purpose, carried, blocks) ==
    [form |-> "exact", audience |-> "asker", purpose |-> purpose,
     coverage |-> "sufficient", evidence |-> carried, blocks |-> blocks]
Block(r) == [ref |-> r, cites |-> r]
Plain == Document("context.answer", <<EvidenceAs("e1", "package", Mirrored)>>, <<Block("e1")>>)

\* Every shape of up to two blocks over up to two pieces of Evidence, and
\* documents that fail one of the other checks.
Shapes ==
    {Document("context.answer", e, b) : e \in OrderedCarried, b \in UpToTwo(Blocks)}
    \cup {[Plain EXCEPT !.form = "altered"], [Plain EXCEPT !.audience = "other"],
          [Plain EXCEPT !.coverage = "gaps"], [Plain EXCEPT !.purpose = "citation.open"],
          [Plain EXCEPT !.evidence = <<EvidenceAs("e1", "other", Mirrored)>>]}
    \cup {[Plain EXCEPT !.evidence = <<EvidenceAs("e1", "package", WeakFor(n))>>] : n \in {1, 2}}

Closed == Document("context.answer", <<EvidenceAs("e1", "package", Mirrored),
                                       EvidenceAs("e2", "package", Mirrored)>>,
                   <<Block("e2"), Block("e1")>>)
MCDocuments == <<Shapes, {Closed}>>
MCCitationDocuments ==
    {[Plain EXCEPT !.purpose = "citation.open"], [Plain EXCEPT !.audience = "other"]}

MCOutputs ==
    {[citations |-> c, text |-> "bounded", usage |-> "within"] : c \in UpToTwo(EvidenceNames)}
    \cup {[citations |-> <<"e1">>, text |-> t, usage |-> u] :
            t \in {"blank", "bounded"}, u \in {"within", "over"}}

MCSkew == {0, 1}

Event(id, kind, issued, expires) ==
    [id |-> id, kind |-> kind, binding |-> "known", asker |-> "mapped", values |-> "exact",
     signature |-> "valid", issued |-> issued, expires |-> expires]
Asked == Event("q", "question", 0, 2)
MCEvents ==
    {Asked, Event("o", "citation_open", 1, 2), Event("long", "question", 0, 3),
     [Asked EXCEPT !.id = "u", !.binding = "unknown"], [Asked EXCEPT !.id = "m", !.asker = "unmapped"],
     [Asked EXCEPT !.id = "v", !.values = "altered"], [Asked EXCEPT !.id = "s", !.signature = "invalid"]}

\* A second question follows only the plain first one, and citations are
\* opened before the questions: the two share nothing but the identities.
MCBoundaryNext ==
    /\ BoundaryNext
    /\ Len(egress') = 2 => egress[1].doc = Plain
    /\ egress # <<>> => opening' = opening \/ gateway'.life # gateway.life

-----------------------------------------------------------------------------
(* UiConfirmations: the tabs preview and confirm one kind of thing, and     *)
(* what that kind does not read stays as it is.  The right tab holds copies *)
(* of the left one's tokens.  There are up to two acquisitions, and clock   *)
(* and Membership move before the first one.                                *)

KindOfPart == [uiImport |-> "file_import", uiPolicy |-> "article_policy",
               uiRating |-> "none"]

MCUiInit ==
    /\ UiInit
    /\ part # "uiImport" => uiSource = 1 /\ uiFile \in RichContents
    /\ part # "uiPolicy" => uiArticle.policy = CHOOSE p \in UiPolicies : TRUE

MCUiNext ==
    /\ UiNext
    /\ \A b \in Tabs : tab'[b].token.kind \in {"none", KindOfPart[part]}
    /\ tab'["right"].token \in {tab["right"].token, tab["left"].token, Unconfirmed}
    /\ part # "uiImport" => UNCHANGED <<uiNow, uiFile, uiSource>>
    /\ part # "uiPolicy" => UNCHANGED uiArticle
    /\ part # "uiRating" => UNCHANGED uiFeedback
    /\ Cardinality(uiAcquisitions') <= 2
    /\ uiAcquisitions # {} => UNCHANGED <<uiNow, uiMember, uiLogin>>

-----------------------------------------------------------------------------
MCInit ==
    /\ part \in {"delivery", "boundary"} \cup DOMAIN KindOfPart
    /\ Init /\ BoundaryInit /\ MCUiInit

MCNext ==
    \/ part = "delivery" /\ Next /\ UNCHANGED <<boundaryVars, uiVars>>
    \/ part = "boundary" /\ MCBoundaryNext /\ UNCHANGED <<vars, uiVars>>
    \/ part \in DOMAIN KindOfPart /\ MCUiNext /\ UNCHANGED <<vars, boundaryVars>>

MCSpec ==
    MCInit /\ [][MCNext /\ UNCHANGED part]_<<part, vars, boundaryVars, uiVars>>
=============================================================================
