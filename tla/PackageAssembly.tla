--------------------------- MODULE PackageAssembly ---------------------------
(***************************************************************************)
(* What Runtime.resolve computes for one request between its gates: the    *)
(* budget meter, the bounded embedding call on a thread of its own,        *)
(* discovery, fusion, the one-hop expansion in pages, the authorized       *)
(* ranking, the packing to the budget, and the usage that is published.    *)
(*                                                                         *)
(* ContextRuntime models when the policy is read and may change; here a    *)
(* policy is the set of Articles the Kernel admits for this request, fixed *)
(* while the request runs, except for the last epoch check.  A candidate   *)
(* is a number, and candidates are compared as their sort keys are.        *)
(***************************************************************************)
EXTENDS Integers, FiniteSets, Sequences, SequencesExt

CONSTANTS
    Refs,             \* CandidateRef, in the order of _candidate_sort_key
    Papers,           \* the Articles of the candidates
    PaperOf,          \* the Article of a candidate
    BytesOf,          \* the UTF-8 length of a projected body
    ScalarsOf,        \* its Unicode scalars: the tokens of the v1 tokenizer
    OverlapOf,        \* how many of the query's distinct words it has
    QueryWords,       \* the distinct words of the query
    QueryTokens,      \* the tokens of the prefixed query
    Hidden,           \* candidates no locator or field right lets through
    ServerBudget,     \* server_budget
    RequestedBudgets, \* package_budget of the request; 0 is an absent dimension
    Scopes,           \* effective scopes: sets of Articles
    Matches,          \* [Lookups -> [Refs -> Nat]]: how well a Fragment matches
    DiscoveryLimit,   \* limit of a full-text or vector lookup
    LinkGraphs,       \* [Papers -> Seq(Papers)]: revision_link_edge, in order
    SubmissionLimit,  \* candidate_submission_limit
    HopCeiling,       \* the 64 of graph_limit
    PageLimit,        \* one_hop_scanned_page_limit
    EmbedDeadline,    \* elapsed_ms of QUERY_EMBEDDING_MAXIMUM_USAGE
    RankScale         \* a common multiple of the positions: scores are exact

Dimensions == {"tokens", "calls", "cost", "elapsed"}
Usage == [Dimensions -> Nat]
Lookups == {"exact_phrase", "fts", "vector"}

\* extract_revision_links and revision_link_edge: ordered targets, each once.
LinkGraphIsValid(graph) == \A p \in Papers : IsInjective(graph[p])

ASSUME AssemblyAssumption ==
    /\ Refs \subseteq Nat \ {0}
    /\ PaperOf \in [Refs -> Papers]
    /\ BytesOf \in [Refs -> Nat \ {0}] /\ ScalarsOf \in [Refs -> Nat \ {0}]
    /\ \A r \in Refs : ScalarsOf[r] <= BytesOf[r]
    /\ OverlapOf \in [Refs -> 0..QueryWords]
    /\ QueryWords \in Nat \ {0} /\ QueryTokens \in Nat \ {0}
    /\ Hidden \subseteq Refs
    /\ ServerBudget \in [Dimensions -> Nat \ {0}]
    /\ RequestedBudgets \subseteq [Dimensions -> Nat]
    /\ Scopes \subseteq SUBSET Papers
    /\ Matches \subseteq [Lookups -> [Refs -> Nat]]
    /\ \A graph \in LinkGraphs : LinkGraphIsValid(graph)
    /\ DiscoveryLimit \in Nat \ {0}
    /\ SubmissionLimit \in 1..512 /\ HopCeiling \in 1..64
    /\ PageLimit \in Nat \ {0} /\ EmbedDeadline \in Nat
    /\ RankScale \in Nat
    /\ \A p \in 1..Cardinality(Refs) : RankScale % p = 0

VARIABLES
    ask,   \* the request and the release it runs under
    work,  \* the frame of Runtime.resolve
    call   \* the thread of the embedding call

assemblyVars == <<ask, work, call>>

-----------------------------------------------------------------------------
(* PackageBudgetMeter.                                                     *)

NoUsage == [d \in Dimensions |-> 0]
AddUsage(u, v) == [d \in Dimensions |-> u[d] + v[d]]
SubtractUsage(u, v) == [d \in Dimensions |-> u[d] - v[d]]
FitsIn(u, budget) == \A d \in Dimensions : u[d] <= budget[d]
TokensOnly(n) == [NoUsage EXCEPT !["tokens"] = n]

\* effective_package_budget: the caller only narrows.
RequestedBudget(requested) ==
    [d \in Dimensions |-> IF requested[d] = 0 THEN ServerBudget[d] ELSE requested[d]]
EffectiveBudget(requested) ==
    [d \in Dimensions |->
        IF requested[d] = 0 \/ requested[d] > ServerBudget[d]
        THEN ServerBudget[d] ELSE requested[d]]

\* _reserve: what is used, what is reserved and the new maximum together.
CanReserve(meter, maximum) ==
    FitsIn(AddUsage(AddUsage(meter.usage, meter.reserved), maximum),
           meter.budget)
Reserved(meter, maximum) ==
    [meter EXCEPT !.reserved = AddUsage(meter.reserved, maximum)]

\* _commit and _cancel of the reservation of this maximum.
Committed(meter, maximum, actual) ==
    [meter EXCEPT !.reserved = SubtractUsage(meter.reserved, maximum),
                  !.usage = AddUsage(meter.usage, actual)]
Cancelled(meter, maximum) ==
    [meter EXCEPT !.reserved = SubtractUsage(meter.reserved, maximum)]

\* count_tokens: a meter without a tokenizer counts none.
CountTokens(schema, n) == IF schema = "v1" THEN n ELSE 0

EmbedUsage(schema, elapsed) ==
    [d \in Dimensions |->
        CASE d = "tokens" -> CountTokens(schema, QueryTokens)
          [] d = "calls" -> 1
          [] d = "cost" -> 1
          [] d = "elapsed" -> elapsed]
EmbedMaximum == EmbedUsage(ask.schema, EmbedDeadline)

-----------------------------------------------------------------------------
(* The lookups of an index, on the request's transaction.                  *)

\* discover_fts and discover_vector: the best matches in scope, up to the
\* limit; discover_exact_phrase: every match, in the order of its key.
Matching(papers, match) == {r \in Refs : PaperOf[r] \in papers /\ match[r] > 0}
BestFirst(found, match) ==
    SetToSortSeq(found, LAMBDA r, s : match[r] > match[s] \/ (match[r] = match[s] /\ r < s))
Lookup(k, scope, match) ==
    LET found == Matching(scope, match)
    IN  IF k = "exact_phrase" THEN SetToSortSeq(Matching(Papers, match), <)
        ELSE SubSeq(BestFirst(found, match), 1,
                    IF Cardinality(found) < DiscoveryLimit THEN Cardinality(found)
                    ELSE DiscoveryLimit)

\* require_bounded_discovery_request: the limits a plan asks for.
PlannedLimit(index) == DiscoveryLimit * Cardinality(index \ {"exact_phrase"})

-----------------------------------------------------------------------------
(* Fusion before the Kernel, ranking after it.                             *)

\* fuse_candidate_evidence: a ranker's first position for each candidate.
Positions(list) ==
    [r \in ToSet(list) |-> CHOOSE i \in DOMAIN list :
        list[i] = r /\ \A j \in 1..(i - 1) : list[j] # r]
FuseEvidence(lists) == [k \in DOMAIN lists |-> Positions(lists[k])]
RankedBy(evidence) == UNION {DOMAIN evidence[k] : k \in DOMAIN evidence}

\* Positions over the admitted candidates alone, 1, 2, ... for each ranker.
RawPositions(positions, admitted) ==
    [r \in DOMAIN positions \cap admitted |-> positions[r]]
Compact(positions, admitted) ==
    [r \in DOMAIN positions \cap admitted |->
        1 + Cardinality({s \in DOMAIN positions \cap admitted :
                            positions[s] < positions[r]})]

\* join_authorized_ranking, with the uniform weights of UNIFORM_RANKER_WEIGHTS
\* and HYBRID_RANKER_WEIGHTS: a reciprocal score over compacted positions,
\* ties by sort key, a middle rank for a projection without evidence.
FusedScore(evidence, admitted, r) ==
    LET Term(k) == LET p == Compact(evidence[k], admitted)
                   IN  IF r \in DOMAIN p THEN RankScale \div p[r] ELSE 0
    IN  MapThenSumSet(Term, DOMAIN evidence)
AuthorizedRank(evidence, admitted) ==
    LET ranked == admitted \cap RankedBy(evidence)
        score == [r \in ranked |-> FusedScore(evidence, admitted, r)]
        Before(s, r) == score[s] > score[r] \/ (score[s] = score[r] /\ s < r)
        rank == [r \in ranked |-> 2 * Cardinality({s \in ranked : Before(s, r)}) + 1]
        neutral == IF ranked = {} THEN 1 ELSE Cardinality(ranked)
    IN  [r \in admitted |-> IF r \in ranked THEN rank[r] ELSE neutral]
JoinAuthorizedRanking(evidence, admitted) ==
    LET rank == AuthorizedRank(evidence, admitted)
    IN  SetToSortSeq(admitted,
            LAMBDA r, s : rank[r] < rank[s] \/ (rank[r] = rank[s] /\ r < s))

\* rank_authorized_one_hop: a strict majority of the query's words.
RankOneHop(expanded) ==
    LET relevant == {r \in expanded : 2 * OverlapOf[r] > QueryWords}
        Before(s, r) == OverlapOf[s] > OverlapOf[r]
                        \/ (OverlapOf[s] = OverlapOf[r] /\ s < r)
    IN  [r \in relevant |-> 1 + Cardinality({s \in relevant : Before(s, r)})]

\* select_authorized_ranking: what no longer fits is skipped, not the end.
SizeOf(refs) == FoldLeft(LAMBDA n, r : n + BytesOf[r], 0, refs)
ScalarsIn(refs) == FoldLeft(LAMBDA n, r : n + ScalarsOf[r], 0, refs)
SelectWithin(refs, ceiling) ==
    FoldLeft(LAMBDA kept, r :
                IF SizeOf(kept) + BytesOf[r] > ceiling THEN kept
                ELSE Append(kept, r), <<>>, refs)

-----------------------------------------------------------------------------
(* The link graph.                                                         *)

\* context_runtime_discover_one_hop before its page is cut: the Fragments of
\* linked and of linking Articles, once each and no anchor, outgoing links
\* first, then by the order of the edge, then of the Fragment.
LinkRow ==
    [root : Papers, dir : {0, 1}, edge : 1..Cardinality(Papers), ref : Refs]
LinkedRows(graph, anchors) ==
    LET HasEdge(p, i, q) == i \in DOMAIN graph[p] /\ graph[p][i] = q
    IN  {row \in LinkRow :
            /\ row.ref \notin anchors
            /\ row.root \in {PaperOf[a] : a \in anchors}
            /\ IF row.dir = 0 THEN HasEdge(row.root, row.edge, PaperOf[row.ref])
               ELSE HasEdge(PaperOf[row.ref], row.edge, row.root)}
OrdinalOf(r) == Cardinality({s \in Refs : PaperOf[s] = PaperOf[r] /\ s < r})
RowBefore(x, y) ==
    \/ x.dir < y.dir
    \/ x.dir = y.dir /\ x.edge < y.edge
    \/ /\ x.dir = y.dir /\ x.edge = y.edge
       /\ \/ OrdinalOf(x.ref) < OrdinalOf(y.ref)
          \/ OrdinalOf(x.ref) = OrdinalOf(y.ref) /\ x.ref < y.ref
OneHop(graph, anchors) ==
    LET rows == LinkedRows(graph, anchors)
        Of(r) == CHOOSE x \in rows :
                    x.ref = r /\ \A y \in rows : y.ref = r => ~RowBefore(y, x)
    IN  SetToSortSeq({Of(r) : r \in {x.ref : x \in rows}}, RowBefore)

\* LIMIT requested_limit OFFSET requested_offset
Page(hops, limit, offset) ==
    SubSeq(hops, offset + 1, IF Len(hops) < offset + limit THEN Len(hops)
                             ELSE offset + limit)

-----------------------------------------------------------------------------
(* The request.                                                            *)

Final == {"delivered", "unavailable"}
Stages == {"begun", "embedding", "settling", "discovering", "authorizing",
           "expanding", "expanded", "selecting", "selected", "finalized"} \cup Final

AssemblyInit ==
    /\ ask \in [schema : {"v0", "v1"},
                index : {{"exact_phrase"}, {"fts"}, {"vector"}, {"fts", "vector"}},
                scope : Scopes,
                carrier : {"matches", "differs"},
                requested : RequestedBudgets]
    /\ work = [stage |-> "begun",
               meter |-> [budget |-> EffectiveBudget(ask.requested),
                          usage |-> NoUsage, reserved |-> NoUsage],
               actual |-> NoUsage,      \* actual_usage; NoUsage is None
               evidence |-> <<>>,       \* rank_evidence, by ranker
               admits |-> {},           \* the Articles the Kernel admits
               graph |-> [p \in Papers |-> <<>>],
               main |-> {},             \* main_projections
               expanded |-> {},         \* expanded_candidate_refs
               offset |-> 0, scanned |-> 0,
               content |-> <<>>,
               usage |-> NoUsage]       \* budget_usage of the Package
    /\ call = [thread |-> "none", allowed |-> "no"]

Refuse == work' = [work EXCEPT !.stage = "unavailable"]

\* prepare_acquire found nothing in scope: no candidate, and no provider byte.
ScopeIsEmpty ==
    /\ work.stage = "begun" /\ ask.scope = {}
    /\ work' = [work EXCEPT !.stage = "selecting"]
    /\ UNCHANGED <<ask, call>>

\* An index without an embedding only prepares its plan.
PrepareLexical ==
    /\ work.stage = "begun" /\ ask.scope # {} /\ "vector" \notin ask.index
    /\ work' = [work EXCEPT !.stage = "discovering"]
    /\ UNCHANGED <<ask, call>>

\* prepare_budgeted_discovery: the carrier's tokenizer and embedding profile
\* must be the release's, the maximum
\* is reserved before the thread that calls the provider is started.
ReserveEmbedding ==
    /\ work.stage = "begun" /\ ask.scope # {} /\ "vector" \in ask.index
    /\ IF ask.carrier = "differs" \/ ~CanReserve(work.meter, EmbedMaximum)
       THEN Refuse /\ UNCHANGED call
       ELSE /\ work' = [work EXCEPT !.stage = "embedding",
                                    !.meter = Reserved(work.meter, EmbedMaximum)]
            /\ call' = [thread |-> "spawned", allowed |-> "yes"]
    /\ UNCHANGED ask

\* mark_provider_started, on the embedding thread, under provider_start_lock.
ProviderStart ==
    /\ call.thread = "spawned"
    /\ call' = [call EXCEPT !.thread =
                    IF call.allowed = "yes" THEN "started" ELSE "refused"]
    /\ UNCHANGED <<ask, work>>
ProviderReturn(outcome) ==
    /\ call.thread = "started"
    /\ call' = [call EXCEPT !.thread = outcome]
    /\ UNCHANGED <<ask, work>>

\* invoke_bounded returns the vectors; a clock reading outside the deadline is
\* a failure like any other.
ReceiveEmbedding(elapsed) ==
    /\ work.stage = "embedding" /\ call.thread = "answered"
    /\ work' = [work EXCEPT !.stage = "settling",
                            !.actual = IF elapsed > EmbedDeadline THEN NoUsage
                                       ELSE EmbedUsage(ask.schema, elapsed)]
    /\ UNCHANGED <<ask, call>>
\* ... or raises: the provider failed, or the wait timed out and the thread
\* is left where it is.
EmbeddingFails ==
    /\ work.stage = "embedding" /\ call.thread \in {"spawned", "started", "failed"}
    /\ work' = [work EXCEPT !.stage = "settling"]
    /\ UNCHANGED <<ask, call>>

\* The finally block: the start gate is closed and read in one critical
\* section, then the reservation is charged or cancelled.
Started == call.thread \in {"started", "answered", "failed"}
SettleCancelling ==
    /\ work.stage = "settling"
    /\ call' = [call EXCEPT !.allowed = "no"]
    /\ work' = [work EXCEPT
        !.meter = IF work.actual # NoUsage
                  THEN Committed(work.meter, EmbedMaximum, work.actual)
                  ELSE Cancelled(work.meter, EmbedMaximum),
        !.stage = IF work.actual # NoUsage THEN "discovering" ELSE "unavailable"]
    /\ UNCHANGED ask
Settle ==
    /\ work.stage = "settling"
    /\ call' = [call EXCEPT !.allowed = "no"]
    /\ work' = [work EXCEPT
        !.meter = IF ~Started THEN Cancelled(work.meter, EmbedMaximum)
                  ELSE Committed(work.meter, EmbedMaximum,
                                 IF work.actual # NoUsage THEN work.actual
                                 ELSE EmbedMaximum),
        !.stage = IF work.actual # NoUsage THEN "discovering" ELSE "unavailable"]
    /\ UNCHANGED ask

\* require_bounded_candidate_submission, then fuse_candidate_evidence.
Submitted(lists) == MapThenSumSet(LAMBDA k : Len(lists[k]), DOMAIN lists)
DiscoverCandidates(match) ==
    /\ work.stage = "discovering"
    /\ LET lists == [k \in ask.index |-> Lookup(k, ask.scope, match[k])]
       IN  IF \/ PlannedLimit(ask.index) > SubmissionLimit
              \/ Submitted(lists) > SubmissionLimit
           THEN Refuse
           ELSE work' = [work EXCEPT !.stage = "authorizing",
                                     !.evidence = FuseEvidence(lists)]
    /\ UNCHANGED <<ask, call>>

\* The Kernel: an admitted Article, an active locator, a field right.
AdmitsRef(admits, r) == PaperOf[r] \in admits /\ r \notin Hidden
Authorize(admits, graph) ==
    /\ work.stage = "authorizing"
    /\ LET main == {r \in RankedBy(work.evidence) : AdmitsRef(admits, r)}
       IN  work' = [work EXCEPT !.admits = admits, !.graph = graph, !.main = main,
                                !.stage = IF main = {} THEN "selecting" ELSE "expanding"]
    /\ UNCHANGED <<ask, call>>

\* authorize_one_hop: a Fragment of its anchor's own Article inherits that
\* Article's decision, and is located and projected; any other is authorized.
AuthorizesHop(row) ==
    IF PaperOf[row.ref] = row.root THEN row.ref \notin Hidden
    ELSE AdmitsRef(work.admits, row.ref)

\* One turn of the one-hop loop: a page of locators the reader may know
\* nothing of, each of them authorized unless it was a main candidate.
GraphLimit == IF HopCeiling < SubmissionLimit THEN HopCeiling ELSE SubmissionLimit
ExpansionGoesOn ==
    Cardinality(work.expanded) < GraphLimit /\ work.scanned < PageLimit
ScanPage ==
    /\ work.stage = "expanding" /\ ExpansionGoesOn
    /\ LET limit == GraphLimit - Cardinality(work.expanded)
           page == Page(OneHop(work.graph, work.main), limit, work.offset)
           fresh == {row \in ToSet(page) : row.ref \notin RankedBy(work.evidence)}
       IN  work' = [work EXCEPT
                        !.scanned = work.scanned + 1,
                        !.offset = work.offset + Len(page),
                        !.expanded = work.expanded
                            \cup {row.ref : row \in {x \in fresh : AuthorizesHop(x)}},
                        !.stage = IF Len(page) < limit THEN "expanded" ELSE "expanding"]
    /\ UNCHANGED <<ask, call>>
RankExpansion ==
    /\ \/ work.stage = "expanded"
       \/ work.stage = "expanding" /\ ~ExpansionGoesOn
    /\ work' = [work EXCEPT
        !.stage = "selecting",
        !.evidence = IF work.expanded = {} THEN work.evidence
                     ELSE [k \in DOMAIN work.evidence \cup {"graph"} |->
                            IF k = "graph" THEN RankOneHop(work.expanded)
                            ELSE work.evidence[k]]]
    /\ UNCHANGED <<ask, call>>

\* validate_package_content: no Fragment twice.
ContentIsValid(refs) == IsInjective(refs)

\* select_for_delivery: an expanded projection only with rank evidence.
Eligible(main, expanded, evidence) ==
    main \cup (expanded \cap RankedBy(evidence))
Select ==
    /\ work.stage = "selecting"
    /\ LET joined == JoinAuthorizedRanking(work.evidence,
                        Eligible(work.main, work.expanded, work.evidence))
           content == SelectWithin(joined, work.meter.budget["tokens"])
       IN  IF ContentIsValid(content)
           THEN work' = [work EXCEPT !.stage = "selected", !.content = content]
           ELSE Refuse
    /\ UNCHANGED <<ask, call>>

\* finalize_for_delivery: the last look at the Policy Epoch empties or keeps.
FinalizePackage(current) ==
    /\ work.stage = "selected"
    /\ IF SizeOf(work.content) > work.meter.budget["tokens"] THEN Refuse
       ELSE work' = [work EXCEPT !.stage = "finalized",
                        !.content = IF current = "yes" THEN work.content ELSE <<>>]
    /\ UNCHANGED <<ask, call>>

\* Assembly charges the meter of a v1 release; then the Package is built and
\* its run recorded, which requires the published usage to be within budget.
PublishedUsage(meter) ==
    IF ask.schema = "v1" THEN meter.usage ELSE TokensOnly(SizeOf(work.content))
Assemble ==
    /\ work.stage = "finalized"
    /\ LET tokens == TokensOnly(CountTokens(ask.schema, ScalarsIn(work.content)))
           meter == Committed(Reserved(work.meter, tokens), tokens, tokens)
       IN  IF CanReserve(work.meter, tokens) /\ FitsIn(PublishedUsage(meter), meter.budget)
           THEN work' = [work EXCEPT !.stage = "delivered", !.meter = meter,
                                     !.usage = PublishedUsage(meter)]
           ELSE Refuse
    /\ UNCHANGED <<ask, call>>

ResolveNext ==
    \/ ScopeIsEmpty \/ PrepareLexical \/ ReserveEmbedding
    \/ \E elapsed \in 0..(EmbedDeadline + 1) : ReceiveEmbedding(elapsed)
    \/ EmbeddingFails \/ Settle
    \/ \E match \in Matches : DiscoverCandidates(match)
    \/ \E admits \in SUBSET ask.scope, graph \in LinkGraphs : Authorize(admits, graph)
    \/ ScanPage \/ RankExpansion \/ Select
    \/ \E current \in {"yes", "no"} : FinalizePackage(current)
    \/ Assemble
ProviderNext ==
    ProviderStart \/ \E outcome \in {"answered", "failed"} : ProviderReturn(outcome)
AssemblyNext == ResolveNext \/ ProviderNext

-----------------------------------------------------------------------------
(* What is promised.                                                       *)

AssemblyTypeOK ==
    /\ work.stage \in Stages
    /\ work.meter.usage \in Usage /\ work.meter.reserved \in Usage
    /\ work.meter.budget \in Usage /\ work.usage \in Usage
    /\ work.actual \in Usage
    /\ work.main \subseteq Refs /\ work.expanded \subseteq Refs
    /\ work.content \in Seq(Refs)
    /\ call \in [thread : {"none", "spawned", "started", "refused", "answered", "failed"},
                 allowed : {"no", "yes"}]

\* The budget meter is honest whatever the embedding thread does and whenever
\* the wait for it ends: usage and reservations together stay within the
\* effective budget, and once the reservation is settled a provider call that
\* was started is charged and one that was not is not, for good, although the
\* thread may still be running (prepare_budgeted_discovery, PackageBudgetMeter).
ProviderCallsAreCharged ==
    /\ FitsIn(AddUsage(work.meter.usage, work.meter.reserved), work.meter.budget)
    /\ work.stage \notin {"begun", "embedding", "settling"} =>
        /\ work.meter.reserved = NoUsage
        /\ work.meter.usage["calls"] = IF Started THEN 1 ELSE 0

\* What a request delivers, and in which order, does not depend on candidates
\* it was not authorized to see: they take no position from a ranker, and no
\* place in the expansion, unless the expansion ran into its scanned-page
\* limit (join_authorized_ranking, Runtime.resolve).
AuthorizedRefs == {r \in Refs : AdmitsRef(work.admits, r)}
AdmittedHops ==
    SelectSeq(OneHop(work.graph, work.main),
        LAMBDA row : row.ref \in AuthorizedRefs \ RankedBy(work.evidence))
OnlyAuthorized(positions) ==
    LET order == SetToSortSeq(DOMAIN positions, LAMBDA r, s : positions[r] < positions[s])
    IN  Positions(SelectSeq(order, LAMBDA r : r \in AuthorizedRefs))
DeliveryIsBlindToRefusals ==
    /\ (work.stage \in {"expanded", "expanding"} /\ work.scanned < PageLimit
            /\ (work.stage = "expanded" \/ ~ExpansionGoesOn)) =>
        work.expanded = {row.ref : row \in ToSet(Page(AdmittedHops, GraphLimit, 0))}
    /\ work.stage = "selected" =>
        LET blind == [k \in DOMAIN work.evidence |-> OnlyAuthorized(work.evidence[k])]
        IN  work.content =
              SelectWithin(JoinAuthorizedRanking(blind,
                    Eligible(work.main, work.expanded, blind)),
                work.meter.budget["tokens"])

\* A delivered Package has only Fragments the Kernel admits, expanded ones
\* that inherited a decision included, and blocks that fit the budget beside everything else the
\* request used; what it publishes is the whole ledger of a v1 release, and
\* the bytes of its blocks for a v0 one (select_authorized_ranking, resolve).
PackageIsWithinBudget ==
    work.stage = "delivered" =>
        /\ ToSet(work.content) \subseteq AuthorizedRefs
        /\ SizeOf(work.content) <= work.meter.budget["tokens"]
        /\ FitsIn(work.usage, ServerBudget)
        /\ \A d \in Dimensions : ask.requested[d] > 0 => work.usage[d] <= ask.requested[d]
        /\ work.usage = IF ask.schema = "v0" THEN TokensOnly(SizeOf(work.content))
                        ELSE AddUsage(TokensOnly(ScalarsIn(work.content)), work.actual)

=============================================================================
