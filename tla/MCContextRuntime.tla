-------------------------- MODULE MCContextRuntime --------------------------
(* What a request for context runs through, for TLC.  A behaviour is one of *)
(* requests against the database (ContextRuntime), of one Package being     *)
(* assembled (PackageAssembly) or of model hops under one budget            *)
(* (ModelInference); `part` says which: they share no state.                *)
EXTENDS ContextRuntime, PackageAssembly, ModelInference, TLC

VARIABLE part

-----------------------------------------------------------------------------
(* ContextRuntime: a File Article and a Feishu Article that link to each    *)
(* other, two readers of whom one is in the group, an Acquire and the       *)
(* opening, by the other reader, of a citation it issued.                   *)

CONSTANTS r1, r2, g1, file, doc, q1, q2

Team == [kind |-> "groups", groups |-> {g1}]
MCGroupsOf == (r1 :> {g1}) @@ (r2 :> {})
MCTargetPolicies == {Private}
MCSourcePolicies == {Team}
MCReaderOf == (q1 :> r1) @@ (q2 :> r2)
MCKindOf == (q1 :> "acquire") @@ (q2 :> "open")
MCEgressOf == (q1 :> "external") @@ (q2 :> "internal")
MCLinks == {<<file, doc>>, <<doc, file>>}

\* Both Articles are published: the file to the reader it was imported for,
\* the document, after a default was set and it was observed twice, to all.
PublishedToReaders ==
    /\ epoch = 3 /\ now = 2
    /\ article = [a \in Articles |-> [state |-> "live", revision |-> 1]]
    /\ source = [lifecycle |-> "active", version |-> 1]
    /\ policy = (file :> [version |-> 1, local |-> Private, effective |-> Private,
                          status |-> "resolved", srcVersion |-> 1, asOf |-> 1,
                          aged |-> "no", fixedAt |-> 1])
             @@ (doc :> [version |-> 2, local |-> Organization,
                         effective |-> Organization, status |-> "resolved",
                         srcVersion |-> 1, asOf |-> 2, aged |-> "yes",
                         fixedAt |-> 3])
    /\ obs = (file :> [status |-> "resolved", policy |-> Private, observedAt |-> 1])
          @@ (doc :> [status |-> "resolved", policy |-> Organization, observedAt |-> 2])
    /\ access = (file :> [r \in Readers |-> IF r = r1 THEN "allowed" ELSE "none"])
             @@ (doc :> [r \in Readers |-> "none"])
    /\ fieldRight = (file :> {r1}) @@ (doc :> Readers)
    /\ member = Readers
    /\ defaults = [d \in Defaults |-> IF d = "feishu" THEN Organization ELSE Private]
    /\ req = [q \in Requests |-> IdleReq]
    /\ pubShared = {} /\ fieldShared = {}

\* The surroundings move while a request is under way or still to come: what
\* they do before the first is another state to start from, and nothing is
\* left to show after the last.
Over(q) ==
    \/ req[q].stage = "aborted"
    \/ req[q].stage = "committed" /\ req[q].grant # "issued"
MCContextNext ==
    /\ Next
    /\ req' = req => /\ \E q \in Requests : req[q].stage # "idle"
                     /\ \E q \in Requests : ~Over(q)

-----------------------------------------------------------------------------
(* PackageAssembly: five Fragments of three Articles, one of them hidden.   *)

MCPaperOf == <<"p", "p", "q", "q", "s">>
MCBytesOf == <<2, 1, 3, 1, 2>>
MCScalarsOf == <<1, 1, 3, 1, 2>>
MCOverlapOf == <<2, 1, 2, 2, 2>>
Full(t, e) == [d \in Dimensions |->
    CASE d = "tokens" -> t [] d = "calls" -> 2 [] d = "cost" -> 2 [] OTHER -> e]
MCServerBudget == Full(6, 2)
MCRequestedBudgets ==
    {[d \in Dimensions |-> 0], [Full(3, 0) EXCEPT !["calls"] = 0, !["cost"] = 0],
     [d \in Dimensions |-> IF d = "tokens" THEN 9 ELSE 1]}
MCMatches ==
    {[k \in Lookups |-> CASE k = "fts" -> <<1, 0, 2, 0, 1>>
                          [] k = "vector" -> <<3, 2, 1, 4, 5>>
                          [] OTHER -> <<1, 1, 1, 1, 1>>],
     [k \in Lookups |-> CASE k = "fts" -> <<1, 2, 0, 0, 0>>
                          [] k = "vector" -> <<2, 1, 5, 4, 3>>
                          [] OTHER -> <<1, 0, 1, 0, 0>>]}
MCLinkGraphs ==
    {[p \in Papers |-> CASE p = "p" -> <<"q", "s">> [] p = "q" -> <<"p">> [] OTHER -> <<>>],
     [p \in Papers |-> IF p = "p" THEN <<>> ELSE <<"s", "p">>],
     [p \in Papers |-> IF p = "p" THEN <<"p", "q">> ELSE <<"q">>]}

-----------------------------------------------------------------------------
(* ModelInference: two hops, a grant for each and one shared budget.        *)

MCProfile(in, outItems) ==
    [maximum_provider_calls |-> 1, maximum_input_tokens |-> 2,
     maximum_output_tokens |-> 2, maximum_input_items |-> in,
     maximum_output_items |-> outItems, maximum_cost |-> 6,
     maximum_elapsed |-> 2, timeout |-> 1, input_rate |-> 1, output_rate |-> 2]
MCProfiles ==
    [op \in InferenceOperations |->
        CASE op = "rewrite" -> MCProfile(1, 2)
          [] op = "rerank" -> MCProfile(2, 2)
          [] op = "select" -> MCProfile(2, 1)]
MCRerank == [op |-> "rerank", items |-> 2, tokens |-> 2, maximum |-> 0]
MCSelect == [op |-> "select", items |-> 2, tokens |-> 1, maximum |-> 1]
MCLongRewrite == [op |-> "rewrite", items |-> 1, tokens |-> 3, maximum |-> 0]
MCHopRequests == {MCRerank, MCSelect, MCLongRewrite}
MCGrantedFor == [g \in HopGrants |-> IF g = "g1" THEN MCRerank ELSE MCSelect]
MCHopBudget ==
    [d \in HopDimensions |->
        CASE d = "tokens" -> 8 [] d = "calls" -> 2 [] d = "cost" -> 11
          [] d = "elapsed" -> 4]
MCHopOutputs ==
    {[shape |-> "rerank", tokens |-> 1, items |-> <<1, 0>>],
     [shape |-> "select", tokens |-> 1, items |-> <<1>>],
     [shape |-> "select", tokens |-> 3, items |-> <<0>>]}

-----------------------------------------------------------------------------
\* The request the assembly would start from, where it is not the part run.
SomeAsk ==
    /\ ask.schema = "v0" /\ ask.index = {"fts"} /\ ask.scope = {}
    /\ ask.carrier = "matches" /\ ask.requested = [d \in Dimensions |-> 0]

MCInit ==
    /\ part \in {"context", "assembly", "inference"}
    /\ PublishedToReaders /\ AssemblyInit /\ InferenceInit
    /\ part # "assembly" => SomeAsk

MCNext ==
    \/ part = "context" /\ MCContextNext /\ UNCHANGED <<assemblyVars, inferenceVars>>
    \/ part = "assembly" /\ AssemblyNext /\ UNCHANGED <<vars, inferenceVars>>
    \/ part = "inference" /\ InferenceNext /\ UNCHANGED <<vars, assemblyVars>>

MCSpec == MCInit /\ [][MCNext /\ UNCHANGED part]_<<part, vars, assemblyVars, inferenceVars>>
=============================================================================
