--------------------------- MODULE ModelInference ---------------------------
(***************************************************************************)
(* ModelInferencePort, the governed entry point of the Runtime for         *)
(* rewrite, rerank and select calls (engine/runtime/model_inference.py).   *)
(* The calls of one resolve share a PackageBudgetMeter and run             *)
(* concurrently.  Each one seals its request, reserves the profile's       *)
(* maximum, redeems a one-shot egress grant, calls the provider on a       *)
(* daemon thread it waits for no longer than the profile's timeout, and    *)
(* settles the reservation.  A thread that outlives the wait goes on.      *)
(***************************************************************************)
EXTENDS Integers, Sequences, FiniteSets, FiniteSetsExt

CONSTANTS
    Hops,          \* the calls of one resolve
    HopGrants,     \* the egress grants issued for it
    GrantedFor,    \* the request a grant's payload digest is bound to
    HopRequests,   \* requests: [op, items, tokens, maximum]
    Profiles,      \* the model inference profile of each operation
    Registered,    \* the operations whose profile the port registered
    HopBudget,     \* the PackageBudget of the meter
    Outputs,       \* what a provider may answer: [shape, tokens, items]
    HopClockBound  \* the bound on the monotonic clock

InferenceOperations == {"rewrite", "rerank", "select"}
HopDimensions == {"tokens", "calls", "cost", "elapsed"}

\* _validate_profile_fields.
ValidProfile(op, p) ==
    /\ p.maximum_provider_calls = 1
    /\ p.timeout <= p.maximum_elapsed
    /\ p.maximum_input_tokens * p.input_rate
         + p.maximum_output_tokens * p.output_rate <= p.maximum_cost
    /\ op = "rewrite" => p.maximum_input_items = 1
    /\ op = "rerank" => p.maximum_output_items >= p.maximum_input_items

ASSUME InferenceAssumption ==
    /\ GrantedFor \in [HopGrants -> HopRequests]
    /\ Registered \subseteq InferenceOperations
    /\ \A op \in InferenceOperations : ValidProfile(op, Profiles[op])
    /\ \A r \in HopRequests :
          /\ r.op \in InferenceOperations /\ r.items \in Nat \ {0} /\ r.tokens \in Nat
          /\ r.op = "select" => r.maximum <= Profiles["select"].maximum_output_items

VARIABLES
    hops,        \* the frame of _execute for each call
    hopMeter,    \* the shared PackageBudgetMeter
    redeemedBy,  \* the call whose redemption consumed a grant, or "none"
    projections, \* whether the resolve's AuthorizedProjections are active
    hopTrace,    \* the receipts the trace observer recorded
    hopNow       \* monotonic_ms

inferenceVars == <<hops, hopMeter, redeemedBy, projections, hopTrace, hopNow>>

-----------------------------------------------------------------------------
(* Usage and the meter: _sum, _subtract, _fits.                            *)

NoCharge == [d \in HopDimensions |-> 0]
Plus(u, v) == [d \in HopDimensions |-> u[d] + v[d]]
Minus(u, v) == [d \in HopDimensions |-> u[d] - v[d]]
Within(u, v) == \A d \in HopDimensions : u[d] <= v[d]

Charge(r, output, elapsed) ==
    [d \in HopDimensions |->
        CASE d = "tokens" -> r.tokens + output
          [] d = "calls" -> 1
          [] d = "cost" -> r.tokens * Profiles[r.op].input_rate
                             + output * Profiles[r.op].output_rate
          [] d = "elapsed" -> elapsed]
MaximumCharge(r) ==
    Charge(r, Profiles[r.op].maximum_output_tokens, Profiles[r.op].maximum_elapsed)

CommitCharge(r, actual) ==
    [used |-> Plus(hopMeter.used, actual),
     reserved |-> Minus(hopMeter.reserved, MaximumCharge(r))]
CancelCharge(r) ==
    [hopMeter EXCEPT !.reserved = Minus(hopMeter.reserved, MaximumCharge(r))]

-----------------------------------------------------------------------------
(* The closed answers: each operation's parse function.                    *)

\* rewrite: one to maximum_output_items texts, none of them blank (0).
ParsesRewrite(r, items) ==
    /\ Len(items) \in 1..Profiles["rewrite"].maximum_output_items
    /\ \A i \in DOMAIN items : items[i] # 0

\* rerank: one exact permutation of the positions of the projections sent.
ParsesRerank(r, items) ==
    /\ Len(items) = r.items
    /\ {items[i] : i \in DOMAIN items} = 0..(r.items - 1)

\* select: at most maximum_items distinct positions.
ParsesSelect(r, items) ==
    /\ Len(items) <= r.maximum
    /\ \A i, j \in DOMAIN items : items[i] = items[j] => i = j
    /\ \A i \in DOMAIN items : items[i] \in 0..(r.items - 1)

ParseOutput(r, out) ==
    /\ out.shape = r.op
    /\ CASE r.op = "rewrite" -> ParsesRewrite(r, out.items)
         [] r.op = "rerank"  -> ParsesRerank(r, out.items)
         [] r.op = "select"  -> ParsesSelect(r, out.items)

-----------------------------------------------------------------------------
NoRequest == [op |-> "none", items |-> 0, tokens |-> 0, maximum |-> 0]
NoRawOutput == [shape |-> "none", tokens |-> 0, items |-> <<>>]

IdleHop ==
    [stage |-> "idle", request |-> NoRequest, grant |-> "none",
     started |-> 0, sent |-> 0, thread |-> "none", output |-> NoRawOutput,
     outcome |-> "none", usage |-> NoCharge, result |-> <<>>]

InferenceInit ==
    /\ hops = [c \in Hops |-> IdleHop]
    /\ hopMeter = [used |-> NoCharge, reserved |-> NoCharge]
    /\ redeemedBy = [g \in HopGrants |-> "none"]
    /\ projections = "active"
    /\ hopTrace = {}
    /\ hopNow = 0

\* RewriteModelRequest, RerankModelRequest and SelectModelRequest: the
\* payload is sealed over projections that are active when it is built.
BuildRequest(c, r) ==
    /\ hops[c].stage = "idle"
    /\ r.op = "rewrite" \/ projections = "active"
    /\ hops' = [hops EXCEPT ![c].stage = "built", ![c].request = r]
    /\ UNCHANGED <<hopMeter, redeemedBy, projections, hopTrace, hopNow>>

\* The resolve ends; its projections are no longer authorized.
CloseProjections ==
    /\ projections = "active"
    /\ projections' = "closed"
    /\ UNCHANGED <<hops, hopMeter, redeemedBy, hopTrace, hopNow>>

\* _snapshot_profile and the request's _snapshot, taken again by _execute.
SealsSnapshot(r) ==
    /\ r.op \in Registered
    /\ r.op = "rewrite" \/ projections = "active"

\* What _execute requires of the request before it reserves.
FitsProfile(r) ==
    /\ r.tokens <= Profiles[r.op].maximum_input_tokens
    /\ r.items <= Profiles[r.op].maximum_input_items
ReservesMaximum(r) ==
    Within(Plus(Plus(hopMeter.used, hopMeter.reserved), MaximumCharge(r)), HopBudget)

\* _emit_unavailable: the refusal the caller gets, traced in a later step.
Unavailable(c, usage) ==
    [hops EXCEPT ![c].stage = "refusing", ![c].outcome = "unavailable",
                 ![c].usage = usage, ![c].result = <<>>]

\* _execute up to the reservation; the egress binding is of the meter's
\* Release generation or of another one (require_tokenizer).
Reserve(c, g, generation) ==
    /\ hops[c].stage = "built"
    /\ LET r == hops[c].request
       IN  IF SealsSnapshot(r) /\ generation = "current" /\ FitsProfile(r)
                /\ ReservesMaximum(r)
           THEN /\ hopMeter' = [hopMeter EXCEPT !.reserved =
                                   Plus(hopMeter.reserved, MaximumCharge(r))]
                /\ hops' = [hops EXCEPT ![c].stage = "redeeming", ![c].grant = g,
                                        ![c].started = hopNow]
           ELSE /\ hops' = Unavailable(c, NoCharge)
                /\ UNCHANGED hopMeter
    /\ UNCHANGED <<redeemedBy, projections, hopTrace, hopNow>>

\* The redemption authority, in its own transaction: an unspent grant bound
\* to this payload is consumed.
RedeemHopGrant(c) ==
    /\ hops[c].stage = "redeeming"
    /\ LET accepted == /\ redeemedBy[hops[c].grant] = "none"
                       /\ GrantedFor[hops[c].grant] = hops[c].request
       IN  /\ redeemedBy' = IF accepted THEN [redeemedBy EXCEPT ![hops[c].grant] = c]
                            ELSE redeemedBy
           /\ hops' = [hops EXCEPT ![c].stage =
                          IF accepted THEN "accepted" ELSE "rejected"]
    /\ UNCHANGED <<hopMeter, projections, hopTrace, hopNow>>

\* redeem raises, before or after the authority's commit, or answers False:
\* the reservation is cancelled and no provider is called.
RedemptionFails(c) ==
    /\ hops[c].stage \in {"redeeming", "accepted", "rejected"}
    /\ hopMeter' = CancelCharge(hops[c].request)
    /\ hops' = Unavailable(c, NoCharge)
    /\ UNCHANGED <<redeemedBy, projections, hopTrace, hopNow>>

\* _call_gateway_bounded: redeem answered True, the thread starts.
StartGateway(c) ==
    /\ hops[c].stage = "accepted"
    /\ hops' = [hops EXCEPT ![c].stage = "waiting", ![c].thread = "running",
                            ![c].sent = hopNow]
    /\ UNCHANGED <<hopMeter, redeemedBy, projections, hopTrace, hopNow>>

\* invoke: the provider answers or the call raises, however late.
GatewayAnswers(c, out) ==
    /\ hops[c].thread = "running"
    /\ hops' = [hops EXCEPT ![c].thread = "answered", ![c].output = out]
    /\ UNCHANGED <<hopMeter, redeemedBy, projections, hopTrace, hopNow>>
GatewayRaises(c) ==
    /\ hops[c].thread = "running"
    /\ hops' = [hops EXCEPT ![c].thread = "failed"]
    /\ UNCHANGED <<hopMeter, redeemedBy, projections, hopTrace, hopNow>>

Elapsed(c) == hopNow - hops[c].started
AcceptsOutput(c) ==
    LET r == hops[c].request
        out == hops[c].output
    IN  /\ hops[c].thread = "answered"
        /\ Elapsed(c) <= Profiles[r.op].timeout
        /\ out.tokens <= Profiles[r.op].maximum_output_tokens
        /\ ParseOutput(r, out)

\* The wait ends because the thread finished: its usage is charged, or the
\* maximum when the answer is not one the profile allows.
ReceiveOutput(c) ==
    /\ hops[c].stage = "waiting" /\ hops[c].thread # "running"
    /\ LET r == hops[c].request
           actual == Charge(r, hops[c].output.tokens, Elapsed(c))
       IN  IF AcceptsOutput(c)
           THEN /\ hopMeter' = CommitCharge(r, actual)
                /\ hops' = [hops EXCEPT ![c].stage = "tracing",
                               ![c].outcome = "succeeded", ![c].usage = actual,
                               ![c].result = hops[c].output.items]
           ELSE /\ hopMeter' = CommitCharge(r, MaximumCharge(r))
                /\ hops' = Unavailable(c, MaximumCharge(r))
    /\ UNCHANGED <<redeemedBy, projections, hopTrace, hopNow>>

\* finished.wait ran out; the daemon thread is left running.
TimeOutRefunding(c) ==
    /\ hops[c].stage = "waiting" /\ hops[c].thread = "running"
    /\ hopNow - hops[c].sent >= Profiles[hops[c].request.op].timeout
    /\ hopMeter' = CancelCharge(hops[c].request)
    /\ hops' = Unavailable(c, NoCharge)
    /\ UNCHANGED <<redeemedBy, projections, hopTrace, hopNow>>
TimeOut(c) ==
    /\ hops[c].stage = "waiting" /\ hops[c].thread = "running"
    /\ hopNow - hops[c].sent >= Profiles[hops[c].request.op].timeout
    /\ hopMeter' = CommitCharge(hops[c].request, MaximumCharge(hops[c].request))
    /\ hops' = Unavailable(c, MaximumCharge(hops[c].request))
    /\ UNCHANGED <<redeemedBy, projections, hopTrace, hopNow>>

TraceReceipt(c) == [call |-> c, outcome |-> hops[c].outcome, usage |-> hops[c].usage]

\* The trace observer records the receipt or not, and returns or raises; a
\* success that cannot be traced becomes unavailable with its actual usage.
TraceSuccess(c, recorded, raises) ==
    /\ hops[c].stage = "tracing"
    /\ hopTrace' = IF recorded THEN hopTrace \cup {TraceReceipt(c)} ELSE hopTrace
    /\ hops' = IF raises THEN Unavailable(c, hops[c].usage)
               ELSE [hops EXCEPT ![c].stage = "returned"]
    /\ UNCHANGED <<hopMeter, redeemedBy, projections, hopNow>>

\* _emit_unavailable: what the observer raises is suppressed.
TraceRefusal(c, recorded) ==
    /\ hops[c].stage = "refusing"
    /\ hopTrace' = IF recorded THEN hopTrace \cup {TraceReceipt(c)} ELSE hopTrace
    /\ hops' = [hops EXCEPT ![c].stage = "refused"]
    /\ UNCHANGED <<hopMeter, redeemedBy, projections, hopNow>>

TickHops ==
    /\ hopNow < HopClockBound
    /\ hopNow' = hopNow + 1
    /\ UNCHANGED <<hops, hopMeter, redeemedBy, projections, hopTrace>>

InferenceNext ==
    \/ \E c \in Hops, r \in HopRequests : BuildRequest(c, r)
    \/ \E c \in Hops, g \in HopGrants, generation \in {"current", "other"} :
          Reserve(c, g, generation)
    \/ \E c \in Hops :
          \/ RedeemHopGrant(c) \/ RedemptionFails(c) \/ StartGateway(c)
          \/ GatewayRaises(c) \/ ReceiveOutput(c) \/ TimeOut(c)
    \/ \E c \in Hops, out \in Outputs : GatewayAnswers(c, out)
    \/ \E c \in Hops, recorded, raises \in BOOLEAN : TraceSuccess(c, recorded, raises)
    \/ \E c \in Hops, recorded \in BOOLEAN : TraceRefusal(c, recorded)
    \/ CloseProjections
    \/ TickHops

InferenceSpec == InferenceInit /\ [][InferenceNext]_inferenceVars

-----------------------------------------------------------------------------
InferenceTypeOK ==
    /\ \A c \in Hops :
          /\ hops[c].stage \in {"idle", "built", "redeeming", "accepted", "rejected",
                "waiting", "tracing", "refusing", "returned", "refused"}
          /\ hops[c].request \in HopRequests \cup {NoRequest}
          /\ hops[c].grant \in HopGrants \cup {"none"}
          /\ hops[c].thread \in {"none", "running", "answered", "failed"}
          /\ hops[c].output \in Outputs \cup {NoRawOutput}
          /\ hops[c].usage \in [HopDimensions -> Nat]
    /\ hopMeter \in [used : [HopDimensions -> Nat], reserved : [HopDimensions -> Nat]]
    /\ redeemedBy \in [HopGrants -> Hops \cup {"none"}]
    /\ projections \in {"active", "closed"}
    /\ hopNow \in 0..HopClockBound

Total(calls, Usage(_)) ==
    [d \in HopDimensions |-> MapThenSumSet(LAMBDA c : Usage(c)[d], calls)]
HoldsReservation(c) ==
    hops[c].stage \in {"redeeming", "accepted", "rejected", "waiting"}

\* The concurrent calls of a resolve are accounted for exactly: the meter
\* holds what the callers' receipts say was used, plus the maximum of the
\* calls in flight, within the budget; a call that started its provider thread
\* consumed a grant of its own and is charged for what the provider did within
\* the profile, even when the thread answers after the wait timed out; and
\* the receipts traced for a call agree with its charge, also when the
\* observer failed on the first of them (ModelInferencePort._execute).
InferenceIsAccounted ==
    /\ hopMeter.used = Total(Hops, LAMBDA c : hops[c].usage)
    /\ hopMeter.reserved = Total({c \in Hops : HoldsReservation(c)},
                                 LAMBDA c : MaximumCharge(hops[c].request))
    /\ Within(Plus(hopMeter.used, hopMeter.reserved), HopBudget)
    /\ \A c \in Hops : hops[c].thread # "none" =>
          LET r == hops[c].request
              spent == hops[c].output.tokens
          IN  /\ redeemedBy[hops[c].grant] = c
              /\ hops[c].stage # "waiting"
                   /\ spent <= Profiles[r.op].maximum_output_tokens
                 => Within(Charge(r, spent, 0), hops[c].usage)
    /\ \A receipt \in hopTrace : receipt.usage = hops[receipt.call].usage
=============================================================================
