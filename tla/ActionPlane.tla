------------------------------ MODULE ActionPlane ------------------------------
(***************************************************************************)
(* The ActionPlane: one prepared private effect performed under one        *)
(* provider attempt.                                                       *)
(*                                                                         *)
(* An effect is identified by its idempotency digest, that is by a turn    *)
(* and an operation.  prepare stores a ticket for it, begin commits one    *)
(* provider attempt and takes the Sender session lock, the Sender is       *)
(* called, complete settles the attempt on the same database session, and  *)
(* reconcile settles what a lost session, a crash or an ambiguous answer   *)
(* left open.  Each database function runs in one transaction and is one   *)
(* step; the awaits of ActionPlane.perform between them are the points     *)
(* where other calls, processes, expiries and crashes interleave.          *)
(***************************************************************************)
EXTENDS Naturals, FiniteSets

CONSTANTS
    Bots,          \* processes that hold an ActionPlane
    Turns,         \* verified question turns, each with its own evidence
    Operations,    \* of create_placeholder, finalize_reply, send_private_followup
    Payloads,      \* effect payloads, told apart by their digest
    Attempts,      \* delivery attempt references (dla_...)
    EpochBound,    \* largest Policy Epoch explored
    None           \* absence of a row

ASSUME ActionPlaneAssumption ==
    /\ EpochBound \in Nat \ {0}
    /\ None \notin Bots \X Turns
    /\ None \notin Attempts

\* The idempotency digest binds the operation and the turn.
Effects == Turns \X Operations

\* One thread of control: what one process does for one turn.
Calls == Bots \X Turns

VARIABLES
    policyEpoch,      \* organization_policy_epoch
    membership,       \* the asker's Membership is active
    evidence,         \* delivery_evidence, one row per turn
    attempt,          \* action_delivery_attempt: the turn it is bound to
    ticket,           \* action_ticket
    provider,         \* action_provider_attempt
    receipt,          \* action_receipt
    reconciliation,   \* action_reconciliation
    lock,             \* holder of the Sender session advisory lock
    effects,          \* how often the provider carried the effect out
    call              \* the control state of every perform

authority == <<policyEpoch, membership, evidence>>
store == <<attempt, ticket, provider, receipt, reconciliation>>
planeVars == <<policyEpoch, membership, evidence, attempt, ticket, provider,
               receipt, reconciliation, lock, effects, call>>

NoCall ==
    [stage |-> "none", operation |-> None, payload |-> None,
     attempt |-> None, session |-> "none", outcome |-> "none"]

\* The effect a call is about.
EffectOf(c) == <<c[2], call[c].operation>>

\* A row that was never inserted.
NoTicket ==
    [attempt |-> None, payload |-> None, epoch |-> 0, state |-> "none",
     expiry |-> "passed"]
NoProvider == [state |-> "none", capability |-> None]

PlaneInit ==
    /\ policyEpoch = 1
    /\ membership = "active"
    /\ evidence = [t \in Turns |-> [epoch |-> 1, expiry |-> "ahead"]]
    /\ attempt = [a \in Attempts |-> None]
    /\ ticket = [k \in Effects |-> NoTicket]
    /\ provider = [k \in Effects |-> NoProvider]
    /\ receipt = [k \in Effects |-> None]
    /\ reconciliation = [k \in Effects |-> "none"]
    /\ lock = [k \in Effects |-> None]
    /\ effects = [k \in Effects |-> 0]
    /\ call = [c \in Calls |-> NoCall]

-----------------------------------------------------------------------------
(* The authority the effects depend on, changed by other parts.            *)

\* Any policy change of the Organization moves its epoch.
AdvancePolicyEpoch ==
    /\ policyEpoch < EpochBound
    /\ policyEpoch' = policyEpoch + 1
    /\ UNCHANGED <<membership, evidence, store, lock, effects, call>>

EndMembership ==
    /\ membership = "active"
    /\ membership' = "ended"
    /\ UNCHANGED <<policyEpoch, evidence, store, lock, effects, call>>

\* The evidence passes its expiry, and may be deleted from then on.
ExpireEvidence(t) ==
    /\ evidence[t].expiry = "ahead"
    /\ evidence' = [evidence EXCEPT ![t].expiry = "passed"]
    /\ UNCHANGED <<policyEpoch, membership, store, lock, effects, call>>

ExpireTicket(k) ==
    /\ ticket[k].expiry = "ahead"
    /\ ticket' = [ticket EXCEPT ![k].expiry = "passed"]
    /\ UNCHANGED <<authority, attempt, provider, receipt, reconciliation,
                   lock, effects, call>>

-----------------------------------------------------------------------------
(* prepare                                                                 *)

\* What bind and prepare both demand of the evidence at the moment they run.
EvidenceCurrent(t) ==
    /\ evidence[t].expiry = "ahead"
    /\ evidence[t].epoch = policyEpoch
    /\ membership = "active"

MoveTo(c, stage) == call' = [call EXCEPT ![c] = [@ EXCEPT !.stage = stage]]

\* The call returns; its connection goes back to the pool or is discarded.
Return(c, outcome) ==
    call' = [call EXCEPT ![c] = [@ EXCEPT !.stage = "returned", !.outcome = outcome,
                                          !.session = "none"]]

PreparePrivateDeliveryEffect(c, operation, payload, a) ==
    /\ call[c].stage = "none"
    /\ call' = [call EXCEPT ![c] =
                  [stage |-> "bind", operation |-> operation,
                   payload |-> payload, attempt |-> a, session |-> "none",
                   outcome |-> "none"]]
    /\ UNCHANGED <<authority, store, lock, effects>>

\* Derives the trusted facts from the evidence; a failed query is a denial.
BindPrivateDelivery(c) ==
    /\ call[c].stage = "bind"
    /\ \/ EvidenceCurrent(c[2]) /\ MoveTo(c, "prepare")
       \/ Return(c, "denied")
    /\ UNCHANGED <<authority, store, lock, effects>>

\* Mutant: a ticket is reused whoever prepared it.
MutantSameIntent(c, k) ==
    /\ ticket[k].payload = call[c].payload
    /\ ticket[k].epoch = evidence[c[2]].epoch
    /\ ticket[k].expiry = "ahead"

\* Exact reuse of an idempotency digest: the same attempt, payload and epoch,
\* before the ticket expires.
SameIntent(c, k) ==
    /\ ticket[k].attempt = call[c].attempt
    /\ ticket[k].payload = call[c].payload
    /\ ticket[k].epoch = evidence[c[2]].epoch
    /\ ticket[k].expiry = "ahead"

\* The function inserts the attempt and the ticket; its answer may be lost.
InsertTicket(c) ==
    LET k == EffectOf(c)
        a == call[c].attempt
    IN  /\ call[c].stage = "prepare"
        /\ EvidenceCurrent(c[2])
        /\ ticket[k].state = "none"
        /\ attempt[a] \in {None, c[2]}
        /\ attempt' = [attempt EXCEPT ![a] = c[2]]
        /\ ticket' = [ticket EXCEPT ![k] =
                        [attempt |-> a, payload |-> call[c].payload,
                         epoch |-> evidence[c[2]].epoch,
                         state |-> "prepared", expiry |-> "ahead"]]
        /\ MoveTo(c, "begin") \/ Return(c, "denied")
        /\ UNCHANGED <<authority, provider, receipt, reconciliation, lock, effects>>

ReuseTicket(c) ==
    LET k == EffectOf(c)
    IN  /\ call[c].stage = "prepare"
        /\ EvidenceCurrent(c[2])
        /\ ticket[k].state # "none"
        /\ SameIntent(c, k)
        /\ MoveTo(c, "begin")
        /\ UNCHANGED <<authority, store, lock, effects>>

\* generic_denied, audience_changed and retryable_unavailable alike.
RefusePrepare(c) ==
    /\ call[c].stage = "prepare"
    /\ Return(c, "denied")
    /\ UNCHANGED <<authority, store, lock, effects>>

-----------------------------------------------------------------------------
(* perform                                                                 *)

\* Mutant: the stored state is passed on as the outcome.
MutantReplayOutcome(state) == state

\* What a second perform of a ticket is told about the first.
ReplayOutcome(state) ==
    CASE state = "applied" -> "already_applied"
      [] state \in {"in_flight", "ambiguous"} -> "reconciliation_required"
      [] state = "rejected" -> "rejected"

BeginReplay(c) ==
    LET k == EffectOf(c)
    IN  /\ call[c].stage = "begin"
        /\ ticket[k].state # "prepared"
        /\ Return(c, ReplayOutcome(ticket[k].state))
        /\ UNCHANGED <<authority, store, lock, effects>>

\* Mutant: a retried perform sends again what the first left in flight.
MutantMaySend(k) ==
    /\ ticket[k].state \in {"prepared", "in_flight"}
    /\ ticket[k].expiry = "ahead"
    /\ ticket[k].epoch = policyEpoch
    /\ membership = "active"
    /\ evidence[k[1]].expiry = "ahead"
    /\ lock[k] = None

\* Everything begin revalidates before it commits sender_required.
MaySend(k) ==
    /\ ticket[k].state = "prepared"
    /\ provider[k].state = "none"
    /\ ticket[k].expiry = "ahead"
    /\ ticket[k].epoch = policyEpoch
    /\ membership = "active"
    /\ evidence[k[1]].expiry = "ahead"
    /\ lock[k] = None

\* The provider attempt is committed and the session lock taken.  When the
\* answer is lost the connection is discarded and the lock with it.
BeginSend(c) ==
    LET k == EffectOf(c)
    IN  /\ call[c].stage = "begin"
        /\ MaySend(k)
        /\ provider' = [provider EXCEPT ![k] =
                           [state |-> "in_flight", capability |-> c]]
        /\ ticket' = [ticket EXCEPT ![k].state = "in_flight"]
        /\ \/ /\ lock' = [lock EXCEPT ![k] = c]
              /\ call' = [call EXCEPT ![c] = [@ EXCEPT !.stage = "send",
                                                       !.session = "open"]]
           \/ /\ UNCHANGED lock
              /\ Return(c, "rejected")
        /\ UNCHANGED <<authority, attempt, receipt, reconciliation, effects>>

\* No connection, a failed query, or a begin that found something changed.
RefuseBegin(c) ==
    /\ call[c].stage = "begin"
    /\ Return(c, "rejected")
    /\ UNCHANGED <<authority, store, lock, effects>>

\* The Sender is awaited.  A thrown or ambiguous answer leaves open whether
\* the provider carried the effect out.
Send(c, outcome, happened) ==
    /\ call[c].stage = "send"
    /\ outcome = "applied" => happened = 1
    /\ outcome = "rejected" => happened = 0
    /\ effects' = [effects EXCEPT ![EffectOf(c)] = @ + happened]
    /\ call' = [call EXCEPT ![c] = [@ EXCEPT !.stage = "complete", !.outcome = outcome]]
    /\ UNCHANGED <<authority, store, lock>>

\* Completion needs the capability of this perform and the session lock on
\* its own backend.
MayComplete(c, k) ==
    /\ call[c].session = "open"
    /\ provider[k].capability = c
    /\ lock[k] = c

\* A terminal or ambiguous attempt answers what it already is.
Completed(k, outcome) ==
    IF provider[k].state = "in_flight" THEN outcome ELSE provider[k].state

\* Mutant: a receipt for everything that was not rejected.
MutantSettle(k, state) ==
    /\ provider' = [provider EXCEPT ![k].state = state]
    /\ ticket' = [ticket EXCEPT ![k].state = state]
    /\ receipt' = IF state # "rejected"
                  THEN [receipt EXCEPT ![k] = ticket[k].attempt] ELSE receipt

Settle(k, state) ==
    /\ provider' = [provider EXCEPT ![k].state = state]
    /\ ticket' = [ticket EXCEPT ![k].state = state]
    /\ receipt' = IF state = "applied"
                  THEN [receipt EXCEPT ![k] = ticket[k].attempt] ELSE receipt

CompleteEffect(c) ==
    LET k == EffectOf(c)
        state == Completed(k, call[c].outcome)
    IN  /\ call[c].stage = "complete"
        /\ MayComplete(c, k)
        /\ Settle(k, state)
        /\ reconciliation' = IF state = "ambiguous"
                             THEN [reconciliation EXCEPT ![k] = "pending"]
                             ELSE reconciliation
        /\ \E answer \in {state, "ambiguous"} :
              call' = [call EXCEPT ![c] = [@ EXCEPT !.stage = "release",
                                                    !.outcome = answer]]
        /\ UNCHANGED <<authority, attempt, lock, effects>>

\* The session is gone, the query fails, or the function refuses.
CompletionLost(c) ==
    /\ call[c].stage = "complete"
    /\ call' = [call EXCEPT ![c] = [@ EXCEPT !.stage = "release", !.outcome = "ambiguous"]]
    /\ UNCHANGED <<authority, store, lock, effects>>

PerformOutcome(outcome) ==
    IF outcome = "ambiguous" THEN "reconciliation_required" ELSE outcome

\* The finally block: unlock on an open session, discard it otherwise.
ReleaseSession(c) ==
    LET k == EffectOf(c)
    IN  /\ call[c].stage = "release"
        /\ lock' = IF lock[k] = c THEN [lock EXCEPT ![k] = None] ELSE lock
        /\ Return(c, PerformOutcome(call[c].outcome))
        /\ UNCHANGED <<authority, store, effects>>

-----------------------------------------------------------------------------
(* Failures and reconciliation                                             *)

\* The backend of a perform goes away and takes its session lock with it.
LoseSession(c) ==
    /\ call[c].session = "open"
    /\ call' = [call EXCEPT ![c].session = "lost"]
    /\ lock' = [k \in Effects |-> IF lock[k] = c THEN None ELSE lock[k]]
    /\ UNCHANGED <<authority, store, effects>>

\* The process dies: its calls are gone, PostgreSQL closes its sessions.
CrashPlane(b) ==
    /\ call' = [c \in Calls |-> IF c[1] = b THEN NoCall ELSE call[c]]
    /\ lock' = [k \in Effects |->
                  IF lock[k] \in {b} \X Turns THEN None ELSE lock[k]]
    /\ UNCHANGED <<authority, store, effects>>

\* activeProviderAttempts of one process.
ActiveProviderAttempts(b) ==
    {EffectOf(c) : c \in {d \in {b} \X Turns :
                             call[d].stage \in {"send", "complete"}}}

\* Mutant: any begun attempt, settled ones included.
MutantReconcilableAgain(k) == provider[k].state # "none"

\* Mutant: only what a completion recorded as ambiguous.
MutantReconcilablePending(k) ==
    reconciliation[k] = "pending" /\ provider[k].state = "ambiguous"

\* An attempt that reconciliation may still settle.
Reconcilable(k) ==
    \/ reconciliation[k] = "none" /\ provider[k].state = "in_flight"
    \/ reconciliation[k] = "pending" /\ provider[k].state \in {"in_flight", "ambiguous"}

\* The trusted recovery adapter reports what the provider did.
Disposition(k) == IF effects[k] > 0 THEN "applied" ELSE "rejected"

\* Mutant: the session lock of a running Sender is not respected.
MutantReconcile(b, k) ==
    /\ k \notin ActiveProviderAttempts(b)
    /\ Reconcilable(k)
    /\ Settle(k, Disposition(k))
    /\ reconciliation' = [reconciliation EXCEPT ![k] = Disposition(k)]
    /\ UNCHANGED <<authority, attempt, lock, effects, call>>

Reconcile(b, k) ==
    /\ k \notin ActiveProviderAttempts(b)
    /\ lock[k] = None
    /\ Reconcilable(k)
    /\ Settle(k, Disposition(k))
    /\ reconciliation' = [reconciliation EXCEPT ![k] = Disposition(k)]
    /\ UNCHANGED <<authority, attempt, lock, effects, call>>

-----------------------------------------------------------------------------
(* The ActionPlane under any caller.                                       *)

TakeOutcome(c) ==
    /\ call[c].stage = "returned"
    /\ call' = [call EXCEPT ![c] = NoCall]
    /\ UNCHANGED <<authority, store, lock, effects>>

CallStep(c) ==
    \/ BindPrivateDelivery(c)
    \/ InsertTicket(c)
    \/ ReuseTicket(c)
    \/ RefusePrepare(c)
    \/ BeginReplay(c)
    \/ BeginSend(c)
    \/ RefuseBegin(c)
    \/ \E outcome \in {"applied", "ambiguous", "rejected"}, happened \in 0..1 :
          Send(c, outcome, happened)
    \/ CompleteEffect(c)
    \/ CompletionLost(c)
    \/ ReleaseSession(c)

AuthorityStep ==
    \/ AdvancePolicyEpoch
    \/ EndMembership
    \/ \E t \in Turns : ExpireEvidence(t)
    \/ \E k \in Effects : ExpireTicket(k)

PlaneNext ==
    \/ AuthorityStep
    \/ \E c \in Calls :
          \/ \E operation \in Operations, p \in Payloads, a \in Attempts :
                PreparePrivateDeliveryEffect(c, operation, p, a)
          \/ CallStep(c)
          \/ TakeOutcome(c)
          \/ LoseSession(c)
    \/ \E b \in Bots : CrashPlane(b)
    \/ \E b \in Bots, k \in Effects : Reconcile(b, k)

PlaneSpec == PlaneInit /\ [][PlaneNext]_planeVars

\* A perform runs every awaited call to its answer or its deadline.  Nothing
\* calls reconcile by itself: an operator may, or may never.
FairPlaneSpec ==
    /\ PlaneSpec
    /\ \A c \in Calls : WF_planeVars(CallStep(c))

-----------------------------------------------------------------------------
(* Properties                                                              *)

CallStages == {"none", "bind", "prepare", "begin", "send", "complete",
               "release", "returned"}
RowStates == {"none", "prepared", "in_flight", "ambiguous", "applied", "rejected"}
CallOutcomes == {"none", "denied", "rejected", "applied", "ambiguous",
                 "already_applied", "reconciliation_required"}

TicketRow == [attempt : Attempts \cup {None}, payload : Payloads \cup {None},
              epoch : Nat, state : RowStates, expiry : {"ahead", "passed"}]
ProviderRow == [state : RowStates, capability : Calls \cup {None}]
CallRow == [stage : CallStages, operation : Operations \cup {None},
            payload : Payloads \cup {None}, attempt : Attempts \cup {None},
            session : {"none", "open", "lost"}, outcome : CallOutcomes]

AuthorityTypes ==
    /\ policyEpoch \in Nat
    /\ membership \in {"active", "ended"}
    /\ evidence \in [Turns -> [epoch : Nat, expiry : {"ahead", "passed"}]]

StoreTypes ==
    /\ attempt \in [Attempts -> Turns \cup {None}]
    /\ ticket \in [Effects -> TicketRow]
    /\ provider \in [Effects -> ProviderRow]
    /\ receipt \in [Effects -> Attempts \cup {None}]
    /\ reconciliation \in [Effects -> {"none", "pending", "applied", "rejected"}]

CallTypes ==
    /\ lock \in [Effects -> Calls \cup {None}]
    /\ effects \in [Effects -> Nat]
    /\ call \in [Calls -> CallRow]

\* The rows and the control state have the shapes the tables and
\* ActionPlane.perform give them.
PlaneTypeOK == AuthorityTypes /\ StoreTypes /\ CallTypes

\* Whatever is retried, raced, lost or crashed, the provider carries an effect
\* out at most once, and never before its provider attempt is durable.
OneEffectPerOperation ==
    \A k \in Effects :
       /\ effects[k] <= 1
       /\ effects[k] = 1 => provider[k].state # "none"

\* action_ticket, action_provider_attempt, action_reconciliation and
\* action_receipt never disagree: a receipt exists exactly for an applied
\* ticket, names that ticket's attempt, and stands for an effect that happened;
\* an ambiguous attempt always has its pending reconciliation row.
ReceiptsTellTheTruth ==
    \A k \in Effects :
       /\ (receipt[k] # None) <=> (ticket[k].state = "applied")
       /\ ticket[k].state = "applied" =>
            receipt[k] = ticket[k].attempt /\ effects[k] = 1
       /\ IF ticket[k].state \in {"none", "prepared"}
          THEN provider[k].state = "none"
          ELSE provider[k].state = ticket[k].state
       /\ (reconciliation[k] = "pending") <=> (provider[k].state = "ambiguous")

\* A perform that reports applied or already_applied stands on a stored
\* receipt of its own delivery attempt, whoever stored it.
OutcomesAreReceipts ==
    \A c \in Calls :
       call[c].stage = "returned" /\ call[c].outcome \in {"applied", "already_applied"} =>
         receipt[EffectOf(c)] = call[c].attempt

\* An effect reaches the provider only under a provider attempt that is still
\* in flight; reconciliation settles it underneath a running Sender only when
\* that Sender's database session was lost.
EffectsFollowOpenAttempts ==
    [][\A k \in Effects :
         effects'[k] # effects[k] =>
           \/ provider[k].state = "in_flight"
           \/ \E c \in Calls : EffectOf(c) = k /\ call[c].session = "lost"]_planeVars

\* A settled effect stays settled: neither a late completion nor a second
\* reconciliation changes an applied or rejected ticket, and a receipt is
\* never rewritten.
SettledEffectsStay ==
    [][\A k \in Effects :
         /\ ticket[k].state \in {"applied", "rejected"} =>
              ticket'[k].state = ticket[k].state
         /\ receipt[k] # None => receipt'[k] = receipt[k]]_planeVars

\* What reconcile demands of an attempt, in whatever process it is called.
OpenToReconciliation(k) ==
    /\ Reconcilable(k)
    /\ lock[k] = None
    /\ \A b \in Bots : k \notin ActiveProviderAttempts(b)

\* Every effect that was begun comes to rest: whatever the Sender, the session
\* and the process did, it is in the end applied or rejected for good, or stays
\* where a call of reconcile by an operator will settle it, never behind a
\* session lock that nobody gives back.
BegunEffectsComeToRest ==
    \A k \in Effects :
       provider[k].state \in {"in_flight", "ambiguous"} ~>
         [](provider[k].state \in {"applied", "rejected"} \/ OpenToReconciliation(k))
=============================================================================
