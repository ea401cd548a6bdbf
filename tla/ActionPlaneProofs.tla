------------------------- MODULE ActionPlaneProofs --------------------------
(***************************************************************************)
(* Proofs about ActionPlane, for any caller, and about BotDelivery, which is*)
(* a caller of it: what holds of the plane holds of the delivered answers, *)
(* for every set of processes, turns, events and answers.                  *)
(***************************************************************************)
EXTENDS BotDelivery, TLAPS

-----------------------------------------------------------------------------
(* The Action plane.                                                       *)

\* A running call knows its operation and its attempt, and performs only a
\* ticket that is stored.
CallsKnowTheirEffect ==
    \A c \in Calls :
       /\ call[c].stage # "none" =>
            call[c].operation \in Operations /\ call[c].attempt \in Attempts
       /\ call[c].stage = "begin" => ticket[EffectOf(c)].state # "none"

\* A stored ticket names its attempt.
TicketsNameAttempts ==
    \A k \in Effects : ticket[k].state # "none" => ticket[k].attempt \in Attempts

\* The session lock and the open session of its holder go together.
LocksAreSessions ==
    /\ \A k \in Effects :
         lock[k] # None => call[lock[k]].session = "open" /\ EffectOf(lock[k]) = k
    /\ \A c \in Calls :
         call[c].session = "open" =>
           /\ call[c].stage \in {"send", "complete", "release"}
           /\ lock[EffectOf(c)] = c

\* A call at the Sender owns the provider attempt, which is in flight for as
\* long as its session lives; the effect has not happened before the Sender
\* answers, and has or has not afterwards as the answer says.
SenderOwns(c) ==
    LET k == EffectOf(c)
    IN  /\ call[c].stage \in {"send", "complete"} =>
             /\ provider[k].capability = c
             /\ provider[k].state # "none"
             /\ call[c].session \in {"open", "lost"}
             /\ call[c].session = "open" => provider[k].state = "in_flight"
        /\ call[c].stage = "send" => effects[k] = 0
        /\ call[c].stage = "complete" =>
             /\ call[c].outcome \in {"applied", "ambiguous", "rejected"}
             /\ call[c].outcome = "applied" => effects[k] = 1
             /\ call[c].outcome = "rejected" => effects[k] = 0

SendersOwnAttempts == \A c \in Calls : SenderOwns(c)

\* Nothing happened before the provider attempt was stored.
NothingBeforeAttempt ==
    \A k \in Effects :
       /\ provider[k].state = "none" => effects[k] = 0
       /\ effects[k] \in {0, 1}

CallInv == CallsKnowTheirEffect /\ LocksAreSessions /\ SendersOwnAttempts

RowInv == TicketsNameAttempts /\ NothingBeforeAttempt /\ ReceiptsTellTheTruth

PlaneInv == PlaneTypeOK /\ CallInv /\ RowInv

-----------------------------------------------------------------------------
(* Types                                                                   *)

\* The effect of a running call is one of Effects.
LEMMA EffectTyped ==
  ASSUME NEW c \in Calls, call[c].operation \in Operations
  PROVE  EffectOf(c) \in Effects
BY Zenon DEF EffectOf, Effects, Calls

\* The empty tables are well typed.
LEMMA TypeInit == PlaneInit => PlaneTypeOK
<1> SUFFICES ASSUME PlaneInit PROVE PlaneTypeOK
  OBVIOUS
<1>1. AuthorityTypes
  BY Zenon DEF PlaneInit, AuthorityTypes
<1>2. NoTicket \in TicketRow /\ NoProvider \in ProviderRow /\ NoCall \in CallRow
  BY Zenon DEF NoTicket, NoProvider, NoCall, TicketRow, ProviderRow, CallRow, RowStates,
         CallStages, CallOutcomes
<1>3. StoreTypes
  BY <1>2, Zenon DEF PlaneInit, StoreTypes
<1>4. CallTypes
  BY <1>2, Zenon DEF PlaneInit, CallTypes
<1> QED
  BY <1>1, <1>3, <1>4, Zenon DEF PlaneTypeOK

\* What a step leaves alone keeps its type.
LEMMA Frames ==
  /\ AuthorityTypes /\ UNCHANGED authority => AuthorityTypes'
  /\ StoreTypes /\ UNCHANGED store => StoreTypes'
<1>1. AuthorityTypes /\ UNCHANGED authority => AuthorityTypes'
  BY Zenon DEF AuthorityTypes, authority
<1>2. StoreTypes /\ UNCHANGED store => StoreTypes'
  BY Zenon DEF StoreTypes, store
<1> QED
  BY <1>1, <1>2, Zenon 

\* A call that moves on is still a call.
LEMMA CallMoves ==
  ASSUME CallTypes, NEW c \in Calls
  PROVE  /\ \A stage \in CallStages : MoveTo(c, stage) => call' \in [Calls -> CallRow]
         /\ \A outcome \in CallOutcomes :
               Return(c, outcome) => call' \in [Calls -> CallRow]
<1>1. ASSUME NEW stage \in CallStages, MoveTo(c, stage)
      PROVE  call' \in [Calls -> CallRow]
  BY <1>1 DEF MoveTo, CallTypes, CallRow
<1>2. ASSUME NEW outcome \in CallOutcomes, Return(c, outcome)
      PROVE  call' \in [Calls -> CallRow]
  <2>1. [call[c] EXCEPT !.stage = "returned", !.outcome = outcome,
                         !.session = "none"] \in CallRow
    <3>1. call[c] \in CallRow /\ "returned" \in CallStages
      BY Zenon DEF CallTypes, CallStages
    <3> QED
      BY <1>2, <3>1, Zenon DEF CallRow
  <2> QED
    BY <1>2, <2>1, Zenon DEF Return, CallTypes
<1> QED
  BY <1>1, <1>2, Zenon 

\* The steps that only move a call on.
LEMMA CallOnlyTypes ==
  ASSUME PlaneTypeOK, call' \in [Calls -> CallRow],
         UNCHANGED <<authority, store, lock, effects>>
  PROVE  PlaneTypeOK'
<1>1. AuthorityTypes' /\ StoreTypes'
  BY Frames, Zenon DEF PlaneTypeOK
<1>2. CallTypes'
  BY Zenon DEF PlaneTypeOK, CallTypes
<1> QED
  BY <1>1, <1>2, Zenon DEF PlaneTypeOK

\* Each row that a step stores is one of its table.
LEMMA RowUpdates ==
  ASSUME PlaneTypeOK, NEW k \in Effects, NEW state \in RowStates
  PROVE  /\ [ticket EXCEPT ![k].state = state] \in [Effects -> TicketRow]
         /\ [ticket EXCEPT ![k].expiry = "passed"] \in [Effects -> TicketRow]
         /\ [provider EXCEPT ![k].state = state] \in [Effects -> ProviderRow]
         /\ \A c \in Calls : [provider EXCEPT ![k] = [state |-> state, capability |-> c]]
               \in [Effects -> ProviderRow]
<1>1. ticket \in [Effects -> TicketRow] /\ provider \in [Effects -> ProviderRow]
  BY Zenon DEF PlaneTypeOK, StoreTypes
<1>2. [ticket EXCEPT ![k].state = state] \in [Effects -> TicketRow]
  BY <1>1, Zenon DEF TicketRow
<1>3. [ticket EXCEPT ![k].expiry = "passed"] \in [Effects -> TicketRow]
  BY <1>1, Zenon DEF TicketRow
<1>4. [provider EXCEPT ![k].state = state] \in [Effects -> ProviderRow]
  BY <1>1, Zenon DEF ProviderRow
<1>5. ASSUME NEW c \in Calls
      PROVE  [provider EXCEPT ![k] = [state |-> state, capability |-> c]]
               \in [Effects -> ProviderRow]
  BY <1>1, Zenon DEF ProviderRow
<1> QED
  BY <1>2, <1>3, <1>4, <1>5, Zenon 

\* Settling an attempt keeps the tables typed.
LEMMA SettleTypes ==
  ASSUME PlaneTypeOK, NEW k \in Effects, NEW state \in RowStates,
         Settle(k, state), UNCHANGED attempt,
         reconciliation' \in [Effects -> {"none", "pending", "applied", "rejected"}]
  PROVE  StoreTypes'
<1>1. ticket' \in [Effects -> TicketRow] /\ provider' \in [Effects -> ProviderRow]
  BY RowUpdates, Zenon DEF Settle
<1>2. receipt' \in [Effects -> Attempts \cup {None}]
  <2>1. ticket[k].attempt \in Attempts \cup {None}
    BY Zenon DEF PlaneTypeOK, StoreTypes, TicketRow
  <2>2. receipt \in [Effects -> Attempts \cup {None}]
    BY Zenon DEF PlaneTypeOK, StoreTypes
  <2> QED
    BY <2>1, <2>2, Zenon DEF Settle
<1>3. attempt' \in [Attempts -> Turns \cup {None}]
  BY Zenon DEF PlaneTypeOK, StoreTypes
<1> QED
  BY <1>1, <1>2, <1>3, Zenon DEF StoreTypes

\* Every step of a call keeps the types.
LEMMA CallStepTypes ==
  ASSUME PlaneTypeOK, CallsKnowTheirEffect, SendersOwnAttempts,
         NEW c \in Calls, CallStep(c)
  PROVE  PlaneTypeOK'
<1> DEFINE k == EffectOf(c)
<1>0. /\ CallTypes
      /\ c[2] \in Turns
      /\ call[c] \in CallRow
      /\ call[c].stage # "none" => k \in Effects /\ call[c].attempt \in Attempts
  <2>1. CallTypes /\ c[2] \in Turns
    BY Zenon DEF PlaneTypeOK, Calls
  <2>2. call[c] \in CallRow
    BY <2>1, Zenon DEF CallTypes
  <2> QED
    BY <2>1, <2>2, EffectTyped, Zenon DEF CallsKnowTheirEffect
<1>1. CASE BindPrivateDelivery(c)
  <2>1. call' \in [Calls -> CallRow]
    BY <1>0, <1>1, CallMoves, Zenon DEF BindPrivateDelivery, CallStages, CallOutcomes
  <2> QED
    BY <1>1, <2>1, CallOnlyTypes, Zenon DEF BindPrivateDelivery
<1>2. CASE InsertTicket(c)
  <2>1. call' \in [Calls -> CallRow]
    BY <1>0, <1>2, CallMoves, Zenon DEF InsertTicket, CallStages, CallOutcomes
  <2>2. k \in Effects /\ call[c].attempt \in Attempts
    BY <1>0, <1>2, Zenon DEF InsertTicket
  <2>3. attempt' \in [Attempts -> Turns \cup {None}]
    BY <1>0, <1>2, <2>2, Zenon DEF InsertTicket, PlaneTypeOK, StoreTypes
  <2>4. [attempt |-> call[c].attempt, payload |-> call[c].payload,
         epoch |-> evidence[c[2]].epoch, state |-> "prepared",
         expiry |-> "ahead"] \in TicketRow
    BY <1>0, <2>2, Zenon DEF TicketRow, RowStates, CallRow, PlaneTypeOK, AuthorityTypes
  <2>5. ticket' \in [Effects -> TicketRow]
    BY <1>2, <2>2, <2>4, Zenon DEF InsertTicket, PlaneTypeOK, StoreTypes
  <2>6. StoreTypes'
    BY <1>2, <2>3, <2>5, Zenon DEF InsertTicket, PlaneTypeOK, StoreTypes
  <2>7. CallTypes' /\ AuthorityTypes'
    BY <1>2, <2>1, Frames, Zenon DEF InsertTicket, PlaneTypeOK, CallTypes
  <2> QED
    BY <2>6, <2>7, Zenon DEF PlaneTypeOK
<1>3. CASE ReuseTicket(c)
  <2>1. call' \in [Calls -> CallRow]
    BY <1>0, <1>3, CallMoves, Zenon DEF ReuseTicket, CallStages
  <2> QED
    BY <1>3, <2>1, CallOnlyTypes, Zenon DEF ReuseTicket
<1>4. CASE RefusePrepare(c)
  <2>1. call' \in [Calls -> CallRow]
    BY <1>0, <1>4, CallMoves, Zenon DEF RefusePrepare, CallOutcomes
  <2> QED
    BY <1>4, <2>1, CallOnlyTypes, Zenon DEF RefusePrepare
<1>5. CASE BeginReplay(c)
  <2>1. k \in Effects /\ ticket[k].state \in RowStates \ {"none", "prepared"}
    BY <1>0, <1>5, Zenon DEF BeginReplay, CallsKnowTheirEffect, PlaneTypeOK, StoreTypes, TicketRow
  <2>2. ReplayOutcome(ticket[k].state) \in CallOutcomes
    BY <2>1, Zenon DEF ReplayOutcome, CallOutcomes, RowStates
  <2>3. call' \in [Calls -> CallRow]
    BY <1>0, <1>5, <2>2, CallMoves, Zenon DEF BeginReplay
  <2> QED
    BY <1>5, <2>3, CallOnlyTypes, Zenon DEF BeginReplay
<1>6. CASE BeginSend(c)
  <2>1. k \in Effects
    BY <1>0, <1>6, Zenon DEF BeginSend
  <2>2. [call[c] EXCEPT !.stage = "send", !.session = "open"] \in CallRow
    BY <1>0, Zenon DEF CallRow, CallStages
  <2>3. call' \in [Calls -> CallRow]
    <3>1. CASE call' = [call EXCEPT ![c] = [@ EXCEPT !.stage = "send", !.session = "open"]]
      BY <1>0, <2>2, <3>1, Zenon DEF CallTypes
    <3>2. CASE Return(c, "rejected")
      BY <1>0, <3>2, CallMoves, Zenon DEF CallOutcomes
    <3> QED
      BY <1>6, <3>1, <3>2, Zenon DEF BeginSend
  <2>4. lock' \in [Effects -> Calls \cup {None}]
    BY <1>0, <1>6, Zenon DEF BeginSend, CallTypes
  <2>5. ticket' \in [Effects -> TicketRow] /\ provider' \in [Effects -> ProviderRow]
    BY <1>6, <2>1, RowUpdates, Zenon DEF BeginSend, RowStates
  <2>6. StoreTypes' /\ AuthorityTypes'
    BY <1>6, <2>5, Frames, Zenon DEF BeginSend, PlaneTypeOK, StoreTypes
  <2>7. CallTypes'
    BY <1>0, <1>6, <2>3, <2>4, Zenon DEF BeginSend, CallTypes
  <2> QED
    BY <2>6, <2>7, Zenon DEF PlaneTypeOK
<1>7. CASE RefuseBegin(c)
  <2>1. call' \in [Calls -> CallRow]
    BY <1>0, <1>7, CallMoves, Zenon DEF RefuseBegin, CallOutcomes
  <2> QED
    BY <1>7, <2>1, CallOnlyTypes, Zenon DEF RefuseBegin
<1>8. ASSUME NEW outcome \in {"applied", "ambiguous", "rejected"},
             NEW happened \in 0..1, Send(c, outcome, happened)
      PROVE  PlaneTypeOK'
  <2>1. [call[c] EXCEPT !.stage = "complete", !.outcome = outcome] \in CallRow
    BY <1>0, Zenon DEF CallRow, CallStages, CallOutcomes
  <2>2. call' \in [Calls -> CallRow]
    BY <1>0, <1>8, <2>1, Zenon DEF Send, CallTypes
  <2>3. effects' \in [Effects -> Nat]
    BY <1>0, <1>8 DEF Send, CallTypes
  <2>4. StoreTypes' /\ AuthorityTypes'
    BY <1>8, Frames, Zenon DEF Send, PlaneTypeOK
  <2>5. CallTypes'
    BY <1>0, <1>8, <2>2, <2>3, Zenon DEF Send, CallTypes
  <2> QED
    BY <2>4, <2>5, Zenon DEF PlaneTypeOK
<1>9. CASE CompleteEffect(c)
  <2> DEFINE state == Completed(k, call[c].outcome)
  <2>1. k \in Effects /\ state \in RowStates /\ state \in CallOutcomes
    <3>1. k \in Effects
      BY <1>0, <1>9, Zenon DEF CompleteEffect
    <3>2. call[c].outcome \in {"applied", "ambiguous", "rejected"}
      BY <1>9, Zenon DEF CompleteEffect, SendersOwnAttempts, SenderOwns
    <3>3. provider[k].state = "in_flight"
      BY <1>9, Zenon DEF CompleteEffect, MayComplete, SendersOwnAttempts, SenderOwns
    <3> QED
      BY <3>1, <3>2, <3>3, Zenon DEF Completed, RowStates, CallOutcomes
  <2>2. PICK reply \in {state, "ambiguous"} :
           call' = [call EXCEPT ![c] = [@ EXCEPT !.stage = "release", !.outcome = reply]]
    BY <1>9, Zenon DEF CompleteEffect
  <2>3. reply \in CallOutcomes
    BY <2>1, Zenon DEF CallOutcomes
  <2>4. [call[c] EXCEPT !.stage = "release", !.outcome = reply] \in CallRow
    BY <1>0, <2>3, Zenon DEF CallRow, CallStages
  <2>5. call' \in [Calls -> CallRow]
    BY <1>0, <2>2, <2>4, Zenon DEF CallTypes
  <2>6. reconciliation' \in [Effects -> {"none", "pending", "applied", "rejected"}]
    BY <1>9, Zenon DEF CompleteEffect, PlaneTypeOK, StoreTypes
  <2>7. StoreTypes'
    BY <1>9, <2>1, <2>6, SettleTypes, Zenon DEF CompleteEffect
  <2>8. AuthorityTypes' /\ CallTypes'
    BY <1>0, <1>9, <2>5, Frames, Zenon DEF CompleteEffect, PlaneTypeOK, CallTypes
  <2> QED
    BY <2>7, <2>8, Zenon DEF PlaneTypeOK
<1>10. CASE CompletionLost(c)
  <2>1. [call[c] EXCEPT !.stage = "release", !.outcome = "ambiguous"] \in CallRow
    BY <1>0, Zenon DEF CallRow, CallStages, CallOutcomes
  <2>2. call' \in [Calls -> CallRow]
    BY <1>0, <1>10, <2>1, Zenon DEF CompletionLost, CallTypes
  <2> QED
    BY <1>10, <2>2, CallOnlyTypes, Zenon DEF CompletionLost
<1>11. CASE ReleaseSession(c)
  <2>1. PerformOutcome(call[c].outcome) \in CallOutcomes
    BY <1>0, Zenon DEF PerformOutcome, CallRow, CallOutcomes
  <2>2. call' \in [Calls -> CallRow]
    BY <1>0, <1>11, <2>1, CallMoves, Zenon DEF ReleaseSession
  <2>3. lock' \in [Effects -> Calls \cup {None}]
    BY <1>0, <1>11, Zenon DEF ReleaseSession, CallTypes
  <2>4. AuthorityTypes' /\ StoreTypes'
    BY <1>11, Frames, Zenon DEF ReleaseSession, PlaneTypeOK
  <2>5. CallTypes'
    BY <1>0, <1>11, <2>2, <2>3, Zenon DEF ReleaseSession, CallTypes
  <2> QED
    BY <2>4, <2>5, Zenon DEF PlaneTypeOK
<1> QED
  BY <1>1, <1>2, <1>3, <1>4, <1>5, <1>6, <1>7, <1>8, <1>9, <1>10, <1>11, Zenon DEF CallStep

\* Every step keeps the types.
LEMMA TypeStep ==
  ASSUME PlaneTypeOK, CallsKnowTheirEffect, SendersOwnAttempts, PlaneNext
  PROVE  PlaneTypeOK'
<1>1. CASE AuthorityStep
  <2>1. UNCHANGED <<lock, effects, call>>
    BY <1>1, Zenon DEF AuthorityStep, AdvancePolicyEpoch, EndMembership, ExpireEvidence,
                ExpireTicket
  <2>2. CallTypes'
    BY <2>1, Zenon DEF PlaneTypeOK, CallTypes
  <2>3. CASE AdvancePolicyEpoch \/ EndMembership \/ \E t \in Turns : ExpireEvidence(t)
    <3>1. AuthorityTypes'
      BY <2>3 DEF AdvancePolicyEpoch, EndMembership, ExpireEvidence, PlaneTypeOK,
                  AuthorityTypes
    <3>2. StoreTypes'
      BY <2>3, Frames, Zenon DEF AdvancePolicyEpoch, EndMembership, ExpireEvidence, PlaneTypeOK
    <3> QED
      BY <2>2, <3>1, <3>2, Zenon DEF PlaneTypeOK
  <2>4. ASSUME NEW k \in Effects, ExpireTicket(k)
        PROVE  PlaneTypeOK'
    <3>1. AuthorityTypes'
      BY <2>4, Frames, Zenon DEF ExpireTicket, PlaneTypeOK
    <3>2. "none" \in RowStates
      BY Zenon DEF RowStates
    <3>3. ticket' \in [Effects -> TicketRow]
      BY <2>4, <3>2, RowUpdates, Zenon DEF ExpireTicket
    <3>4. StoreTypes'
      BY <2>4, <3>3, Zenon DEF ExpireTicket, PlaneTypeOK, StoreTypes
    <3> QED
      BY <2>2, <3>1, <3>4, Zenon DEF PlaneTypeOK
  <2> QED
    BY <1>1, <2>3, <2>4, Zenon DEF AuthorityStep
<1>2. ASSUME NEW c \in Calls, NEW operation \in Operations, NEW p \in Payloads,
             NEW a \in Attempts, PreparePrivateDeliveryEffect(c, operation, p, a)
      PROVE  PlaneTypeOK'
  <2>1. [stage |-> "bind", operation |-> operation, payload |-> p, attempt |-> a,
         session |-> "none", outcome |-> "none"] \in CallRow
    BY Zenon DEF CallRow, CallStages, CallOutcomes
  <2>2. call' \in [Calls -> CallRow]
    BY <1>2, <2>1, Zenon DEF PreparePrivateDeliveryEffect, PlaneTypeOK, CallTypes
  <2> QED
    BY <1>2, <2>2, CallOnlyTypes, Zenon DEF PreparePrivateDeliveryEffect
<1>3. ASSUME NEW c \in Calls, CallStep(c)
      PROVE  PlaneTypeOK'
  BY <1>3, CallStepTypes, Zenon 
<1>4. ASSUME NEW c \in Calls, TakeOutcome(c)
      PROVE  PlaneTypeOK'
  <2>1. NoCall \in CallRow
    BY Zenon DEF NoCall, CallRow, CallStages, CallOutcomes
  <2>2. call' \in [Calls -> CallRow]
    BY <1>4, <2>1, Zenon DEF TakeOutcome, PlaneTypeOK, CallTypes
  <2> QED
    BY <1>4, <2>2, CallOnlyTypes, Zenon DEF TakeOutcome
<1>5. ASSUME NEW c \in Calls, LoseSession(c)
      PROVE  PlaneTypeOK'
  <2>1. call' \in [Calls -> CallRow]
    BY <1>5 DEF LoseSession, PlaneTypeOK, CallTypes, CallRow
  <2>2. lock' \in [Effects -> Calls \cup {None}]
    BY <1>5, Zenon DEF LoseSession, PlaneTypeOK, CallTypes
  <2>3. CallTypes'
    BY <1>5, <2>1, <2>2, Zenon DEF LoseSession, PlaneTypeOK, CallTypes
  <2> QED
    BY <1>5, <2>3, Frames, Zenon DEF LoseSession, PlaneTypeOK
<1>6. ASSUME NEW b \in Bots, CrashPlane(b)
      PROVE  PlaneTypeOK'
  <2>1. NoCall \in CallRow
    BY Zenon DEF NoCall, CallRow, CallStages, CallOutcomes
  <2>2. CallTypes'
    BY <1>6, <2>1, Zenon DEF CrashPlane, PlaneTypeOK, CallTypes
  <2> QED
    BY <1>6, <2>2, Frames, Zenon DEF CrashPlane, PlaneTypeOK
<1>7. ASSUME NEW b \in Bots, NEW k \in Effects, Reconcile(b, k)
      PROVE  PlaneTypeOK'
  <2>1. Disposition(k) \in RowStates /\ Disposition(k) \in {"applied", "rejected"}
    BY Zenon DEF Disposition, RowStates
  <2>2. reconciliation' \in [Effects -> {"none", "pending", "applied", "rejected"}]
    BY <1>7, <2>1, Zenon DEF Reconcile, PlaneTypeOK, StoreTypes
  <2>3. StoreTypes'
    BY <1>7, <2>1, <2>2, SettleTypes, Zenon DEF Reconcile
  <2>4. CallTypes'
    BY <1>7, Zenon DEF Reconcile, PlaneTypeOK, CallTypes
  <2> QED
    BY <1>7, <2>3, <2>4, Frames, Zenon DEF Reconcile, PlaneTypeOK
<1> QED
  BY <1>1, <1>2, <1>3, <1>4, <1>5, <1>6, <1>7, Zenon DEF PlaneNext

-----------------------------------------------------------------------------
(* The inductive invariant                                                 *)

\* Nothing has been started.
LEMMA InvInit == PlaneInit => PlaneInv
<1> SUFFICES ASSUME PlaneInit PROVE PlaneInv
  OBVIOUS
<1>1. CallInv
  BY Zenon DEF PlaneInit, CallInv, CallsKnowTheirEffect, LocksAreSessions,
         SendersOwnAttempts, SenderOwns, NoCall
<1>2. RowInv
  BY Zenon DEF PlaneInit, RowInv, TicketsNameAttempts, NothingBeforeAttempt,
         ReceiptsTellTheTruth, NoTicket, NoProvider
<1> QED
  BY <1>1, <1>2, TypeInit, Zenon DEF PlaneInv

\* The rows are as good as they were when none of them changes.
LEMMA RowFrame ==
  ASSUME RowInv, UNCHANGED <<ticket, provider, receipt, reconciliation, effects>>
  PROVE  RowInv'
BY Zenon DEF RowInv, TicketsNameAttempts, NothingBeforeAttempt, ReceiptsTellTheTruth

\* A call without an open session moves on, away from the Sender, while no
\* ticket disappears.
LEMMA QuietCall ==
  ASSUME PlaneInv, NEW c \in Calls, NEW r \in CallRow,
         call' = [call EXCEPT ![c] = r],
         UNCHANGED <<provider, lock, effects>>,
         \A k \in Effects : ticket[k].state # "none" => ticket'[k].state # "none",
         call[c].session # "open", r.session # "open",
         r.stage \notin {"send", "complete"},
         r.stage # "none" => r.operation \in Operations /\ r.attempt \in Attempts,
         r.stage = "begin" => ticket'[<<c[2], r.operation>>].state # "none"
  PROVE  CallInv'
<1>2. /\ call'[c] = r
      /\ \A d \in Calls \ {c} : call'[d] = call[d] /\ EffectOf(d)' = EffectOf(d)
      /\ EffectOf(c)' = <<c[2], r.operation>>
  BY Zenon DEF PlaneInv, PlaneTypeOK, CallTypes, EffectOf
<1>3. CallsKnowTheirEffect'
  <2>1. ASSUME NEW d \in Calls, call[d].stage = "begin"
        PROVE  EffectOf(d) \in Effects
    BY <2>1, EffectTyped, Zenon DEF PlaneInv, CallInv, CallsKnowTheirEffect
  <2> QED
    BY <1>2, <2>1 DEF PlaneInv, CallInv, CallsKnowTheirEffect
<1>4. LocksAreSessions'
  BY <1>2, SMTT(60) DEF PlaneInv, CallInv, LocksAreSessions, PlaneTypeOK, CallTypes
<1>5. SendersOwnAttempts'
  BY <1>2 DEF PlaneInv, CallInv, SendersOwnAttempts, SenderOwns
<1> QED
  BY <1>3, <1>4, <1>5, Zenon DEF CallInv

\* Expiry and policy changes touch no state of a ticket, only its validity.
LEMMA AuthorityKeeps ==
  ASSUME PlaneInv, AuthorityStep
  PROVE  CallInv' /\ RowInv'
<1>1. /\ UNCHANGED <<provider, receipt, reconciliation, lock, effects, call>>
      /\ \A k \in Effects : /\ ticket'[k].state = ticket[k].state
                            /\ ticket'[k].attempt = ticket[k].attempt
  <2>1. CASE UNCHANGED ticket
    BY <2>1, Zenon DEF AuthorityStep, AdvancePolicyEpoch, EndMembership, ExpireEvidence,
                ExpireTicket, store
  <2>2. ASSUME NEW k \in Effects, ExpireTicket(k)
        PROVE  <1>1
    BY <2>2, Zenon DEF ExpireTicket, PlaneInv, PlaneTypeOK, StoreTypes, TicketRow
  <2> QED
    BY <2>1, <2>2, Zenon DEF AuthorityStep, AdvancePolicyEpoch, EndMembership,
                      ExpireEvidence, store
<1>2. RowInv'
  BY <1>1 DEF PlaneInv, RowInv, TicketsNameAttempts, NothingBeforeAttempt,
              ReceiptsTellTheTruth
<1>3. \A c \in Calls : EffectOf(c)' = EffectOf(c)
  BY <1>1, Zenon DEF EffectOf
<1>4. CallsKnowTheirEffect'
  <2>1. ASSUME NEW c \in Calls, call[c].stage = "begin"
        PROVE  EffectOf(c) \in Effects
    BY <2>1, EffectTyped, Zenon DEF PlaneInv, CallInv, CallsKnowTheirEffect
  <2> QED
    BY <1>1, <1>3, <2>1, Zenon DEF PlaneInv, CallInv, CallsKnowTheirEffect
<1>5. LocksAreSessions' /\ SendersOwnAttempts'
  BY <1>1, ZenonT(60) DEF PlaneInv, CallInv, LocksAreSessions, SendersOwnAttempts, SenderOwns, EffectOf
<1> QED
  BY <1>2, <1>4, <1>5, Zenon DEF CallInv

\* What a call between prepare and begin looks like.
LEMMA CallFacts ==
  ASSUME PlaneInv, NEW c \in Calls, call[c].stage # "none"
  PROVE  /\ call[c] \in CallRow
         /\ call[c].operation \in Operations
         /\ call[c].attempt \in Attempts
         /\ EffectOf(c) \in Effects
         /\ EffectOf(c) = <<c[2], call[c].operation>>
         /\ call[c].stage \in {"bind", "prepare", "begin", "returned"} =>
              call[c].session # "open"
<1>1. call[c] \in CallRow
  BY Zenon DEF PlaneInv, PlaneTypeOK, CallTypes
<1>2. call[c].operation \in Operations /\ call[c].attempt \in Attempts
  BY Zenon DEF PlaneInv, CallInv, CallsKnowTheirEffect
<1>3. EffectOf(c) \in Effects /\ EffectOf(c) = <<c[2], call[c].operation>>
  BY <1>2, EffectTyped, Zenon DEF EffectOf
<1>4. call[c].stage \in {"bind", "prepare", "begin", "returned"} =>
        call[c].session # "open"
  BY Zenon DEF PlaneInv, CallInv, LocksAreSessions
<1> QED
  BY <1>1, <1>2, <1>3, <1>4, Zenon 

\* Returning without a session.
LEMMA ReturnKeeps ==
  ASSUME PlaneInv, NEW c \in Calls,
         call[c].stage \in {"bind", "prepare", "begin"},
         UNCHANGED <<provider, lock, effects>>,
         \A k \in Effects : ticket[k].state # "none" => ticket'[k].state # "none",
         NEW outcome \in CallOutcomes, Return(c, outcome)
  PROVE  CallInv'
<1> DEFINE r == [call[c] EXCEPT !.stage = "returned", !.outcome = outcome,
                                !.session = "none"]
<1>0. /\ call[c] \in CallRow
      /\ call[c].operation \in Operations
      /\ call[c].attempt \in Attempts
      /\ call[c].session # "open"
  BY CallFacts, Zenon 
<1>1. call' = [call EXCEPT ![c] = r]
  BY Zenon DEF Return
<1>2. r \in CallRow
  <2>1. "returned" \in CallStages
    BY Zenon DEF CallStages
  <2> QED
    BY <1>0, <2>1, Zenon DEF CallRow
<1>3. /\ r.session = "none" /\ r.stage = "returned"
      /\ r.operation = call[c].operation /\ r.attempt = call[c].attempt
  BY <1>0, Zenon DEF CallRow
<1> HIDE DEF r
<1> QED
  BY <1>0, <1>1, <1>2, <1>3, QuietCall, Zenon 

\* Moving on to the next database call.
LEMMA MoveKeeps ==
  ASSUME PlaneInv, NEW c \in Calls,
         call[c].stage \in {"bind", "prepare", "begin"},
         UNCHANGED <<provider, lock, effects>>,
         \A k \in Effects : ticket[k].state # "none" => ticket'[k].state # "none",
         NEW stage \in {"prepare", "begin"}, MoveTo(c, stage),
         stage = "begin" => ticket'[EffectOf(c)].state # "none"
  PROVE  CallInv'
<1> DEFINE r == [call[c] EXCEPT !.stage = stage]
<1>0. /\ call[c] \in CallRow
      /\ call[c].operation \in Operations
      /\ call[c].attempt \in Attempts
      /\ EffectOf(c) = <<c[2], call[c].operation>>
      /\ call[c].session # "open"
  BY CallFacts, Zenon 
<1>1. call' = [call EXCEPT ![c] = r]
  BY Zenon DEF MoveTo
<1>2. r \in CallRow
  <2>1. stage \in CallStages
    BY Zenon DEF CallStages
  <2> QED
    BY <1>0, <2>1, Zenon DEF CallRow
<1>3. /\ r.session = call[c].session /\ r.stage = stage
      /\ r.operation = call[c].operation /\ r.attempt = call[c].attempt
  BY <1>0, Zenon DEF CallRow
<1> HIDE DEF r
<1>4. /\ r.stage = "begin" => ticket'[<<c[2], r.operation>>].state # "none"
      /\ r.stage \notin {"send", "complete"}
      /\ r.session # "open"
      /\ r.operation \in Operations /\ r.attempt \in Attempts
  BY <1>0, <1>3, Zenon 
<1> QED
  BY <1>0, <1>1, <1>2, <1>4, QuietCall, Zenon 

\* Up to begin, a perform only prepares.
LEMMA PrepareKeeps ==
  ASSUME PlaneInv, NEW c \in Calls,
         \/ BindPrivateDelivery(c) \/ InsertTicket(c) \/ ReuseTicket(c)
         \/ RefusePrepare(c) \/ BeginReplay(c) \/ RefuseBegin(c)
  PROVE  CallInv' /\ RowInv'
<1> USE DEF store
<1>0. "denied" \in CallOutcomes /\ "rejected" \in CallOutcomes
  BY Zenon DEF CallOutcomes
<1>1. CASE BindPrivateDelivery(c)
  BY <1>0, <1>1, ReturnKeeps, MoveKeeps, RowFrame, Zenon DEF BindPrivateDelivery, PlaneInv
<1>2. CASE InsertTicket(c)
  <2> DEFINE k == EffectOf(c)
  <2>1. k \in Effects /\ call[c].attempt \in Attempts /\ ticket[k].state = "none"
    BY <1>2, CallFacts, Zenon DEF InsertTicket
  <2>2. /\ ticket'[k].state = "prepared" /\ ticket'[k].attempt = call[c].attempt
        /\ \A j \in Effects \ {k} : ticket'[j] = ticket[j]
    BY <1>2, <2>1, Zenon DEF InsertTicket, PlaneInv, PlaneTypeOK, StoreTypes
  <2>3. RowInv'
    BY <1>2, <2>1, <2>2, SMTT(60) DEF InsertTicket, PlaneInv, RowInv, TicketsNameAttempts,
                            NothingBeforeAttempt, ReceiptsTellTheTruth
  <2>4. \A j \in Effects : ticket[j].state # "none" => ticket'[j].state # "none"
    BY <2>2, Zenon 
  <2>5. CallInv'
    BY <1>0, <1>2, <2>2, <2>4, ReturnKeeps, MoveKeeps, Zenon DEF InsertTicket
  <2> QED
    BY <2>3, <2>5, Zenon 
<1>3. CASE ReuseTicket(c)
  BY <1>3, MoveKeeps, RowFrame, Zenon DEF ReuseTicket, PlaneInv
<1>4. CASE RefusePrepare(c)
  BY <1>0, <1>4, ReturnKeeps, RowFrame, Zenon DEF RefusePrepare, PlaneInv
<1>5. CASE BeginReplay(c)
  <2>1. /\ EffectOf(c) \in Effects
        /\ ticket[EffectOf(c)].state \in RowStates \ {"none", "prepared"}
    BY <1>5, CallFacts, Zenon DEF BeginReplay, PlaneInv, CallInv, CallsKnowTheirEffect,
                           PlaneTypeOK, StoreTypes, TicketRow
  <2>2. ReplayOutcome(ticket[EffectOf(c)].state) \in CallOutcomes
    BY <2>1, Zenon DEF ReplayOutcome, CallOutcomes, RowStates
  <2> QED
    BY <1>5, <2>2, ReturnKeeps, RowFrame, Zenon DEF BeginReplay, PlaneInv
<1>6. CASE RefuseBegin(c)
  BY <1>0, <1>6, ReturnKeeps, RowFrame, Zenon DEF RefuseBegin, PlaneInv
<1> QED
  BY <1>1, <1>2, <1>3, <1>4, <1>5, <1>6, Zenon 

\* begin stores the provider attempt before the Sender is called.
LEMMA BeginKeeps ==
  ASSUME PlaneInv, NEW c \in Calls, BeginSend(c)
  PROVE  CallInv' /\ RowInv'
<1> DEFINE k == EffectOf(c)
<1>1. /\ k \in Effects /\ k = <<c[2], call[c].operation>>
      /\ call[c] \in CallRow /\ call[c].session # "open"
      /\ call[c].operation \in Operations /\ call[c].attempt \in Attempts
      /\ call[c].stage = "begin"
      /\ ticket[k].state = "prepared" /\ provider[k].state = "none"
      /\ lock[k] = None
  BY CallFacts, Zenon DEF BeginSend, MaySend
<1>2. /\ ticket'[k].state = "in_flight" /\ ticket'[k].attempt = ticket[k].attempt
      /\ \A j \in Effects \ {k} : ticket'[j] = ticket[j]
  BY <1>1 DEF BeginSend, PlaneInv, PlaneTypeOK, StoreTypes, TicketRow
<1>3. /\ provider'[k].state = "in_flight" /\ provider'[k].capability = c
      /\ \A j \in Effects \ {k} : provider'[j] = provider[j]
  BY <1>1, Zenon DEF BeginSend, PlaneInv, PlaneTypeOK, StoreTypes
<1>4. effects[k] = 0 /\ UNCHANGED <<receipt, reconciliation, effects>>
  BY <1>1, Zenon DEF PlaneInv, RowInv, NothingBeforeAttempt, BeginSend
<1>5. RowInv'
  BY <1>1, <1>2, <1>3, <1>4, SMTT(60) DEF PlaneInv, RowInv, TicketsNameAttempts,
                                NothingBeforeAttempt, ReceiptsTellTheTruth
<1>6. \A d \in Calls : call[d].stage \in {"send", "complete"} => EffectOf(d) # k
  BY <1>1 DEF PlaneInv, CallInv, SendersOwnAttempts, SenderOwns
<1>7. CASE Return(c, "rejected") /\ UNCHANGED lock
  <2>1. /\ call'[c].stage = "returned" /\ call'[c].session = "none"
        /\ call'[c].operation = call[c].operation /\ call'[c].attempt = call[c].attempt
        /\ \A d \in Calls \ {c} : call'[d] = call[d]
    BY <1>1, <1>7, Zenon DEF Return, PlaneInv, PlaneTypeOK, CallTypes, CallRow
  <2>2. \A d \in Calls : EffectOf(d)' = EffectOf(d)
    BY <2>1, Zenon DEF EffectOf
  <2>3. CallsKnowTheirEffect'
    BY <1>1, <1>2, <2>1, <2>2, EffectTyped, SMTT(60) DEF PlaneInv, CallInv, CallsKnowTheirEffect
  <2>4. LocksAreSessions'
    BY <1>1, <1>7, <2>1, <2>2, SMTT(60) DEF PlaneInv, CallInv, LocksAreSessions, PlaneTypeOK, CallTypes
  <2>5. SendersOwnAttempts'
    <3> SUFFICES ASSUME NEW d \in Calls
                 PROVE  SenderOwns(d)'
      BY Zenon DEF SendersOwnAttempts
    <3>1. CASE call'[d].stage \in {"send", "complete"}
      <4>1. call'[d] = call[d] /\ EffectOf(d)' = EffectOf(d) /\ EffectOf(d) # k
        BY <1>6, <2>1, <2>2, <3>1, Zenon 
      <4>2. EffectOf(d) \in Effects
        BY <3>1, <4>1, CallFacts, Zenon 
      <4> QED
        BY <1>3, <1>4, <4>1, <4>2, SMTT(60) DEF PlaneInv, CallInv, SendersOwnAttempts, SenderOwns
    <3> QED
      BY <3>1, Zenon DEF SenderOwns
  <2> QED
    BY <1>5, <2>3, <2>4, <2>5, Zenon DEF CallInv
<1>8. CASE /\ lock' = [lock EXCEPT ![k] = c]
           /\ call' = [call EXCEPT ![c] = [@ EXCEPT !.stage = "send", !.session = "open"]]
  <2>1. /\ call'[c].stage = "send" /\ call'[c].session = "open"
        /\ call'[c].operation = call[c].operation /\ call'[c].attempt = call[c].attempt
        /\ \A d \in Calls \ {c} : call'[d] = call[d]
    BY <1>1, <1>8, Zenon DEF PlaneInv, PlaneTypeOK, CallTypes, CallRow
  <2>2. \A d \in Calls : EffectOf(d)' = EffectOf(d)
    BY <2>1, Zenon DEF EffectOf
  <2>3. CallsKnowTheirEffect'
    BY <1>1, <1>2, <2>1, <2>2, EffectTyped DEF PlaneInv, CallInv, CallsKnowTheirEffect
  <2>4. lock'[k] = c /\ \A j \in Effects \ {k} : lock'[j] = lock[j]
    BY <1>1, <1>8, Zenon DEF PlaneInv, PlaneTypeOK, CallTypes
  <2>5. LocksAreSessions'
    <3>1. \A d \in Calls : call[d].session = "open" =>
             EffectOf(d) \in Effects /\ EffectOf(d) # k
      <4> SUFFICES ASSUME NEW d \in Calls, call[d].session = "open"
                   PROVE  EffectOf(d) \in Effects /\ EffectOf(d) # k
        OBVIOUS
      <4>1. call[d].stage # "none" /\ lock[EffectOf(d)] = d
        BY Zenon DEF PlaneInv, CallInv, LocksAreSessions
      <4>2. d # None
        BY ActionPlaneAssumption, Zenon DEF Calls
      <4> QED
        BY <1>1, <4>1, <4>2, CallFacts, Zenon 
    <3> QED
      BY <1>1, <2>1, <2>2, <2>4, <3>1, SMTT(60) DEF PlaneInv, CallInv, LocksAreSessions,
                                          PlaneTypeOK, CallTypes
  <2>6. SendersOwnAttempts'
    <3> SUFFICES ASSUME NEW d \in Calls
                 PROVE  SenderOwns(d)'
      BY Zenon DEF SendersOwnAttempts
    <3>1. CASE d = c
      BY <1>3, <1>4, <2>1, <2>2, <3>1, Zenon DEF SenderOwns
    <3>2. CASE d # c /\ call'[d].stage \in {"send", "complete"}
      <4>1. call'[d] = call[d] /\ EffectOf(d)' = EffectOf(d) /\ EffectOf(d) # k
        BY <1>6, <2>1, <2>2, <3>2, Zenon 
      <4>2. EffectOf(d) \in Effects
        BY <3>2, <4>1, CallFacts, Zenon 
      <4> QED
        BY <1>3, <1>4, <4>1, <4>2 DEF PlaneInv, CallInv, SendersOwnAttempts, SenderOwns
    <3> QED
      BY <3>1, <3>2, Zenon DEF SenderOwns
  <2> QED
    BY <1>5, <2>3, <2>5, <2>6, Zenon DEF CallInv
<1> QED
  BY <1>7, <1>8, Zenon DEF BeginSend

\* Two calls never own the same provider attempt.
LEMMA OneSender ==
  ASSUME PlaneInv, NEW c \in Calls, NEW d \in Calls \ {c},
         call[c].stage \in {"send", "complete"},
         call[d].stage \in {"send", "complete"}
  PROVE  EffectOf(c) # EffectOf(d)
BY DEF PlaneInv, CallInv, SendersOwnAttempts, SenderOwns

\* The Sender's answer is only remembered.
LEMMA SendKeeps ==
  ASSUME PlaneInv, NEW c \in Calls, NEW outcome \in {"applied", "ambiguous", "rejected"},
         NEW happened \in 0..1, Send(c, outcome, happened)
  PROVE  CallInv' /\ RowInv'
<1> DEFINE k == EffectOf(c)
<1>1. /\ k \in Effects /\ call[c] \in CallRow /\ call[c].stage = "send"
      /\ call[c].operation \in Operations /\ call[c].attempt \in Attempts
      /\ effects[k] = 0 /\ provider[k].state # "none" /\ provider[k].capability = c
      /\ call[c].session \in {"open", "lost"}
      /\ call[c].session = "open" => provider[k].state = "in_flight"
  BY CallFacts, Zenon DEF Send, PlaneInv, CallInv, SendersOwnAttempts, SenderOwns
<1>2. /\ effects'[k] = happened
      /\ \A j \in Effects \ {k} : effects'[j] = effects[j]
      /\ UNCHANGED <<ticket, provider, receipt, reconciliation, lock>>
  BY <1>1 DEF Send, PlaneInv, PlaneTypeOK, CallTypes, store
<1>3. /\ call'[c].stage = "complete" /\ call'[c].outcome = outcome
      /\ call'[c].session = call[c].session
      /\ call'[c].operation = call[c].operation /\ call'[c].attempt = call[c].attempt
      /\ \A d \in Calls \ {c} : call'[d] = call[d]
  BY <1>1, Zenon DEF Send, PlaneInv, PlaneTypeOK, CallTypes, CallRow
<1>4. \A d \in Calls : EffectOf(d)' = EffectOf(d)
  BY <1>3, Zenon DEF EffectOf
<1>5. RowInv'
  <2>1. ticket[k].state # "applied"
    BY <1>1, SMTT(60) DEF PlaneInv, RowInv, ReceiptsTellTheTruth
  <2> QED
    BY <1>1, <1>2, <2>1, SMTT(60) DEF PlaneInv, RowInv, TicketsNameAttempts,
                            NothingBeforeAttempt, ReceiptsTellTheTruth
<1>6. CallsKnowTheirEffect'
  BY <1>1, <1>2, <1>3, <1>4, SMTT(60) DEF PlaneInv, CallInv, CallsKnowTheirEffect
<1>7. LocksAreSessions'
  BY <1>1, <1>2, <1>3, <1>4, SMTT(60) DEF PlaneInv, CallInv, LocksAreSessions, PlaneTypeOK, CallTypes
<1>8. SendersOwnAttempts'
  <2> SUFFICES ASSUME NEW d \in Calls
               PROVE  SenderOwns(d)'
    BY Zenon DEF SendersOwnAttempts
  <2>1. CASE d = c
    BY <1>1, <1>2, <1>3, <1>4, <2>1, Zenon DEF SenderOwns, Send
  <2>2. CASE d # c /\ call[d].stage \in {"send", "complete"}
    <3>1. EffectOf(d) \in Effects \ {k}
      BY <1>1, <2>2, CallFacts, OneSender, Zenon 
    <3> QED
      BY <1>2, <1>3, <1>4, <2>2, <3>1, SMTT(60) DEF PlaneInv, CallInv, SendersOwnAttempts, SenderOwns
  <2>3. CASE d # c /\ call[d].stage \notin {"send", "complete"}
    BY <1>3, <2>3, Zenon DEF SenderOwns
  <2> QED
    BY <2>1, <2>2, <2>3, Zenon 
<1> QED
  BY <1>5, <1>6, <1>7, <1>8, Zenon DEF CallInv

\* Settling an open attempt with what really happened keeps the rows true.
LEMMA SettleKeeps ==
  ASSUME PlaneInv, NEW k \in Effects, NEW state \in {"applied", "rejected", "ambiguous"},
         Settle(k, state), UNCHANGED effects,
         provider[k].state \in {"in_flight", "ambiguous"},
         state = "applied" => effects[k] = 1,
         (reconciliation'[k] = "pending") <=> (state = "ambiguous"),
         \A j \in Effects \ {k} : reconciliation'[j] = reconciliation[j]
  PROVE  /\ RowInv'
         /\ ticket'[k].state = state /\ provider'[k].state = state
         /\ provider'[k].capability = provider[k].capability
         /\ \A j \in Effects \ {k} : /\ ticket'[j] = ticket[j]
                                     /\ provider'[j] = provider[j]
<1>1. /\ ticket'[k].state = state /\ ticket'[k].attempt = ticket[k].attempt
      /\ \A j \in Effects \ {k} : ticket'[j] = ticket[j]
  BY DEF Settle, PlaneInv, PlaneTypeOK, StoreTypes, TicketRow
<1>2. /\ provider'[k].state = state
      /\ provider'[k].capability = provider[k].capability
      /\ \A j \in Effects \ {k} : provider'[j] = provider[j]
  BY Zenon DEF Settle, PlaneInv, PlaneTypeOK, StoreTypes, ProviderRow
<1>3. /\ receipt'[k] = IF state = "applied" THEN ticket[k].attempt ELSE receipt[k]
      /\ \A j \in Effects \ {k} : receipt'[j] = receipt[j]
  BY Zenon DEF Settle, PlaneInv, PlaneTypeOK, StoreTypes
<1>4. /\ ticket[k].state \in {"in_flight", "ambiguous"}
      /\ receipt[k] = None
      /\ ticket[k].attempt \in Attempts
  BY Zenon DEF PlaneInv, RowInv, ReceiptsTellTheTruth, TicketsNameAttempts
<1>5. None \notin Attempts
  BY ActionPlaneAssumption, Zenon 
<1>6. TicketsNameAttempts' /\ NothingBeforeAttempt'
  BY <1>1, <1>2, <1>4, Zenon DEF PlaneInv, RowInv, TicketsNameAttempts, NothingBeforeAttempt
<1>7. ReceiptsTellTheTruth'
  BY <1>1, <1>2, <1>3, <1>4, <1>5, SMTT(60) DEF PlaneInv, RowInv, ReceiptsTellTheTruth
<1> QED
  BY <1>1, <1>2, <1>6, <1>7, Zenon DEF RowInv

\* The call that completes still owns an attempt in flight.
LEMMA CompleteKeeps ==
  ASSUME PlaneInv, NEW c \in Calls, CompleteEffect(c)
  PROVE  CallInv' /\ RowInv'
<1> DEFINE k == EffectOf(c)
           state == Completed(k, call[c].outcome)
<1>1. /\ k \in Effects /\ call[c] \in CallRow /\ call[c].stage = "complete"
      /\ call[c].operation \in Operations /\ call[c].attempt \in Attempts
      /\ call[c].session = "open" /\ provider[k].state = "in_flight"
      /\ call[c].outcome \in {"applied", "ambiguous", "rejected"}
      /\ call[c].outcome = "applied" => effects[k] = 1
  BY CallFacts, Zenon DEF CompleteEffect, MayComplete, PlaneInv, CallInv, SendersOwnAttempts,
                   SenderOwns
<1>2. state = call[c].outcome
  BY <1>1, Zenon DEF Completed
<1>3. /\ (reconciliation'[k] = "pending") <=> (state = "ambiguous")
      /\ \A j \in Effects \ {k} : reconciliation'[j] = reconciliation[j]
  <2>1. reconciliation[k] # "pending"
    BY <1>1, Zenon DEF PlaneInv, RowInv, ReceiptsTellTheTruth
  <2> QED
    BY <1>1, <2>1, Zenon DEF CompleteEffect, PlaneInv, PlaneTypeOK, StoreTypes
<1>4. Settle(k, state) /\ UNCHANGED <<lock, effects>>
  BY Zenon DEF CompleteEffect
<1> HIDE DEF state
<1>5. /\ RowInv'
      /\ ticket'[k].state = state
      /\ \A j \in Effects \ {k} : ticket'[j] = ticket[j] /\ provider'[j] = provider[j]
  BY <1>1, <1>2, <1>3, <1>4, SettleKeeps, Zenon 
<1>6. /\ call'[c].stage = "release" /\ call'[c].session = "open"
      /\ call'[c].operation = call[c].operation /\ call'[c].attempt = call[c].attempt
      /\ \A d \in Calls \ {c} : call'[d] = call[d]
  <2>1. PICK reply \in {state, "ambiguous"} :
           call' = [call EXCEPT ![c] = [@ EXCEPT !.stage = "release", !.outcome = reply]]
    BY Zenon DEF CompleteEffect, state
  <2> QED
    BY <1>1, <2>1, Zenon DEF PlaneInv, PlaneTypeOK, CallTypes, CallRow
<1>7. \A d \in Calls : EffectOf(d)' = EffectOf(d)
  BY <1>6, Zenon DEF EffectOf
<1>8. CallsKnowTheirEffect'
  BY <1>1, <1>2, <1>5, <1>6, <1>7, EffectTyped, SMTT(60) DEF PlaneInv, CallInv, CallsKnowTheirEffect
<1>9. LocksAreSessions'
  BY <1>1, <1>4, <1>6, <1>7 DEF PlaneInv, CallInv, LocksAreSessions, PlaneTypeOK, CallTypes
<1>10. SendersOwnAttempts'
  <2> SUFFICES ASSUME NEW d \in Calls
               PROVE  SenderOwns(d)'
    BY Zenon DEF SendersOwnAttempts
  <2>1. CASE d # c /\ call[d].stage \in {"send", "complete"}
    <3>1. EffectOf(d) \in Effects \ {k}
      BY <1>1, <2>1, CallFacts, OneSender, Zenon 
    <3> QED
      BY <1>4, <1>5, <1>6, <1>7, <2>1, <3>1, SMTT(60)
         DEF PlaneInv, CallInv, SendersOwnAttempts, SenderOwns
  <2>2. CASE d = c \/ call[d].stage \notin {"send", "complete"}
    BY <1>6, <2>2, Zenon DEF SenderOwns
  <2> QED
    BY <2>1, <2>2, Zenon 
<1> QED
  BY <1>5, <1>8, <1>9, <1>10, Zenon DEF CallInv

\* Reconciliation only reaches attempts without a live Sender session.
LEMMA ReconcileKeeps ==
  ASSUME PlaneInv, NEW b \in Bots, NEW k \in Effects, Reconcile(b, k)
  PROVE  CallInv' /\ RowInv'
<1> DEFINE state == Disposition(k)
<1>1. /\ provider[k].state \in {"in_flight", "ambiguous"} /\ lock[k] = None
      /\ UNCHANGED <<lock, effects, call>> /\ Settle(k, state)
  BY Zenon DEF Reconcile, Reconcilable
<1>2. state \in {"applied", "rejected"} /\ (state = "applied" => effects[k] = 1)
  BY SMTT(60) DEF Disposition, PlaneInv, RowInv, NothingBeforeAttempt
<1>3. /\ reconciliation'[k] # "pending"
      /\ \A j \in Effects \ {k} : reconciliation'[j] = reconciliation[j]
  BY <1>2, Zenon DEF Reconcile, PlaneInv, PlaneTypeOK, StoreTypes
<1> HIDE DEF state
<1>4. /\ RowInv'
      /\ ticket'[k].state = state /\ provider'[k].state = state
      /\ provider'[k].capability = provider[k].capability
      /\ \A j \in Effects \ {k} : ticket'[j] = ticket[j] /\ provider'[j] = provider[j]
  BY <1>1, <1>2, <1>3, SettleKeeps, Zenon 
<1>5. \A d \in Calls : EffectOf(d)' = EffectOf(d)
  BY <1>1, Zenon DEF EffectOf
<1>6. CallsKnowTheirEffect'
  <2>1. \A j \in Effects : ticket[j].state # "none" => ticket'[j].state # "none"
    BY <1>2, <1>4, Zenon 
  <2>2. ASSUME NEW d \in Calls, call[d].stage = "begin"
        PROVE  EffectOf(d) \in Effects
    BY <2>2, CallFacts, Zenon 
  <2> QED
    BY <1>1, <1>5, <2>1, <2>2, Zenon DEF PlaneInv, CallInv, CallsKnowTheirEffect
<1>7. LocksAreSessions'
  BY <1>1, Zenon DEF PlaneInv, CallInv, LocksAreSessions, EffectOf
<1>8. SendersOwnAttempts'
  <2> SUFFICES ASSUME NEW d \in Calls
               PROVE  SenderOwns(d)'
    BY Zenon DEF SendersOwnAttempts
  <2>1. SenderOwns(d)
    BY Zenon DEF PlaneInv, CallInv, SendersOwnAttempts
  <2>2. CASE call[d].stage \in {"send", "complete"} /\ EffectOf(d) = k
    <3>1. d # None
      BY ActionPlaneAssumption, Zenon DEF Calls
    <3>2. call[d].session # "open"
      BY <1>1, <2>2, <3>1, Zenon DEF PlaneInv, CallInv, LocksAreSessions
    <3> QED
      BY <1>1, <1>2, <1>4, <1>5, <2>1, <2>2, <3>2, Zenon DEF SenderOwns
  <2>3. CASE call[d].stage \in {"send", "complete"} /\ EffectOf(d) # k
    <3>1. EffectOf(d) \in Effects
      BY <2>3, CallFacts, Zenon 
    <3> QED
      BY <1>1, <1>4, <1>5, <2>1, <2>3, <3>1, SMTT(60) DEF SenderOwns
  <2>4. CASE call[d].stage \notin {"send", "complete"}
    BY <1>1, <2>4, Zenon DEF SenderOwns
  <2> QED
    BY <2>2, <2>3, <2>4, Zenon 
<1> QED
  BY <1>4, <1>6, <1>7, <1>8, Zenon DEF CallInv

\* Leaving the Sender, with or without a session, changes no row.
LEMMA LeaveKeeps ==
  ASSUME PlaneInv, NEW c \in Calls, CompletionLost(c) \/ ReleaseSession(c) \/ LoseSession(c)
  PROVE  CallInv' /\ RowInv'
<1> DEFINE k == EffectOf(c)
<1>1. RowInv' /\ UNCHANGED <<ticket, provider, effects>>
  BY RowFrame, Zenon DEF CompletionLost, ReleaseSession, LoseSession, PlaneInv, store
<1>2. call[c].stage # "none"
  BY Zenon DEF CompletionLost, ReleaseSession, LoseSession, PlaneInv, CallInv, LocksAreSessions
<1>3. /\ k \in Effects /\ call[c] \in CallRow
      /\ call[c].operation \in Operations /\ call[c].attempt \in Attempts
  BY <1>2, CallFacts, Zenon 
<1>4. /\ call'[c].stage \in {"send", "complete", "release", "returned"}
      /\ call'[c].stage \in {"send", "complete"} =>
           call'[c].stage = call[c].stage /\ call'[c].outcome = call[c].outcome
      /\ call'[c].operation = call[c].operation /\ call'[c].attempt = call[c].attempt
      /\ \A d \in Calls \ {c} : call'[d] = call[d]
      /\ \/ call'[c].session = call[c].session /\ call'[c].stage = "release"
            /\ UNCHANGED lock
         \/ /\ call'[c].session \in {"none", "lost"}
            /\ call'[c].stage \in {"send", "complete"} => call'[c].session = "lost"
            /\ \A j \in Effects : lock'[j] = IF lock[j] = c THEN None ELSE lock[j]
  <2>1. CASE CompletionLost(c)
    BY <1>3, <2>1, Zenon DEF CompletionLost, PlaneInv, PlaneTypeOK, CallTypes, CallRow
  <2>2. CASE ReleaseSession(c)
    <3>1. \A j \in Effects : lock[j] = c => j = k
      <4>1. c # None
        BY ActionPlaneAssumption, Zenon DEF Calls
      <4> QED
        BY <4>1, Zenon DEF PlaneInv, CallInv, LocksAreSessions
    <3>2. \A j \in Effects : lock'[j] = IF lock[j] = c THEN None ELSE lock[j]
      BY <1>3, <2>2, <3>1, Zenon DEF ReleaseSession, PlaneInv, PlaneTypeOK, CallTypes
    <3>3. /\ call'[c].stage = "returned" /\ call'[c].session = "none"
          /\ call'[c].operation = call[c].operation
          /\ call'[c].attempt = call[c].attempt
          /\ \A d \in Calls \ {c} : call'[d] = call[d]
      BY <1>3, <2>2, Zenon DEF ReleaseSession, Return, PlaneInv, PlaneTypeOK, CallTypes, CallRow
    <3> QED
      BY <3>2, <3>3, Zenon 
  <2>3. CASE LoseSession(c)
    <3>1. /\ call'[c].stage = call[c].stage /\ call'[c].outcome = call[c].outcome
          /\ call'[c].session = "lost"
          /\ call'[c].operation = call[c].operation
          /\ call'[c].attempt = call[c].attempt
          /\ \A d \in Calls \ {c} : call'[d] = call[d]
      BY <1>3, <2>3, Zenon DEF LoseSession, PlaneInv, PlaneTypeOK, CallTypes, CallRow
    <3>2. call[c].stage \in {"send", "complete", "release"}
      BY <2>3, Zenon DEF LoseSession, PlaneInv, CallInv, LocksAreSessions
    <3>3. \A j \in Effects : lock'[j] = IF lock[j] = c THEN None ELSE lock[j]
      BY <2>3, Zenon DEF LoseSession
    <3> QED
      BY <3>1, <3>2, <3>3, Zenon 
  <2> QED
    BY <2>1, <2>2, <2>3, Zenon 
<1>5. \A d \in Calls : EffectOf(d)' = EffectOf(d)
  BY <1>4, Zenon DEF EffectOf
<1>6. CallsKnowTheirEffect'
  BY <1>1, <1>3, <1>4, <1>5, Zenon DEF PlaneInv, CallInv, CallsKnowTheirEffect
<1>7. LocksAreSessions'
  <2>1. \A d \in Calls : d # None
    BY ActionPlaneAssumption, Zenon DEF Calls
  <2>2. \A d \in Calls : call[d].session = "open" => EffectOf(d) \in Effects
    BY CallFacts, Zenon DEF PlaneInv, CallInv, LocksAreSessions
  <2> QED
    BY <1>3, <1>4, <1>5, <2>1, <2>2, SMTT(60) DEF PlaneInv, CallInv, LocksAreSessions, PlaneTypeOK,
                                        CallTypes
<1>8. SendersOwnAttempts'
  <2> SUFFICES ASSUME NEW d \in Calls
               PROVE  SenderOwns(d)'
    BY Zenon DEF SendersOwnAttempts
  <2>1. SenderOwns(d)
    BY Zenon DEF PlaneInv, CallInv, SendersOwnAttempts
  <2>2. CASE d = c
    BY <1>1, <1>4, <1>5, <2>1, <2>2, Zenon DEF SenderOwns
  <2>3. CASE d # c
    BY <1>1, <1>4, <1>5, <2>1, <2>3, ZenonT(60) DEF SenderOwns
  <2> QED
    BY <2>2, <2>3, Zenon 
<1> QED
  BY <1>1, <1>6, <1>7, <1>8, Zenon DEF CallInv

\* A crash leaves neither a call nor a session of its process.
LEMMA CrashKeeps ==
  ASSUME PlaneInv, NEW b \in Bots, CrashPlane(b)
  PROVE  CallInv' /\ RowInv'
<1>1. RowInv' /\ UNCHANGED <<ticket, provider, effects>>
  BY RowFrame, Zenon DEF CrashPlane, PlaneInv, store
<1>2. \A d \in Calls : /\ d[1] = b => call'[d] = NoCall
                       /\ d[1] # b => call'[d] = call[d] /\ EffectOf(d)' = EffectOf(d)
  BY Zenon DEF CrashPlane, EffectOf
<1>3. \A d \in Calls : d # None /\ (d \in {b} \X Turns <=> d[1] = b)
  BY ActionPlaneAssumption, Zenon DEF Calls
<1>4. \A j \in Effects : lock'[j] = IF lock[j] \in {b} \X Turns THEN None ELSE lock[j]
  BY Zenon DEF CrashPlane
<1>5. CallsKnowTheirEffect'
  BY <1>1, <1>2, SMTT(60) DEF NoCall, PlaneInv, CallInv, CallsKnowTheirEffect
<1>6. LocksAreSessions'
  <2>1. \A d \in Calls : call[d].session = "open" => EffectOf(d) \in Effects
    BY CallFacts, Zenon DEF PlaneInv, CallInv, LocksAreSessions
  <2> QED
    BY <1>2, <1>3, <1>4, <2>1, SMTT(60) DEF NoCall, PlaneInv, CallInv, LocksAreSessions,
                                  PlaneTypeOK, CallTypes
<1>7. SendersOwnAttempts'
  BY <1>1, <1>2, SMTT(60) DEF NoCall, PlaneInv, CallInv, SendersOwnAttempts, SenderOwns
<1> QED
  BY <1>1, <1>5, <1>6, <1>7, Zenon DEF CallInv

\* Every step keeps the invariant.
LEMMA InvStep ==
  ASSUME PlaneInv, PlaneNext
  PROVE  PlaneInv'
<1>1. PlaneTypeOK'
  BY TypeStep, Zenon DEF PlaneInv, CallInv
<1>2. CASE AuthorityStep
  BY <1>1, <1>2, AuthorityKeeps, Zenon DEF PlaneInv
<1>3. ASSUME NEW c \in Calls, NEW operation \in Operations, NEW p \in Payloads,
             NEW a \in Attempts, PreparePrivateDeliveryEffect(c, operation, p, a)
      PROVE  PlaneInv'
  <2> DEFINE r == [stage |-> "bind", operation |-> operation, payload |-> p,
                   attempt |-> a, session |-> "none", outcome |-> "none"]
  <2>1. r \in CallRow
    BY Zenon DEF CallRow, CallStages, CallOutcomes
  <2>2. /\ call' = [call EXCEPT ![c] = r]
        /\ UNCHANGED <<provider, lock, effects, ticket, receipt, reconciliation>>
        /\ call[c].session # "open"
    BY <1>3, Zenon DEF PreparePrivateDeliveryEffect, store, PlaneInv, CallInv, LocksAreSessions
  <2>3. CallInv'
    BY <2>1, <2>2, QuietCall, Zenon 
  <2>4. RowInv'
    BY <2>2, RowFrame, Zenon DEF PlaneInv
  <2> QED
    BY <1>1, <2>3, <2>4, Zenon DEF PlaneInv
<1>4. ASSUME NEW c \in Calls, CallStep(c)
      PROVE  PlaneInv'
  <2>1. CallInv' /\ RowInv'
    BY <1>4, PrepareKeeps, BeginKeeps, SendKeeps, CompleteKeeps, LeaveKeeps, Zenon DEF CallStep
  <2> QED
    BY <1>1, <2>1, Zenon DEF PlaneInv
<1>5. ASSUME NEW c \in Calls, TakeOutcome(c)
      PROVE  PlaneInv'
  <2>1. NoCall \in CallRow /\ NoCall.stage = "none" /\ NoCall.session = "none"
    BY Zenon DEF NoCall, CallRow, CallStages, CallOutcomes
  <2>2. /\ call' = [call EXCEPT ![c] = NoCall]
        /\ UNCHANGED <<provider, lock, effects, ticket, receipt, reconciliation>>
        /\ call[c].session # "open"
    BY <1>5, Zenon DEF TakeOutcome, store, PlaneInv, CallInv, LocksAreSessions
  <2>3. CallInv'
    BY <2>1, <2>2, QuietCall, Zenon 
  <2>4. RowInv'
    BY <2>2, RowFrame, Zenon DEF PlaneInv
  <2> QED
    BY <1>1, <2>3, <2>4, Zenon DEF PlaneInv
<1>6. ASSUME NEW c \in Calls, LoseSession(c)
      PROVE  PlaneInv'
  BY <1>1, <1>6, LeaveKeeps, Zenon DEF PlaneInv
<1>7. ASSUME NEW b \in Bots, CrashPlane(b)
      PROVE  PlaneInv'
  BY <1>1, <1>7, CrashKeeps, Zenon DEF PlaneInv
<1>8. ASSUME NEW b \in Bots, NEW k \in Effects, Reconcile(b, k)
      PROVE  PlaneInv'
  BY <1>1, <1>8, ReconcileKeeps, Zenon DEF PlaneInv
<1> QED
  BY <1>2, <1>3, <1>4, <1>5, <1>6, <1>7, <1>8, Zenon DEF PlaneNext

\* The invariant holds of every state of the ActionPlane.
THEOREM PlaneInvariant == PlaneSpec => []PlaneInv
<1>1. ASSUME PlaneInv, UNCHANGED planeVars
      PROVE  PlaneInv'
  <2>1. PlaneTypeOK'
    BY <1>1, Zenon DEF planeVars, PlaneInv, PlaneTypeOK, AuthorityTypes, StoreTypes,
                       CallTypes
  <2>2. CallsKnowTheirEffect' /\ LocksAreSessions'
    BY <1>1, Zenon DEF planeVars, PlaneInv, CallInv, CallsKnowTheirEffect,
                       LocksAreSessions, EffectOf
  <2>3. SendersOwnAttempts'
    BY <1>1, Zenon DEF planeVars, PlaneInv, CallInv, SendersOwnAttempts, SenderOwns,
                       EffectOf
  <2>4. RowInv'
    BY <1>1, RowFrame, Zenon DEF planeVars, PlaneInv
  <2> QED
    BY <2>1, <2>2, <2>3, <2>4, Zenon DEF PlaneInv, CallInv
<1>2. PlaneInv /\ [PlaneNext]_planeVars => PlaneInv'
  BY <1>1, InvStep, Zenon 
<1> QED
  BY <1>2, InvInit, PTL DEF PlaneSpec

\* Types of the tables and of ActionPlane.perform's control state.
THEOREM PlaneTypes == PlaneSpec => []PlaneTypeOK
<1>1. PlaneInv => PlaneTypeOK
  BY Zenon DEF PlaneInv
<1> QED
  BY <1>1, PlaneInvariant, PTL

\* Whatever is retried, raced, lost or crashed, an effect is carried out at
\* most once, and never before its provider attempt is durable: begin's row
\* lock and idempotency digest, for any number of processes and turns.
THEOREM EffectsHappenOnce == PlaneSpec => []OneEffectPerOperation
<1>1. PlaneInv => OneEffectPerOperation
  BY DEF PlaneInv, RowInv, NothingBeforeAttempt, OneEffectPerOperation
<1> QED
  BY <1>1, PlaneInvariant, PTL

\* action_receipt, action_ticket, action_provider_attempt and
\* action_reconciliation agree, and a receipt stands for a real effect.
THEOREM ReceiptsAreTrue == PlaneSpec => []ReceiptsTellTheTruth
<1>1. PlaneInv => ReceiptsTellTheTruth
  BY Zenon DEF PlaneInv, RowInv
<1> QED
  BY <1>1, PlaneInvariant, PTL

\* The Sender of an effect runs under an attempt in flight, or its session is
\* lost: completion and reconciliation are fenced by the session lock.
THEOREM EffectsAreFenced == PlaneSpec => EffectsFollowOpenAttempts
<1> DEFINE Fenced(k) ==
             effects'[k] # effects[k] =>
               \/ provider[k].state = "in_flight"
               \/ \E c \in Calls : EffectOf(c) = k /\ call[c].session = "lost"
<1>1. ASSUME PlaneInv, [PlaneNext]_planeVars, NEW k \in Effects
      PROVE  Fenced(k)
  <2>1. CASE \E c \in Calls, outcome \in {"applied", "ambiguous", "rejected"},
                happened \in 0..1 : Send(c, outcome, happened)
    <3>1. PICK c \in Calls, outcome \in {"applied", "ambiguous", "rejected"},
               happened \in 0..1 : Send(c, outcome, happened)
      BY <2>1, Zenon 
    <3>2. CASE k = EffectOf(c)
      BY <1>1, <3>1, <3>2, Zenon DEF Send, PlaneInv, CallInv, SendersOwnAttempts, SenderOwns
    <3>3. CASE k # EffectOf(c)
      BY <1>1, <3>1, <3>3, Zenon DEF Send, PlaneInv, PlaneTypeOK, CallTypes
    <3> QED
      BY <3>2, <3>3, Zenon 
  <2>2. CASE UNCHANGED effects
    BY <2>2, Zenon 
  <2>3. ASSUME NEW c \in Calls, CallStep(c)
        PROVE  Fenced(k)
    BY <2>1, <2>2, <2>3, Zenon DEF CallStep, BindPrivateDelivery, InsertTicket, ReuseTicket,
         RefusePrepare, BeginReplay, BeginSend, RefuseBegin, CompleteEffect,
         CompletionLost, ReleaseSession
  <2> QED
    BY <1>1, <2>2, <2>3, Zenon DEF PlaneNext, AuthorityStep, AdvancePolicyEpoch, EndMembership,
         ExpireEvidence, ExpireTicket, PreparePrivateDeliveryEffect, TakeOutcome,
         LoseSession, CrashPlane, Reconcile, planeVars
<1>2. PlaneInv /\ [PlaneNext]_planeVars => [\A k \in Effects : Fenced(k)]_planeVars
  BY <1>1, Zenon 
<1> QED
  BY <1>2, PlaneInvariant, PTL DEF PlaneSpec, EffectsFollowOpenAttempts

\* No step removes a ticket, changes its attempt, its payload or its final
\* state, or rewrites a receipt.
LEMMA RowsStay ==
  ASSUME PlaneInv, [PlaneNext]_planeVars, NEW k \in Effects
  PROVE  /\ ticket[k].state # "none" =>
              /\ ticket'[k].state # "none" /\ ticket'[k].attempt = ticket[k].attempt
              /\ ticket'[k].payload = ticket[k].payload
         /\ ticket[k].state \in {"applied", "rejected"} =>
              ticket'[k].state = ticket[k].state
         /\ receipt[k] # None => receipt'[k] = receipt[k]
<1> DEFINE Stays ==
             /\ ticket[k].state # "none" =>
                  /\ ticket'[k].state # "none" /\ ticket'[k].attempt = ticket[k].attempt
                  /\ ticket'[k].payload = ticket[k].payload
             /\ ticket[k].state \in {"applied", "rejected"} =>
                  ticket'[k].state = ticket[k].state
             /\ receipt[k] # None => receipt'[k] = receipt[k]
<1>0. ASSUME NEW j \in Effects, NEW state, Settle(j, state), state # "none",
             provider[j].state \in {"in_flight", "ambiguous"}
      PROVE  Stays
  <2>1. ticket[j].state \in {"in_flight", "ambiguous"} /\ receipt[j] = None
    BY <1>0, Zenon DEF PlaneInv, RowInv, ReceiptsTellTheTruth
  <2>2. k # j => ticket'[k] = ticket[k] /\ receipt'[k] = receipt[k]
    BY <1>0, Zenon DEF Settle, PlaneInv, PlaneTypeOK, StoreTypes
  <2>3. /\ ticket'[j].state = state /\ ticket'[j].attempt = ticket[j].attempt
        /\ ticket'[j].payload = ticket[j].payload
    BY <1>0, Zenon DEF Settle, PlaneInv, PlaneTypeOK, StoreTypes, TicketRow
  <2> QED
    BY <1>0, <2>1, <2>2, <2>3, SMTT(60) 
<1>1. CASE UNCHANGED <<ticket, receipt>>
  BY <1>1, Zenon 
<1>2. ASSUME NEW j \in Effects, ExpireTicket(j)
      PROVE  Stays
  BY <1>2, Zenon DEF ExpireTicket, PlaneInv, PlaneTypeOK, StoreTypes, TicketRow
<1>3. ASSUME NEW b \in Bots, NEW j \in Effects, Reconcile(b, j)
      PROVE  Stays
  BY <1>0, <1>3, Zenon DEF Reconcile, Reconcilable, Disposition
<1>4. ASSUME NEW c \in Calls, CallStep(c)
      PROVE  Stays
  <2>1. CASE InsertTicket(c)
    BY <2>1, Zenon DEF InsertTicket, PlaneInv, PlaneTypeOK, StoreTypes
  <2>2. CASE BeginSend(c)
    BY <2>2, Zenon DEF BeginSend, MaySend, PlaneInv, PlaneTypeOK, StoreTypes, TicketRow
  <2>3. CASE CompleteEffect(c)
    <3>1. /\ EffectOf(c) \in Effects /\ provider[EffectOf(c)].state = "in_flight"
          /\ call[c].outcome # "none"
      BY <2>3, CallFacts, Zenon DEF CompleteEffect, MayComplete, PlaneInv, CallInv,
                             SendersOwnAttempts, SenderOwns
    <3>2. Completed(EffectOf(c), call[c].outcome) # "none"
      BY <3>1, Zenon DEF Completed
    <3> QED
      BY <1>0, <2>3, <3>1, <3>2, Zenon DEF CompleteEffect
  <2> QED
    BY <1>1, <1>4, <2>1, <2>2, <2>3, Zenon DEF CallStep, BindPrivateDelivery, ReuseTicket,
         RefusePrepare, BeginReplay, RefuseBegin, Send, CompletionLost,
         ReleaseSession, store
<1> QED
  BY <1>1, <1>2, <1>3, <1>4, Zenon DEF PlaneNext, AuthorityStep, AdvancePolicyEpoch,
       EndMembership, ExpireEvidence, PreparePrivateDeliveryEffect, TakeOutcome,
       LoseSession, CrashPlane, planeVars, store

\* An applied or rejected ticket and a stored receipt are final: neither
\* complete nor reconcile settles an attempt twice.
THEOREM SettledIsFinal == PlaneSpec => SettledEffectsStay
<1> DEFINE Stays(k) ==
             /\ ticket[k].state \in {"applied", "rejected"} =>
                  ticket'[k].state = ticket[k].state
             /\ receipt[k] # None => receipt'[k] = receipt[k]
<1>1. PlaneInv /\ [PlaneNext]_planeVars => [\A k \in Effects : Stays(k)]_planeVars
  BY RowsStay, Zenon 
<1> QED
  BY <1>1, PlaneInvariant, PTL DEF PlaneSpec, SettledEffectsStay

-----------------------------------------------------------------------------
(* What a perform reports                                                  *)

\* A call past prepare holds the ticket of its own attempt and payload; one
\* that reports an applied effect has its own receipt.
OwnTicket(c) ==
    LET k == EffectOf(c)
    IN  /\ call[c].stage \in {"begin", "send", "complete"} =>
             /\ ticket[k].state # "none" /\ ticket[k].attempt = call[c].attempt
             /\ ticket[k].payload = call[c].payload
        /\ /\ call[c].stage \in {"release", "returned"}
           /\ call[c].outcome \in {"applied", "already_applied"}
           => /\ receipt[k] = call[c].attempt
              /\ ticket[k].state # "none" /\ ticket[k].payload = call[c].payload

CallsHoldOwnTickets == \A c \in Calls : OwnTicket(c)

\* A step of one call is about one effect and one attempt throughout.
LEMMA CallStepShape ==
  ASSUME PlaneInv, NEW c \in Calls, CallStep(c)
  PROVE  /\ call[c].stage # "none" /\ call'[c].stage # "none"
         /\ call'[c].operation = call[c].operation
         /\ call'[c].attempt = call[c].attempt /\ call'[c].payload = call[c].payload
         /\ \A d \in Calls \ {c} : call'[d] = call[d]
         /\ \A d \in Calls : EffectOf(d)' = EffectOf(d)
<1>1. call \in [Calls -> CallRow] /\ call[c] \in CallRow
  BY Zenon DEF PlaneInv, PlaneTypeOK, CallTypes
<1>2. call[c].stage # "none"
  BY Zenon DEF CallStep, BindPrivateDelivery, InsertTicket, ReuseTicket, RefusePrepare,
         BeginReplay, BeginSend, RefuseBegin, Send, CompleteEffect, CompletionLost,
         ReleaseSession
<1>3. \/ \E stage \in {"prepare", "begin"} : MoveTo(c, stage)
      \/ \E outcome : Return(c, outcome)
      \/ call' = [call EXCEPT ![c] = [@ EXCEPT !.stage = "send", !.session = "open"]]
      \/ \E stage \in {"complete", "release"} : \E outcome :
            call' = [call EXCEPT ![c] = [@ EXCEPT !.stage = stage, !.outcome = outcome]]
  BY Zenon DEF CallStep, BindPrivateDelivery, InsertTicket, ReuseTicket, RefusePrepare,
         BeginReplay, BeginSend, RefuseBegin, Send, CompleteEffect, CompletionLost,
         ReleaseSession
<1>4. /\ call'[c].stage # "none"
      /\ call'[c].operation = call[c].operation
      /\ call'[c].attempt = call[c].attempt /\ call'[c].payload = call[c].payload
      /\ \A d \in Calls \ {c} : call'[d] = call[d]
  <2>1. ASSUME NEW stage \in {"prepare", "begin"}, MoveTo(c, stage)
        PROVE  <1>4!1 /\ <1>4!2 /\ <1>4!3 /\ <1>4!4
    BY <1>1, <2>1, Zenon DEF MoveTo, CallRow
  <2>2. ASSUME NEW outcome, Return(c, outcome)
        PROVE  <1>4!1 /\ <1>4!2 /\ <1>4!3 /\ <1>4!4
    BY <1>1, <2>2, Zenon DEF Return, CallRow
  <2>3. CASE call' = [call EXCEPT ![c] = [@ EXCEPT !.stage = "send", !.session = "open"]]
    BY <1>1, <2>3, Zenon DEF CallRow
  <2>4. ASSUME NEW stage \in {"complete", "release"}, NEW outcome,
               call' = [call EXCEPT ![c] = [@ EXCEPT !.stage = stage, !.outcome = outcome]]
        PROVE  <1>4!1 /\ <1>4!2 /\ <1>4!3 /\ <1>4!4
    BY <1>1, <2>4, Zenon DEF CallRow
  <2> QED
    BY <1>3, <2>1, <2>2, <2>3, <2>4, Zenon 
<1> QED
  BY <1>2, <1>4, Zenon DEF EffectOf

\* The steps of a call itself.
LEMMA OwnTicketStep ==
  ASSUME PlaneInv, NEW c \in Calls, OwnTicket(c), CallStep(c)
  PROVE  OwnTicket(c)'
<1> DEFINE k == EffectOf(c)
<1>1. /\ call[c] \in CallRow /\ k \in Effects /\ EffectOf(c)' = k
      /\ call'[c].attempt = call[c].attempt /\ call'[c].payload = call[c].payload
      /\ call \in [Calls -> CallRow]
      /\ call[c].attempt \in Attempts
  BY CallStepShape, CallFacts, Zenon DEF PlaneInv, PlaneTypeOK, CallTypes
<1>2. /\ ticket[k].state # "none" =>
             /\ ticket'[k].state # "none" /\ ticket'[k].attempt = ticket[k].attempt
             /\ ticket'[k].payload = ticket[k].payload
      /\ receipt[k] # None => receipt'[k] = receipt[k]
  <2>1. PlaneNext
    BY Zenon DEF PlaneNext
  <2> QED
    BY <1>1, <2>1, RowsStay, Zenon 
<1>3. CASE BindPrivateDelivery(c) \/ RefusePrepare(c) \/ RefuseBegin(c)
  <2>1. call'[c].stage \in {"prepare", "returned"}
        /\ (call'[c].stage = "returned" => call'[c].outcome \in {"denied", "rejected"})
    <3>1. CASE MoveTo(c, "prepare")
      BY <1>1, <3>1, Zenon DEF MoveTo, CallRow
    <3>2. CASE Return(c, "denied")
      BY <1>1, <3>2, Zenon DEF Return, CallRow
    <3>3. CASE Return(c, "rejected")
      BY <1>1, <3>3, Zenon DEF Return, CallRow
    <3> QED
      BY <1>3, <3>1, <3>2, <3>3, Zenon DEF BindPrivateDelivery, RefusePrepare, RefuseBegin
  <2> QED
    BY <2>1, Zenon DEF OwnTicket
<1>4. CASE InsertTicket(c)
  <2>1. /\ ticket'[k].state = "prepared" /\ ticket'[k].attempt = call[c].attempt
        /\ ticket'[k].payload = call[c].payload
    BY <1>1, <1>4, Zenon DEF InsertTicket, PlaneInv, PlaneTypeOK, StoreTypes
  <2>2. call'[c].stage = "begin" \/ (call'[c].stage = "returned" /\ call'[c].outcome = "denied")
    BY <1>1, <1>4, ZenonT(60) DEF InsertTicket, MoveTo, Return, CallRow
  <2> QED
    BY <1>1, <2>1, <2>2, Zenon DEF OwnTicket
<1>5. CASE ReuseTicket(c)
  <2>1. call'[c].stage = "begin"
    BY <1>1, <1>5, Zenon DEF ReuseTicket, MoveTo, CallRow
  <2>2. /\ ticket'[k].state # "none" /\ ticket'[k].attempt = call[c].attempt
        /\ ticket'[k].payload = call[c].payload
    BY <1>2, <1>5, Zenon DEF ReuseTicket, SameIntent
  <2> QED
    BY <1>1, <2>1, <2>2, Zenon DEF OwnTicket
<1>6. CASE BeginReplay(c)
  <2>1. /\ call'[c].stage = "returned"
        /\ call'[c].outcome = ReplayOutcome(ticket[k].state)
    BY <1>1, <1>6, Zenon DEF BeginReplay, Return, CallRow
  <2>2. /\ ticket[k].attempt = call[c].attempt /\ ticket[k].payload = call[c].payload
        /\ ticket[k].state \in RowStates \ {"none", "prepared"}
    BY <1>1, <1>6, Zenon DEF BeginReplay, OwnTicket, PlaneInv, PlaneTypeOK, StoreTypes, TicketRow
  <2>3. ReplayOutcome(ticket[k].state) \in {"applied", "already_applied"} =>
           ticket[k].state = "applied"
    BY <2>2, Zenon DEF ReplayOutcome, RowStates
  <2>4. ticket[k].state = "applied" => receipt[k] = call[c].attempt
    BY <1>1, <2>2, Zenon DEF PlaneInv, RowInv, ReceiptsTellTheTruth
  <2>5. UNCHANGED receipt
    BY <1>6, Zenon DEF BeginReplay, store
  <2> QED
    BY <1>1, <1>2, <2>1, <2>2, <2>3, <2>4, <2>5, Zenon DEF OwnTicket
<1>7. CASE BeginSend(c)
  <2>1. call'[c].stage = "send"
        \/ (call'[c].stage = "returned" /\ call'[c].outcome = "rejected")
    BY <1>1, <1>7, ZenonT(60) DEF BeginSend, Return, CallRow
  <2> QED
    BY <1>1, <1>2, <1>7, <2>1, Zenon DEF BeginSend, OwnTicket
<1>8. ASSUME NEW outcome \in {"applied", "ambiguous", "rejected"},
             NEW happened \in 0..1, Send(c, outcome, happened)
      PROVE  OwnTicket(c)'
  <2>1. call'[c].stage = "complete"
    BY <1>1, <1>8, Zenon DEF Send, CallRow
  <2> QED
    BY <1>1, <1>2, <1>8, <2>1, Zenon DEF Send, OwnTicket
<1>9. CASE CompleteEffect(c)
  <2>1. /\ call'[c].stage = "release"
        /\ call'[c].outcome \in {Completed(k, call[c].outcome), "ambiguous"}
    BY <1>1, <1>9 DEF CompleteEffect, CallRow
  <2>2. Completed(k, call[c].outcome) = call[c].outcome
        /\ call[c].outcome # "already_applied"
    BY <1>9, Zenon DEF CompleteEffect, MayComplete, Completed, PlaneInv, CallInv,
                SendersOwnAttempts, SenderOwns
  <2>3. call[c].outcome = "applied" => receipt'[k] = ticket[k].attempt
    BY <1>1, <1>9, <2>2, Zenon DEF CompleteEffect, Settle, PlaneInv, PlaneTypeOK, StoreTypes
  <2> QED
    BY <1>1, <1>2, <1>9, <2>1, <2>2, <2>3, Zenon DEF CompleteEffect, OwnTicket
<1>10. CASE CompletionLost(c)
  <2>1. call'[c].stage = "release" /\ call'[c].outcome = "ambiguous"
    BY <1>1, <1>10, Zenon DEF CompletionLost, CallRow
  <2> QED
    BY <2>1, Zenon DEF OwnTicket
<1>11. CASE ReleaseSession(c)
  <2>1. call'[c].stage = "returned" /\ call'[c].outcome = PerformOutcome(call[c].outcome)
    BY <1>1, <1>11, Zenon DEF ReleaseSession, Return, CallRow
  <2>2. UNCHANGED receipt
    BY <1>11, Zenon DEF ReleaseSession, store
  <2> QED
    BY <1>1, <1>2, <1>11, <2>1, <2>2, Zenon DEF ReleaseSession, PerformOutcome, OwnTicket
<1> QED
  BY <1>3, <1>4, <1>5, <1>6, <1>7, <1>8, <1>9, <1>10, <1>11, Zenon DEF CallStep

\* A call that a step leaves alone, or leaves where it is, keeps its ticket.
LEMMA OwnTicketFrame ==
  ASSUME PlaneInv, [PlaneNext]_planeVars, NEW c \in Calls, OwnTicket(c),
         \/ call'[c].stage = "none"
         \/ /\ call'[c].stage = call[c].stage /\ call'[c].outcome = call[c].outcome
            /\ call'[c].operation = call[c].operation
            /\ call'[c].attempt = call[c].attempt /\ call'[c].payload = call[c].payload
  PROVE  OwnTicket(c)'
<1>1. CASE call'[c].stage = "none"
  BY <1>1, Zenon DEF OwnTicket
<1>2. CASE /\ call'[c].stage = call[c].stage /\ call'[c].outcome = call[c].outcome
           /\ call'[c].operation = call[c].operation
           /\ call'[c].attempt = call[c].attempt /\ call'[c].payload = call[c].payload
           /\ call[c].stage # "none"
  <2>1. EffectOf(c)' = EffectOf(c)
    BY <1>2, Zenon DEF EffectOf
  <2>2. EffectOf(c) \in Effects /\ call[c].attempt \in Attempts /\ None \notin Attempts
    BY <1>2, CallFacts, ActionPlaneAssumption, Zenon 
  <2>3. /\ ticket[EffectOf(c)].state # "none" =>
             /\ ticket'[EffectOf(c)].state # "none"
             /\ ticket'[EffectOf(c)].attempt = ticket[EffectOf(c)].attempt
             /\ ticket'[EffectOf(c)].payload = ticket[EffectOf(c)].payload
        /\ receipt[EffectOf(c)] # None => receipt'[EffectOf(c)] = receipt[EffectOf(c)]
    BY <2>2, RowsStay, Zenon 
  <2> QED
    BY <1>2, <2>1, <2>2, <2>3, Zenon DEF OwnTicket
<1> QED
  BY <1>1, <1>2, Zenon 

\* Every call past prepare holds the ticket of its own attempt.
THEOREM OwnTickets == PlaneSpec => []CallsHoldOwnTickets
<1>1. PlaneInit => CallsHoldOwnTickets
  BY DEF PlaneInit, CallsHoldOwnTickets, OwnTicket, NoCall
<1>2. ASSUME PlaneInv, CallsHoldOwnTickets, [PlaneNext]_planeVars
      PROVE  CallsHoldOwnTickets'
  <2> SUFFICES ASSUME NEW d \in Calls
               PROVE  OwnTicket(d)'
    BY Zenon DEF CallsHoldOwnTickets
  <2>0. OwnTicket(d) /\ call \in [Calls -> CallRow] /\ call[d] \in CallRow
    BY <1>2, Zenon DEF CallsHoldOwnTickets, PlaneInv, PlaneTypeOK, CallTypes
  <2>1. CASE UNCHANGED call
    BY <1>2, <2>0, <2>1, OwnTicketFrame, Zenon 
  <2>2. ASSUME NEW c \in Calls, CallStep(c)
        PROVE  OwnTicket(d)'
    <3>1. CASE d = c
      BY <1>2, <2>0, <2>2, <3>1, OwnTicketStep, Zenon 
    <3>2. CASE d # c
      BY <1>2, <2>0, <2>2, <3>2, CallStepShape, OwnTicketFrame, Zenon 
    <3> QED
      BY <3>1, <3>2, Zenon 
  <2>3. ASSUME NEW c \in Calls, NEW operation \in Operations, NEW p \in Payloads,
               NEW a \in Attempts, PreparePrivateDeliveryEffect(c, operation, p, a)
        PROVE  OwnTicket(d)'
    <3>1. CASE d = c
      <4>1. call'[d].stage = "bind"
        BY <2>0, <2>3, <3>1, Zenon DEF PreparePrivateDeliveryEffect
      <4> QED
        BY <4>1, Zenon DEF OwnTicket
    <3>2. CASE d # c
      <4>1. call'[d] = call[d]
        BY <2>0, <2>3, <3>2, Zenon DEF PreparePrivateDeliveryEffect
      <4> QED
        BY <1>2, <2>0, <4>1, OwnTicketFrame, Zenon 
    <3> QED
      BY <3>1, <3>2, Zenon 
  <2>4. ASSUME NEW c \in Calls, TakeOutcome(c)
        PROVE  OwnTicket(d)'
    <3>1. call'[d] = call[d] \/ call'[d].stage = "none"
      BY <2>0, <2>4, Zenon DEF TakeOutcome, NoCall
    <3> QED
      BY <1>2, <2>0, <3>1, OwnTicketFrame, Zenon 
  <2>5. ASSUME NEW c \in Calls, LoseSession(c)
        PROVE  OwnTicket(d)'
    <3>1. /\ call'[d].stage = call[d].stage /\ call'[d].outcome = call[d].outcome
          /\ call'[d].operation = call[d].operation
          /\ call'[d].attempt = call[d].attempt /\ call'[d].payload = call[d].payload
      BY <2>0, <2>5, Zenon DEF LoseSession, CallRow
    <3> QED
      BY <1>2, <2>0, <3>1, OwnTicketFrame, Zenon 
  <2>6. ASSUME NEW b \in Bots, CrashPlane(b)
        PROVE  OwnTicket(d)'
    <3>1. call'[d] = call[d] \/ call'[d].stage = "none"
      BY <2>6, Zenon DEF CrashPlane, NoCall
    <3> QED
      BY <1>2, <2>0, <3>1, OwnTicketFrame, Zenon 
  <2> QED
    BY <1>2, <2>1, <2>2, <2>3, <2>4, <2>5, <2>6, Zenon DEF PlaneNext, AuthorityStep,
         AdvancePolicyEpoch, EndMembership, ExpireEvidence, ExpireTicket, Reconcile,
         planeVars
<1> QED
  BY <1>1, <1>2, PlaneInvariant, PTL DEF PlaneSpec

\* A perform that reports applied or already_applied stands on a stored
\* receipt of its own delivery attempt.
THEOREM ReportsAreReceipts == PlaneSpec => []OutcomesAreReceipts
<1>1. CallsHoldOwnTickets => OutcomesAreReceipts
  BY Zenon DEF CallsHoldOwnTickets, OwnTicket, OutcomesAreReceipts
<1> QED
  BY <1>1, OwnTickets, PTL

-----------------------------------------------------------------------------
(* BotDelivery is a caller of the Action plane.                            *)

AnswerStages == {"idle", "placeholder", "resolve", "redeem", "invoke", "record",
                 "final", "audit"}
AnswerRow == [stage : AnswerStages, grant : Grants \cup {0}, text : Texts \cup {None}]

\* An answer in flight has its attempt and a text the model gave, if any.
AnswersCarry ==
    /\ answer \in [Calls -> AnswerRow]
    /\ attemptRef \in [Calls -> Attempts \cup {None}]
    /\ \A c \in Calls : answer[c].stage # "idle" => attemptRef[c] \in Attempts

\* Nothing is being answered.
LEMMA CarryInit == Init => AnswersCarry
<1> SUFFICES ASSUME Init PROVE AnswersCarry
  OBVIOUS
<1>1. NoAnswer \in AnswerRow /\ NoAnswer.stage = "idle"
  BY Zenon DEF NoAnswer, AnswerRow, AnswerStages
<1> QED
  BY <1>1, Zenon DEF Init, AnswersCarry

\* An answer moves on with its attempt.
LEMMA CarryMove ==
  ASSUME AnswersCarry, NEW c \in Calls, NEW r \in AnswerRow,
         answer' = [answer EXCEPT ![c] = r],
         r.stage # "idle" => answer[c].stage # "idle",
         UNCHANGED attemptRef
  PROVE  AnswersCarry'
BY Zenon DEF AnswersCarry

\* What any step does to an answer, and to the attempt it carries.
LEMMA CarryStep ==
  ASSUME AnswersCarry, [Next]_vars
  PROVE  AnswersCarry'
<1> USE DEF memory
<1>0. /\ answer \in [Calls -> AnswerRow]
      /\ NoAnswer \in AnswerRow /\ NoAnswer.stage = "idle"
      /\ \A c \in Calls : answer[c] \in AnswerRow
  BY Zenon DEF AnswersCarry, NoAnswer, AnswerRow, AnswerStages
<1>1. CASE UNCHANGED <<answer, attemptRef>>
  BY <1>1, Zenon DEF AnswersCarry
<1>2. ASSUME NEW c \in Calls, GiveUp(c), UNCHANGED attemptRef
      PROVE  AnswersCarry'
  BY <1>0, <1>2, CarryMove, Zenon DEF GiveUp
<1>3. ASSUME NEW c \in Calls, NEW stage \in AnswerStages, answer[c].stage # "idle",
             answer' = [answer EXCEPT ![c].stage = stage], UNCHANGED attemptRef
      PROVE  AnswersCarry'
  <2> DEFINE r == [answer[c] EXCEPT !.stage = stage]
  <2>1. r \in AnswerRow
    BY <1>0, Zenon DEF AnswerRow
  <2>2. answer' = [answer EXCEPT ![c] = r]
    BY <1>3, Zenon 
  <2> QED
    BY <1>3, <2>1, <2>2, CarryMove, Zenon 
<1>4. ASSUME NEW c \in Calls, NEW e \in Events, StartAnswer(c, e)
      PROVE  AnswersCarry'
  <2>1. [answer[c] EXCEPT !.stage = "placeholder"] \in AnswerRow
    BY <1>0, Zenon DEF AnswerRow, AnswerStages
  <2>2. answer' = [answer EXCEPT ![c] = [answer[c] EXCEPT !.stage = "placeholder"]]
    BY <1>4, Zenon DEF StartAnswer
  <2>3. AttemptFor(c) \in Attempts /\ attemptRef' = [attemptRef EXCEPT ![c] = AttemptFor(c)]
    BY <1>4, Zenon DEF StartAnswer
  <2> QED
    BY <1>0, <2>1, <2>2, <2>3, Zenon DEF AnswersCarry
<1>5. ASSUME NEW c \in Calls, AnswerStep(c)
      PROVE  AnswersCarry'
  <2>0. \A stage \in {"resolve", "invoke", "final", "audit"} : stage \in AnswerStages
    BY Zenon DEF AnswerStages
  <2>1. CASE AfterPlaceholder(c)
    BY <1>2, <1>3, <2>0, <2>1, Zenon DEF AfterPlaceholder, AfterEffect, AfterEffectRefused
  <2>2. CASE Resolve(c)
    <3>1. ASSUME NEW g \in Grants,
                 answer' = [answer EXCEPT ![c] = [@ EXCEPT !.stage = "redeem", !.grant = g]]
          PROVE  AnswersCarry'
      <4>1. [answer[c] EXCEPT !.stage = "redeem", !.grant = g] \in AnswerRow
        BY <1>0, Zenon DEF AnswerRow, AnswerStages
      <4> QED
        BY <2>2, <3>1, <4>1, CarryMove, Zenon DEF Resolve
    <3> QED
      BY <1>2, <2>2, <3>1, Zenon DEF Resolve
  <2>3. CASE RedeemGrant(c)
    BY <1>2, <1>3, <2>0, <2>3, Zenon DEF RedeemGrant
  <2>4. ASSUME NEW text \in Texts \cup {None}, InvokeGateway(c, text)
        PROVE  AnswersCarry'
    <3>1. [answer[c] EXCEPT !.stage = "record", !.text = text] \in AnswerRow
      BY <1>0, ZenonT(60) DEF AnswerRow, AnswerStages
    <3> QED
      BY <2>4, <3>1, CarryMove, Zenon DEF InvokeGateway
  <2>5. CASE RecordGenerated(c)
    BY <1>3, <2>0, <2>5, Zenon DEF RecordGenerated
  <2>6. CASE RecordUnusable(c)
    BY <1>2, <2>6, Zenon DEF RecordUnusable
  <2>7. CASE AfterFinal(c)
    BY <1>2, <1>3, <2>0, <2>7, Zenon DEF AfterFinal, AfterEffect, AfterEffectRefused
  <2>8. CASE RecordDelivery(c)
    BY <1>2, <2>8, Zenon DEF RecordDelivery
  <2> QED
    BY <1>5, <2>1, <2>2, <2>3, <2>4, <2>5, <2>6, <2>7, <2>8, Zenon DEF AnswerStep
<1>6. ASSUME NEW b \in Bots, Crash(b)
      PROVE  AnswersCarry'
  BY <1>0, <1>6, Zenon DEF Crash, AnswersCarry
<1> QED
  BY <1>1, <1>4, <1>5, <1>6, Zenon DEF Next, vars, botVars, AnswerAgain, ExpireGrant

-----------------------------------------------------------------------------
(* BotDelivery implements the ActionPlane under any caller                 *)

\* Every step of BotDelivery is a step of the plane or leaves it alone.
LEMMA StepsOfThePlane ==
  ASSUME AnswersCarry, [Next]_vars
  PROVE  [PlaneNext]_planeVars
<1>1. CASE UNCHANGED planeVars
  BY <1>1, Zenon 
<1>2. CASE AuthorityStep
  BY <1>2, Zenon DEF PlaneNext
<1>3. ASSUME NEW c \in Calls, NEW e \in Events, StartAnswer(c, e)
      PROVE  PlaneNext
  <2>1. /\ "create_placeholder" \in Operations /\ Working \in Payloads
        /\ AttemptFor(c) \in Attempts
    BY <1>3, BotDeliveryAssumption, Zenon DEF StartAnswer
  <2> QED
    BY <1>3, <2>1, Zenon DEF StartAnswer, PlaneNext
<1>4. ASSUME NEW c \in Calls, AnswerStep(c)
      PROVE  [PlaneNext]_planeVars
  <2>1. CASE AfterPlaceholder(c) \/ AfterFinal(c)
    BY <2>1, Zenon DEF AfterPlaceholder, AfterFinal, AfterEffect, PlaneNext
  <2>2. CASE RecordGenerated(c)
    <3>1. c[2] \in Turns
      BY Zenon DEF Calls
    <3>2. FinalEffect[c[2]] \in Operations
      BY <3>1, BotDeliveryAssumption, Zenon 
    <3>3. answer[c].text \in Payloads /\ attemptRef[c] \in Attempts
      BY <2>2, BotDeliveryAssumption, Zenon DEF RecordGenerated, AnswersCarry, AnswerRow
    <3> QED
      BY <2>2, <3>2, <3>3, Zenon DEF RecordGenerated, PlaneNext
  <2> QED
    BY <1>1, <1>4, <2>1, <2>2, Zenon DEF AnswerStep, Resolve, RedeemGrant, InvokeGateway,
         RecordUnusable, RecordDelivery
<1>5. ASSUME NEW c \in Calls, CallStep(c) \/ LoseSession(c)
      PROVE  PlaneNext
  BY <1>5, Zenon DEF PlaneNext
<1>6. ASSUME NEW b \in Bots, Crash(b) \/ \E k \in Effects : Reconcile(b, k)
      PROVE  PlaneNext
  BY <1>6, Zenon DEF Crash, PlaneNext
<1> QED
  BY <1>1, <1>2, <1>3, <1>4, <1>5, <1>6, Zenon DEF Next, vars, ExpireGrant, AnswerAgain

\* BotDelivery uses the ActionPlane only through its operations.
THEOREM ImplementsThePlane == Spec => UsesThePlane
<1>1. Init => PlaneInit
  BY Zenon DEF Init
<1>2. AnswersCarry /\ [Next]_vars => AnswersCarry'
  BY CarryStep, Zenon 
<1>3. AnswersCarry /\ [Next]_vars => [PlaneNext]_planeVars
  BY StepsOfThePlane, Zenon 
<1> QED
  BY <1>1, <1>2, <1>3, CarryInit, PTL DEF Spec, PlaneSpec, UsesThePlane

\* In particular no turn is ever answered twice, whatever is redelivered,
\* retried, lost or restarted.
THEOREM AnswersHappenOnce == Spec => []OneEffectPerOperation
BY ImplementsThePlane, EffectsHappenOnce, PTL DEF UsesThePlane

-----------------------------------------------------------------------------
(* The final effect follows the placeholder of the same attempt            *)

Answered == {"resolve", "redeem", "invoke", "record", "final", "audit"}

\* The perform under way is the one the answer waits for, and an answer past
\* its placeholder has the placeholder's receipt.
AnswerMatches(c) ==
    /\ answer[c].stage = "placeholder" =>
         /\ call[c].stage # "none" /\ call[c].operation = "create_placeholder"
         /\ call[c].attempt = attemptRef[c]
    /\ answer[c].stage = "final" =>
         /\ call[c].stage # "none" /\ call[c].operation = FinalEffect[c[2]]
         /\ call[c].attempt = attemptRef[c] /\ call[c].payload = answer[c].text
    /\ answer[c].stage \notin {"placeholder", "final"} => call[c].stage = "none"
    /\ answer[c].stage \in Answered =>
         receipt[<<c[2], "create_placeholder">>] = attemptRef[c]

AnswersMatch == \A c \in Calls : AnswerMatches(c)

FinalTicketsFollow ==
    \A t \in Turns :
       ticket[<<t, FinalEffect[t]>>].state # "none" =>
         receipt[<<t, "create_placeholder">>] = ticket[<<t, FinalEffect[t]>>].attempt

\* The operations a turn uses are effects.
LEMMA TurnEffects ==
  ASSUME NEW t \in Turns
  PROVE  /\ <<t, "create_placeholder">> \in Effects
         /\ <<t, FinalEffect[t]>> \in Effects
         /\ FinalEffect[t] # "create_placeholder"
BY BotDeliveryAssumption, Zenon DEF Effects

\* An answer that keeps its stage, its call and its attempt keeps its match.
LEMMA MatchFrame ==
  ASSUME PlaneInv, AnswersCarry, [PlaneNext]_planeVars, NEW d \in Calls,
         AnswerMatches(d), answer'[d] = answer[d], attemptRef'[d] = attemptRef[d],
         (call'[d].stage = "none") <=> (call[d].stage = "none"),
         call[d].stage # "none" => /\ call'[d].operation = call[d].operation
                                   /\ call'[d].attempt = call[d].attempt
                                   /\ call'[d].payload = call[d].payload
  PROVE  AnswerMatches(d)'
<1>1. d[2] \in Turns
  BY Zenon DEF Calls
<1>2. receipt[<<d[2], "create_placeholder">>] # None =>
        receipt'[<<d[2], "create_placeholder">>] = receipt[<<d[2], "create_placeholder">>]
  BY <1>1, TurnEffects, RowsStay, ZenonT(60) 
<1>3. answer[d].stage # "idle" => attemptRef[d] \in Attempts /\ None \notin Attempts
  BY ActionPlaneAssumption, ZenonT(60) DEF AnswersCarry
<1>4. answer[d].stage \in Answered =>
        receipt'[<<d[2], "create_placeholder">>] = attemptRef'[d]
  BY <1>2, <1>3, Zenon DEF AnswerMatches, Answered
<1>5. answer'[d].stage = answer[d].stage
  OBVIOUS
<1> QED
  BY <1>4, <1>5, Zenon DEF AnswerMatches

\* An answer whose receipt is in hand, between two effects.
LEMMA MatchBetween ==
  ASSUME NEW d \in Calls, call'[d].stage = "none",
         answer'[d].stage \notin {"placeholder", "final"},
         answer'[d].stage \in Answered =>
           receipt'[<<d[2], "create_placeholder">>] = attemptRef'[d]
  PROVE  AnswerMatches(d)'
BY Zenon DEF AnswerMatches

\* A step of one answer leaves the others as they were.
LEMMA AnswerStepShape ==
  ASSUME PlaneInv, AnswersCarry, NEW c \in Calls, AnswerStep(c)
  PROVE  /\ \A d \in Calls \ {c} : answer'[d] = answer[d] /\ call'[d] = call[d]
         /\ UNCHANGED <<attemptRef, receipt>>
<1>1. answer \in [Calls -> AnswerRow] /\ call \in [Calls -> CallRow]
  BY Zenon DEF PlaneInv, PlaneTypeOK, CallTypes, AnswersCarry
<1>2. UNCHANGED <<attemptRef, receipt>>
  BY Zenon DEF AnswerStep, AfterPlaceholder, AfterFinal, AfterEffect, TakeOutcome, Resolve,
         RedeemGrant, InvokeGateway, RecordGenerated, RecordUnusable, RecordDelivery,
         PreparePrivateDeliveryEffect, planeVars, store, memory
<1>3. \/ UNCHANGED call
      \/ \E r : call' = [call EXCEPT ![c] = r]
  BY Zenon DEF AnswerStep, AfterPlaceholder, AfterFinal, AfterEffect, TakeOutcome, Resolve,
         RedeemGrant, InvokeGateway, RecordGenerated, RecordUnusable, RecordDelivery,
         PreparePrivateDeliveryEffect, planeVars
<1>4. \/ GiveUp(c)
      \/ \E stage : answer' = [answer EXCEPT ![c].stage = stage]
      \/ \E g : answer' = [answer EXCEPT ![c] = [@ EXCEPT !.stage = "redeem", !.grant = g]]
      \/ \E text : answer' = [answer EXCEPT ![c] = [@ EXCEPT !.stage = "record", !.text = text]]
  BY Zenon DEF AnswerStep, AfterPlaceholder, AfterFinal, AfterEffect, AfterEffectRefused,
         Resolve, RedeemGrant, InvokeGateway, RecordGenerated, RecordUnusable,
         RecordDelivery
<1>5. \A d \in Calls \ {c} : call'[d] = call[d]
  BY <1>1, <1>3, Zenon 
<1>6. \A d \in Calls \ {c} : answer'[d] = answer[d]
  BY <1>1, <1>4, Zenon DEF GiveUp
<1> QED
  BY <1>2, <1>5, <1>6, Zenon 

\* The answer that steps.
LEMMA MatchAnswerStep ==
  ASSUME PlaneInv, AnswersCarry, CallsHoldOwnTickets, NEW c \in Calls,
         AnswerMatches(c), AnswerStep(c)
  PROVE  AnswerMatches(c)'
<1>1. /\ answer \in [Calls -> AnswerRow] /\ answer[c] \in AnswerRow
      /\ call \in [Calls -> CallRow]
  BY Zenon DEF PlaneInv, PlaneTypeOK, CallTypes, AnswersCarry
<1>2. UNCHANGED <<attemptRef, receipt>>
  BY AnswerStepShape, Zenon 
<1>3. ASSUME call'[c].stage = "none", answer'[c].stage = "idle"
      PROVE  AnswerMatches(c)'
  BY <1>3, MatchBetween, Zenon DEF Answered
<1>4. GiveUp(c) => answer'[c].stage = "idle"
  BY <1>1 DEF GiveUp, NoAnswer
<1>5. CASE AfterPlaceholder(c) \/ AfterFinal(c)
  <2>1. call[c].stage = "returned" /\ call'[c].stage = "none"
    BY <1>1, <1>5 DEF AfterPlaceholder, AfterFinal, AfterEffect, TakeOutcome, NoCall
  <2>2. CASE GiveUp(c)
    BY <1>3, <1>4, <2>1, <2>2, Zenon 
  <2>3. CASE AfterPlaceholder(c) /\ HasReceipt(c) /\ answer' = [answer EXCEPT ![c].stage = "resolve"]
    <3>1. answer[c].stage = "placeholder" /\ answer'[c].stage = "resolve"
      BY <1>1, <2>3, Zenon DEF AfterPlaceholder, AfterEffect, AnswerRow
    <3>2. receipt[EffectOf(c)] = call[c].attempt
      BY <2>1, <2>3, Zenon DEF CallsHoldOwnTickets, OwnTicket, HasReceipt
    <3>3. EffectOf(c) = <<c[2], "create_placeholder">> /\ call[c].attempt = attemptRef[c]
      BY <3>1, Zenon DEF AnswerMatches, EffectOf
    <3> QED
      BY <1>2, <2>1, <3>1, <3>2, <3>3, MatchBetween, Zenon 
  <2>4. CASE AfterFinal(c) /\ answer' = [answer EXCEPT ![c].stage = "audit"]
    <3>1. answer[c].stage = "final" /\ answer'[c].stage = "audit"
      BY <1>1, <2>4, Zenon DEF AfterFinal, AfterEffect, AnswerRow
    <3> QED
      BY <1>2, <2>1, <3>1, MatchBetween, Zenon DEF AnswerMatches, Answered
  <2> QED
    BY <1>5, <2>2, <2>3, <2>4, Zenon DEF AfterPlaceholder, AfterFinal, AfterEffect,
                                  AfterEffectRefused
<1>6. CASE Resolve(c) \/ RedeemGrant(c) \/ (\E text \in Texts \cup {None} : InvokeGateway(c, text))
           \/ RecordUnusable(c) \/ RecordDelivery(c)
  <2>1. /\ answer[c].stage \in {"resolve", "redeem", "invoke", "record", "audit"}
        /\ UNCHANGED call
    BY <1>6, Zenon DEF Resolve, RedeemGrant, InvokeGateway, RecordUnusable, RecordDelivery, planeVars
  <2>2. answer'[c].stage \in {"idle", "redeem", "invoke", "record"}
    <3>1. CASE GiveUp(c)
      BY <1>4, <3>1, Zenon 
    <3>2. ASSUME NEW g, answer' = [answer EXCEPT ![c] = [@ EXCEPT !.stage = "redeem",
                                                                 !.grant = g]]
          PROVE  answer'[c].stage = "redeem"
      BY <1>1, <3>2, Zenon DEF AnswerRow
    <3>3. ASSUME NEW text, answer' = [answer EXCEPT ![c] = [@ EXCEPT !.stage = "record",
                                                                    !.text = text]]
          PROVE  answer'[c].stage = "record"
      BY <1>1, <3>3, Zenon DEF AnswerRow
    <3>4. CASE answer' = [answer EXCEPT ![c].stage = "invoke"]
      BY <1>1, <3>4, Zenon DEF AnswerRow
    <3> QED
      BY <1>6, <3>1, <3>2, <3>3, <3>4, ZenonT(60) DEF Resolve, RedeemGrant, InvokeGateway,
           RecordUnusable, RecordDelivery
  <2> QED
    BY <1>2, <2>1, <2>2, MatchBetween, Zenon DEF AnswerMatches, Answered
<1>7. CASE RecordGenerated(c)
  <2>1. /\ answer[c].stage = "record" /\ answer'[c].stage = "final"
        /\ call'[c].stage = "bind" /\ call'[c].operation = FinalEffect[c[2]]
        /\ call'[c].attempt = attemptRef[c] /\ call'[c].payload = answer'[c].text
    BY <1>1, <1>7, Zenon DEF RecordGenerated, PreparePrivateDeliveryEffect, AnswerRow
  <2> QED
    BY <1>2, <2>1, Zenon DEF AnswerMatches, Answered
<1> QED
  BY <1>5, <1>6, <1>7, Zenon DEF AnswerStep

\* Every step keeps the answers and the performs together.
LEMMA MatchStep ==
  ASSUME PlaneInv, AnswersCarry, CallsHoldOwnTickets, AnswersMatch, [Next]_vars
  PROVE  AnswersMatch'
<1> SUFFICES ASSUME NEW d \in Calls
             PROVE  AnswerMatches(d)'
  BY Zenon DEF AnswersMatch
<1>0. /\ AnswerMatches(d) /\ [PlaneNext]_planeVars
      /\ answer \in [Calls -> AnswerRow] /\ attemptRef \in [Calls -> Attempts \cup {None}]
      /\ call \in [Calls -> CallRow] /\ call[d] \in CallRow
  BY StepsOfThePlane, Zenon DEF AnswersMatch, AnswersCarry, PlaneInv, PlaneTypeOK, CallTypes
<1>1. CASE UNCHANGED <<answer, attemptRef, call>>
  BY <1>0, <1>1, MatchFrame, Zenon 
<1>2. ASSUME NEW c \in Calls, CallStep(c) \/ LoseSession(c), UNCHANGED botVars
      PROVE  AnswerMatches(d)'
  <2>1. UNCHANGED <<answer, attemptRef>>
    BY <1>2, Zenon DEF botVars
  <2>2. CASE CallStep(c)
    BY <1>0, <2>1, <2>2, CallStepShape, MatchFrame, Zenon 
  <2>3. CASE LoseSession(c)
    <3>1. /\ call'[d].stage = call[d].stage
          /\ call'[d].operation = call[d].operation
          /\ call'[d].attempt = call[d].attempt /\ call'[d].payload = call[d].payload
      BY <1>0, <2>3, Zenon DEF LoseSession, CallRow
    <3> QED
      BY <1>0, <2>1, <3>1, MatchFrame, Zenon 
  <2> QED
    BY <1>2, <2>2, <2>3, Zenon 
<1>3. ASSUME NEW c \in Calls, NEW e \in Events, StartAnswer(c, e)
      PROVE  AnswerMatches(d)'
  <2>1. CASE d = c
    <3>1. /\ answer'[c].stage = "placeholder" /\ attemptRef'[c] = AttemptFor(c)
          /\ call'[c].stage = "bind" /\ call'[c].operation = "create_placeholder"
          /\ call'[c].attempt = AttemptFor(c)
      BY <1>0, <1>3, Zenon DEF StartAnswer, PreparePrivateDeliveryEffect, AnswerRow
    <3> QED
      BY <2>1, <3>1, Zenon DEF AnswerMatches, Answered
  <2>2. CASE d # c
    <3>1. answer'[d] = answer[d] /\ attemptRef'[d] = attemptRef[d] /\ call'[d] = call[d]
      BY <1>0, <1>3, <2>2, Zenon DEF StartAnswer, PreparePrivateDeliveryEffect
    <3> QED
      BY <1>0, <3>1, MatchFrame, Zenon 
  <2> QED
    BY <2>1, <2>2, Zenon 
<1>4. ASSUME NEW c \in Calls, AnswerStep(c)
      PROVE  AnswerMatches(d)'
  <2>1. CASE d = c
    BY <1>0, <1>4, <2>1, MatchAnswerStep, Zenon 
  <2>2. CASE d # c
    <3>1. answer'[d] = answer[d] /\ attemptRef'[d] = attemptRef[d] /\ call'[d] = call[d]
      BY <1>4, <2>2, AnswerStepShape, Zenon 
    <3> QED
      BY <1>0, <3>1, MatchFrame, Zenon 
  <2> QED
    BY <2>1, <2>2, Zenon 
<1>5. ASSUME NEW b \in Bots, Crash(b)
      PROVE  AnswerMatches(d)'
  <2>1. CASE d[1] = b
    <3>1. answer'[d].stage = "idle" /\ call'[d].stage = "none"
      BY <1>5, <2>1, ZenonT(60) DEF Crash, CrashPlane, NoAnswer, NoCall
    <3> QED
      BY <3>1, MatchBetween, ZenonT(60) DEF Answered
  <2>2. CASE d[1] # b
    <3>1. answer'[d] = answer[d] /\ attemptRef'[d] = attemptRef[d] /\ call'[d] = call[d]
      BY <1>5, <2>2, Zenon DEF Crash, CrashPlane
    <3> QED
      BY <1>0, <3>1, MatchFrame, Zenon 
  <2> QED
    BY <2>1, <2>2, Zenon 
<1> QED
  BY <1>1, <1>2, <1>3, <1>4, <1>5, Zenon DEF Next, vars, planeVars, botVars, AuthorityStep,
       AdvancePolicyEpoch, EndMembership, ExpireEvidence, ExpireTicket, ExpireGrant,
       AnswerAgain, Reconcile, memory

\* A ticket only appears when a call inserts it.
LEMMA NewTickets ==
  ASSUME PlaneInv, [PlaneNext]_planeVars, NEW k \in Effects,
         ticket[k].state = "none", ticket'[k].state # "none"
  PROVE  \E c \in Calls : /\ call[c].stage # "none" /\ EffectOf(c) = k
                          /\ ticket'[k].attempt = call[c].attempt
                          /\ ticket'[k].payload = call[c].payload
<1>1. ASSUME NEW j \in Effects, ExpireTicket(j)
      PROVE  FALSE
  BY <1>1, Zenon DEF ExpireTicket, PlaneInv, PlaneTypeOK, StoreTypes, TicketRow
<1>2. ASSUME NEW j \in Effects, NEW state, Settle(j, state), provider[j].state # "none"
      PROVE  FALSE
  <2>1. ticket[j].state # "none"
    BY <1>2, Zenon DEF PlaneInv, RowInv, ReceiptsTellTheTruth
  <2> QED
    BY <1>2, <2>1, Zenon DEF Settle, PlaneInv, PlaneTypeOK, StoreTypes
<1>3. ASSUME NEW c \in Calls, CallStep(c)
      PROVE  /\ call[c].stage # "none" /\ EffectOf(c) = k
             /\ ticket'[k].attempt = call[c].attempt /\ ticket'[k].payload = call[c].payload
  <2>1. call[c].stage # "none" /\ EffectOf(c) \in Effects
    BY <1>3, CallStepShape, CallFacts, Zenon 
  <2>2. CASE InsertTicket(c)
    BY <2>1, <2>2, Zenon DEF InsertTicket, PlaneInv, PlaneTypeOK, StoreTypes
  <2>3. CASE BeginSend(c)
    BY <2>1, <2>3, Zenon DEF BeginSend, MaySend, PlaneInv, PlaneTypeOK, StoreTypes
  <2>4. CASE CompleteEffect(c)
    <3>1. provider[EffectOf(c)].state # "none"
      BY <2>4, Zenon DEF CompleteEffect, PlaneInv, CallInv, SendersOwnAttempts, SenderOwns
    <3> QED
      BY <1>2, <2>1, <2>4, <3>1, Zenon DEF CompleteEffect
  <2> QED
    BY <1>3, <2>2, <2>3, <2>4, Zenon DEF CallStep, BindPrivateDelivery, ReuseTicket, RefusePrepare,
         BeginReplay, RefuseBegin, Send, CompletionLost, ReleaseSession, store
<1>4. ASSUME NEW b \in Bots, NEW j \in Effects, Reconcile(b, j)
      PROVE  FALSE
  BY <1>2, <1>4, Zenon DEF Reconcile, Reconcilable
<1> QED
  BY <1>1, <1>3, <1>4, Zenon DEF PlaneNext, planeVars, AuthorityStep, AdvancePolicyEpoch,
       EndMembership, ExpireEvidence, PreparePrivateDeliveryEffect, TakeOutcome,
       LoseSession, CrashPlane, store

\* The final tickets keep following their placeholders.
LEMMA FollowStep ==
  ASSUME PlaneInv, AnswersCarry, AnswersMatch, FinalTicketsFollow, [Next]_vars
  PROVE  FinalTicketsFollow'
<1> SUFFICES ASSUME NEW t \in Turns, ticket'[<<t, FinalEffect[t]>>].state # "none"
             PROVE  receipt'[<<t, "create_placeholder">>]
                      = ticket'[<<t, FinalEffect[t]>>].attempt
  BY Zenon DEF FinalTicketsFollow
<1> DEFINE f == <<t, FinalEffect[t]>>
           p == <<t, "create_placeholder">>
<1>1. f \in Effects /\ p \in Effects /\ FinalEffect[t] # "create_placeholder"
  BY TurnEffects, Zenon 
<1>2. [PlaneNext]_planeVars /\ None \notin Attempts
  BY StepsOfThePlane, ActionPlaneAssumption, Zenon 
<1>3. receipt[p] # None => receipt'[p] = receipt[p]
  BY <1>1, <1>2, RowsStay, Zenon 
<1>4. CASE ticket[f].state # "none"
  <2>1. ticket'[f].attempt = ticket[f].attempt /\ receipt[p] = ticket[f].attempt
    BY <1>1, <1>2, <1>4, RowsStay, Zenon DEF FinalTicketsFollow
  <2>2. ticket[f].attempt \in Attempts
    BY <1>1, <1>4, Zenon DEF PlaneInv, RowInv, TicketsNameAttempts
  <2> QED
    BY <1>2, <1>3, <2>1, <2>2, Zenon 
<1>5. CASE ticket[f].state = "none"
  <2>1. PICK c \in Calls : /\ call[c].stage # "none" /\ EffectOf(c) = f
                          /\ ticket'[f].attempt = call[c].attempt
    BY <1>1, <1>2, <1>5, NewTickets, Zenon 
  <2>2. c[2] = t /\ call[c].operation = FinalEffect[t]
    BY <2>1, Zenon DEF EffectOf
  <2>3. AnswerMatches(c)
    BY Zenon DEF AnswersMatch
  <2>4. answer[c].stage = "final"
    BY <1>1, <2>1, <2>2, <2>3, Zenon DEF AnswerMatches
  <2>5. receipt[p] = attemptRef[c] /\ call[c].attempt = attemptRef[c]
    BY <2>2, <2>3, <2>4, ZenonT(60) DEF AnswerMatches, Answered
  <2>6. attemptRef[c] \in Attempts
    BY <2>4, Zenon DEF AnswersCarry
  <2> QED
    BY <1>2, <1>3, <2>1, <2>5, <2>6, ZenonT(60) 
<1> QED
  BY <1>4, <1>5, Zenon 

\* A final effect is only ever prepared by the delivery attempt whose own
\* placeholder was applied, across restarts and for any number of processes:
\* context_action_prepare reuses a ticket only for the same attempt.
THEOREM FinalsFollow == Spec => []FinalFollowsPlaceholder
<1> DEFINE Inv == AnswersCarry /\ AnswersMatch /\ FinalTicketsFollow
<1>1. Init => Inv
  <2>1. ASSUME Init PROVE AnswersMatch
    BY <2>1, Zenon DEF Init, PlaneInit, AnswersMatch, AnswerMatches, Answered, NoAnswer, NoCall
  <2>2. ASSUME Init PROVE FinalTicketsFollow
    BY <2>2, TurnEffects, Zenon DEF Init, PlaneInit, FinalTicketsFollow, NoTicket
  <2> QED
    BY <2>1, <2>2, CarryInit, Zenon 
<1>2. PlaneInv /\ CallsHoldOwnTickets /\ Inv /\ [Next]_vars => Inv'
  BY CarryStep, MatchStep, FollowStep, Zenon 
<1>3. PlaneInv /\ Inv => FinalFollowsPlaceholder
  <2> SUFFICES ASSUME PlaneInv, FinalTicketsFollow, NEW t \in Turns,
                      ticket[<<t, FinalEffect[t]>>].state # "none"
               PROVE  /\ receipt[<<t, "create_placeholder">>]
                           = ticket[<<t, FinalEffect[t]>>].attempt
                      /\ effects[<<t, "create_placeholder">>] = 1
    BY Zenon DEF FinalFollowsPlaceholder
  <2>1. receipt[<<t, "create_placeholder">>] = ticket[<<t, FinalEffect[t]>>].attempt
    BY Zenon DEF FinalTicketsFollow
  <2>2. ticket[<<t, FinalEffect[t]>>].attempt \in Attempts /\ None \notin Attempts
    BY TurnEffects, ActionPlaneAssumption, Zenon DEF PlaneInv, RowInv, TicketsNameAttempts
  <2> QED
    BY <2>1, <2>2, TurnEffects, Zenon DEF PlaneInv, RowInv, ReceiptsTellTheTruth
<1>4. Spec => []PlaneInv /\ []CallsHoldOwnTickets
  BY ImplementsThePlane, PlaneInvariant, OwnTickets, PTL DEF UsesThePlane
<1> HIDE DEF Inv
<1> QED
  BY <1>1, <1>2, <1>3, <1>4, PTL DEF Spec

-----------------------------------------------------------------------------
(* What is delivered was generated under one grant, by one call            *)

GrantRow == [state : {"none", "issued", "consumed"}, epoch : Nat, live : BOOLEAN,
             calls : Nat, outcome : {"none", "output_rejected", "generated"},
             text : Texts \cup {None}]

Holding == {"redeem", "invoke", "record", "final", "audit"}

\* How far the grant is of an answer at this stage.
GrantFits(stage, row, text) ==
    /\ stage = "redeem" => row.state = "issued" /\ row.calls = 0 /\ row.outcome = "none"
    /\ stage = "invoke" => row.state = "consumed" /\ row.calls = 0 /\ row.outcome = "none"
    /\ stage = "record" => row.state = "consumed" /\ row.calls = 1 /\ row.outcome = "none"
    /\ stage \in {"final", "audit"} =>
         /\ row.state = "consumed" /\ row.calls = 1 /\ row.outcome = "generated"
         /\ row.text = text /\ text # None

\* What a grant has gone through, whoever holds it.
GrantIsSound(row) ==
    /\ row.state = "none" => row.calls = 0
    /\ row.state # "consumed" => row.outcome = "none"
    /\ row.outcome = "generated" => row.calls = 1

HoldsOwn(c) ==
    answer[c].stage \in Holding =>
      /\ answer[c].grant \in Grants
      /\ GrantFits(answer[c].stage, grant[answer[c].grant], answer[c].text)

\* Every grant is held by one answer at most, which is as far as the grant.
GrantsAreHeld ==
    /\ grant \in [Grants -> GrantRow]
    /\ \A g \in Grants : GrantIsSound(grant[g])
    /\ \A c \in Calls : HoldsOwn(c)
    /\ \A c, d \in Calls :
         /\ answer[c].stage \in Holding /\ answer[d].stage \in Holding
         /\ answer[c].grant = answer[d].grant
         => c = d

\* A step of one answer with its own grant, which nobody else holds.
LEMMA HeldMove ==
  ASSUME GrantsAreHeld, answer \in [Calls -> AnswerRow], NEW c \in Calls,
         NEW g \in Grants, NEW r \in AnswerRow, NEW row \in GrantRow,
         answer' = [answer EXCEPT ![c] = r], grant' = [grant EXCEPT ![g] = row],
         r.stage \in Holding => r.grant = g /\ GrantFits(r.stage, row, r.text),
         \A d \in Calls \ {c} : answer[d].stage \in Holding => answer[d].grant # g,
         GrantIsSound(row)
  PROVE  GrantsAreHeld'
<1>1. /\ grant \in [Grants -> GrantRow]
      /\ \A h \in Grants : GrantIsSound(grant[h])
      /\ \A d \in Calls : HoldsOwn(d)
  BY Zenon DEF GrantsAreHeld
<1>2. /\ answer'[c] = r /\ \A d \in Calls \ {c} : answer'[d] = answer[d]
      /\ grant'[g] = row /\ \A h \in Grants \ {g} : grant'[h] = grant[h]
  BY <1>1, Zenon
<1>3. grant' \in [Grants -> GrantRow]
  BY <1>1, Zenon
<1>4. \A h \in Grants : GrantIsSound(grant'[h])
  BY <1>1, <1>2, Zenon
<1>5. ASSUME NEW d \in Calls
      PROVE  HoldsOwn(d)'
  <2>1. CASE d = c
    BY <1>2, <2>1, Zenon DEF HoldsOwn
  <2>2. CASE d # c
    <3>1. HoldsOwn(d) /\ answer'[d] = answer[d]
      BY <1>1, <1>2, <2>2, Zenon
    <3>2. answer[d].stage \in Holding => grant'[answer[d].grant] = grant[answer[d].grant]
      BY <1>2, <2>2, <3>1, Zenon DEF HoldsOwn
    <3> QED
      BY <3>1, <3>2, Zenon DEF HoldsOwn
  <2> QED
    BY <2>1, <2>2, Zenon
<1>6. ASSUME NEW d \in Calls, NEW e \in Calls,
             answer'[d].stage \in Holding, answer'[e].stage \in Holding,
             answer'[d].grant = answer'[e].grant
      PROVE  d = e
  <2>1. CASE d = c \/ e = c
    BY <1>2, <1>6, <2>1, Zenon
  <2>2. CASE d # c /\ e # c
    BY <1>2, <1>6, <2>2, Zenon DEF GrantsAreHeld
  <2> QED
    BY <2>1, <2>2, Zenon
<1> QED
  BY <1>3, <1>4, <1>5, <1>6, Zenon DEF GrantsAreHeld

\* A step in which no grant gets any further.
LEMMA HeldFrame ==
  ASSUME GrantsAreHeld, grant' \in [Grants -> GrantRow],
         \A g \in Grants : /\ grant'[g].state = grant[g].state
                           /\ grant'[g].calls = grant[g].calls
                           /\ grant'[g].outcome = grant[g].outcome
                           /\ grant'[g].text = grant[g].text,
         \A d \in Calls : answer'[d].stage \in Holding =>
            /\ \/ answer'[d].stage = answer[d].stage
               \/ answer'[d].stage = "audit" /\ answer[d].stage = "final"
            /\ answer'[d].grant = answer[d].grant /\ answer'[d].text = answer[d].text
  PROVE  GrantsAreHeld'
<1>1. /\ \A h \in Grants : GrantIsSound(grant[h])
      /\ \A d \in Calls : HoldsOwn(d)
  BY Zenon DEF GrantsAreHeld
<1>2. \A h \in Grants : GrantIsSound(grant'[h])
  BY <1>1, Zenon DEF GrantIsSound
<1>3. \A d \in Calls : answer'[d].stage \in Holding => answer[d].stage \in Holding
  BY Zenon DEF Holding
<1>4. ASSUME NEW d \in Calls
      PROVE  HoldsOwn(d)'
  <2> SUFFICES ASSUME answer'[d].stage \in Holding
               PROVE  /\ answer'[d].grant \in Grants
                      /\ GrantFits(answer'[d].stage, grant'[answer'[d].grant], answer'[d].text)
    BY Zenon DEF HoldsOwn
  <2>1. answer[d].grant \in Grants
        /\ GrantFits(answer[d].stage, grant[answer[d].grant], answer[d].text)
    BY <1>1, <1>3, Zenon DEF HoldsOwn
  <2>2. GrantFits(answer'[d].stage, grant[answer[d].grant], answer[d].text)
    BY <2>1, Zenon DEF GrantFits
  <2> QED
    BY <2>1, <2>2, Zenon DEF GrantFits
<1>5. ASSUME NEW d \in Calls, NEW e \in Calls,
             answer'[d].stage \in Holding, answer'[e].stage \in Holding,
             answer'[d].grant = answer'[e].grant
      PROVE  d = e
  BY <1>3, <1>5, Zenon DEF GrantsAreHeld
<1> QED
  BY <1>2, <1>4, <1>5, Zenon DEF GrantsAreHeld

\* What becomes of the grant of an answer.
LEMMA GrantFields ==
  ASSUME NEW row \in GrantRow
  PROVE  /\ \A e \in Nat :
              LET new == [row EXCEPT !.state = "issued", !.epoch = e, !.live = TRUE]
              IN  /\ new \in GrantRow /\ new.state = "issued" /\ new.calls = row.calls
                  /\ new.outcome = row.outcome /\ new.text = row.text
         /\ LET new == [row EXCEPT !.live = FALSE]
            IN  /\ new \in GrantRow /\ new.state = row.state /\ new.calls = row.calls
                /\ new.outcome = row.outcome /\ new.text = row.text
         /\ LET new == [row EXCEPT !.state = "consumed"]
            IN  /\ new \in GrantRow /\ new.state = "consumed" /\ new.calls = row.calls
                /\ new.outcome = row.outcome /\ new.text = row.text
         /\ row.calls = 0 =>
              LET new == [row EXCEPT !.calls = row.calls + 1]
              IN  /\ new \in GrantRow /\ new.state = row.state /\ new.calls = 1
                  /\ new.outcome = row.outcome /\ new.text = row.text
         /\ \A outcome \in {"output_rejected", "generated"}, text \in Texts \cup {None} :
              LET new == [row EXCEPT !.outcome = outcome, !.text = text]
              IN  /\ new \in GrantRow /\ new.state = row.state /\ new.calls = row.calls
                  /\ new.outcome = outcome /\ new.text = text
<1>1. \A e \in Nat :
         LET new == [row EXCEPT !.state = "issued", !.epoch = e, !.live = TRUE]
         IN  /\ new \in GrantRow /\ new.state = "issued" /\ new.calls = row.calls
             /\ new.outcome = row.outcome /\ new.text = row.text
  BY ZenonT(60) DEF GrantRow
<1>2. LET new == [row EXCEPT !.live = FALSE]
      IN  /\ new \in GrantRow /\ new.state = row.state /\ new.calls = row.calls
          /\ new.outcome = row.outcome /\ new.text = row.text
  BY ZenonT(60) DEF GrantRow
<1>3. LET new == [row EXCEPT !.state = "consumed"]
      IN  /\ new \in GrantRow /\ new.state = "consumed" /\ new.calls = row.calls
          /\ new.outcome = row.outcome /\ new.text = row.text
  BY ZenonT(60) DEF GrantRow
<1>4. ASSUME row.calls = 0
      PROVE  LET new == [row EXCEPT !.calls = row.calls + 1]
             IN  /\ new \in GrantRow /\ new.state = row.state /\ new.calls = 1
                 /\ new.outcome = row.outcome /\ new.text = row.text
  <2>1. row.calls + 1 = 1 /\ 1 \in 0 .. 1 /\ 1 \in Nat
    BY <1>4, SMT
  <2> QED
    BY <2>1, ZenonT(60) DEF GrantRow
<1>5. \A outcome \in {"output_rejected", "generated"}, text \in Texts \cup {None} :
         LET new == [row EXCEPT !.outcome = outcome, !.text = text]
         IN  /\ new \in GrantRow /\ new.state = row.state /\ new.calls = row.calls
             /\ new.outcome = outcome /\ new.text = text
  BY ZenonT(60) DEF GrantRow
<1> QED
  BY <1>1, <1>2, <1>3, <1>4, <1>5, Zenon

\* An answer that holds a grant is the only one that holds it.
LEMMA OnlyHolder ==
  ASSUME GrantsAreHeld, NEW c \in Calls, answer[c].stage \in Holding
  PROVE  /\ answer[c].grant \in Grants /\ grant[answer[c].grant] \in GrantRow
         /\ GrantFits(answer[c].stage, grant[answer[c].grant], answer[c].text)
         /\ \A d \in Calls \ {c} : answer[d].stage \in Holding => answer[d].grant # answer[c].grant
BY Zenon DEF GrantsAreHeld, HoldsOwn

\* The outcome the audit function stores for an answer.
LEMMA OutcomeStored ==
  ASSUME GrantsAreHeld, answer \in [Calls -> AnswerRow], NEW c \in Calls,
         answer[c].stage = "record", InsertModelOutcome(c, answer[c].grant)
  PROVE  \E row \in GrantRow :
            /\ grant' = [grant EXCEPT ![answer[c].grant] = row]
            /\ row.state = "consumed" /\ row.calls = 1 /\ row.outcome # "none"
            /\ row.text = answer[c].text
            /\ row.outcome = "generated" <=> answer[c].text # None
<1>1. /\ answer[c].grant \in Grants /\ grant[answer[c].grant] \in GrantRow
      /\ GrantFits("record", grant[answer[c].grant], answer[c].text)
      /\ answer[c].text \in Texts \cup {None} /\ grant \in [Grants -> GrantRow]
  BY OnlyHolder, Zenon DEF Holding, AnswerRow, GrantsAreHeld
<1>2. PICK g \in Grants, text \in Texts \cup {None} :
         g = answer[c].grant /\ text = answer[c].text
  BY <1>1, Zenon
<1>3. PICK outcome \in {"output_rejected", "generated"} :
         outcome = IF text = None THEN "output_rejected" ELSE "generated"
  BY Zenon
<1> DEFINE row == [grant[g] EXCEPT !.outcome = outcome, !.text = text]
<1>4. grant' = [grant EXCEPT ![g] = row]
  BY <1>1, <1>2, <1>3, Zenon DEF InsertModelOutcome
<1>5. /\ row \in GrantRow /\ row.state = grant[g].state /\ row.calls = grant[g].calls
      /\ row.outcome = outcome /\ row.text = text
  <2>1. PICK old \in GrantRow : old = grant[g]
    BY <1>1, <1>2, Zenon
  <2>2. PICK new : new = [old EXCEPT !.outcome = outcome, !.text = text]
    OBVIOUS
  <2>3. /\ new \in GrantRow /\ new.state = old.state /\ new.calls = old.calls
        /\ new.outcome = outcome /\ new.text = text
    BY <2>2, ZenonT(60) DEF GrantRow
  <2> QED
    BY <2>1, <2>2, <2>3, Zenon
<1>6. grant[g].state = "consumed" /\ grant[g].calls = 1
  BY <1>1, <1>2, Zenon DEF GrantFits
<1> HIDE DEF row
<1> QED
  BY <1>2, <1>3, <1>4, <1>5, <1>6, Zenon

\* A step of an answer takes its grant one stage further, or leaves it.
LEMMA HeldAnswerStep ==
  ASSUME PlaneInv, AnswersCarry, GrantsAreHeld, NEW c \in Calls, AnswerStep(c)
  PROVE  GrantsAreHeld'
<1>0. /\ answer \in [Calls -> AnswerRow] /\ answer[c] \in AnswerRow
      /\ grant \in [Grants -> GrantRow]
      /\ NoAnswer \in AnswerRow /\ NoAnswer.stage = "idle" /\ NoAnswer.stage \notin Holding
      /\ \A g \in Grants : GrantIsSound(grant[g])
  BY Zenon DEF AnswersCarry, GrantsAreHeld, NoAnswer, AnswerRow, AnswerStages, Holding
<1>1. \A d \in Calls \ {c} : answer'[d] = answer[d]
  BY AnswerStepShape, Zenon
<1>2. ASSUME GiveUp(c), UNCHANGED grant
      PROVE  GrantsAreHeld'
  <2>1. answer'[c] = NoAnswer
    BY <1>0, <1>2, Zenon DEF GiveUp
  <2> QED
    BY <1>0, <1>1, <1>2, <2>1, HeldFrame, Zenon
<1>3. ASSUME NEW stage \in AnswerStages, UNCHANGED grant,
             answer' = [answer EXCEPT ![c].stage = stage],
             stage = "audit" => answer[c].stage = "final",
             stage \in Holding => stage = "audit"
      PROVE  GrantsAreHeld'
  <2>1. /\ answer'[c].stage = stage /\ answer'[c].grant = answer[c].grant
        /\ answer'[c].text = answer[c].text
    BY <1>0, <1>3, Zenon DEF AnswerRow
  <2> QED
    BY <1>0, <1>1, <1>3, <2>1, HeldFrame, Zenon
<1>4. CASE AfterPlaceholder(c)
  <2>1. "resolve" \in AnswerStages /\ "resolve" \notin Holding /\ "resolve" # "audit"
    BY Zenon DEF AnswerStages, Holding
  <2> QED
    BY <1>2, <1>3, <1>4, <2>1, Zenon DEF AfterPlaceholder, AfterEffect, AfterEffectRefused
<1>5. CASE AfterFinal(c)
  <2>1. "audit" \in AnswerStages
    BY Zenon DEF AnswerStages
  <2> QED
    BY <1>2, <1>3, <1>5, <2>1, Zenon DEF AfterFinal, AfterEffect, AfterEffectRefused
<1>6. CASE Resolve(c)
  <2>1. ASSUME NEW g \in Grants, grant[g].state = "none",
               grant' = [grant EXCEPT ![g].state = "issued", ![g].epoch = policyEpoch,
                                      ![g].live = TRUE],
               answer' = [answer EXCEPT ![c] = [@ EXCEPT !.stage = "redeem", !.grant = g]]
        PROVE  GrantsAreHeld'
    <3> DEFINE row == [grant[g] EXCEPT !.state = "issued", !.epoch = policyEpoch, !.live = TRUE]
               r == [answer[c] EXCEPT !.stage = "redeem", !.grant = g]
    <3>1. policyEpoch \in Nat /\ grant[g] \in GrantRow /\ GrantIsSound(grant[g])
      BY <1>0, Zenon DEF PlaneInv, PlaneTypeOK, AuthorityTypes
    <3>2. grant' = [grant EXCEPT ![g] = row]
      BY <1>0, <2>1, Zenon
    <3>3. /\ row \in GrantRow /\ row.state = "issued" /\ row.calls = grant[g].calls
          /\ row.outcome = grant[g].outcome
      <4>1. PICK e \in Nat : e = policyEpoch
        BY <3>1, Zenon
      <4>2. PICK old \in GrantRow : old = grant[g]
        BY <3>1, Zenon
      <4>3. PICK new : new = [old EXCEPT !.state = "issued", !.epoch = e, !.live = TRUE]
        OBVIOUS
      <4>4. /\ new \in GrantRow /\ new.state = "issued" /\ new.calls = old.calls
            /\ new.outcome = old.outcome
        BY <4>1, <4>3, ZenonT(60) DEF GrantRow
      <4> QED
        BY <4>1, <4>2, <4>3, <4>4, Zenon
    <3>4. /\ r \in AnswerRow /\ r.stage = "redeem" /\ r.grant = g
          /\ answer' = [answer EXCEPT ![c] = r]
      BY <1>0, <2>1, Zenon DEF AnswerRow, AnswerStages
    <3>5. grant[g].calls = 0 /\ grant[g].outcome = "none"
      BY <2>1, <3>1, Zenon DEF GrantIsSound
    <3>6. GrantFits("redeem", row, r.text) /\ GrantIsSound(row)
      BY <3>3, <3>5, Zenon DEF GrantFits, GrantIsSound
    <3>7. \A d \in Calls : answer[d].stage \in Holding => answer[d].grant # g
      BY <2>1, OnlyHolder, Zenon DEF GrantFits, Holding
    <3> HIDE DEF row, r
    <3> QED
      <4>1. PICK n \in AnswerRow, new \in GrantRow : n = r /\ new = row
        BY <3>3, <3>4, Zenon
      <4>2. /\ answer' = [answer EXCEPT ![c] = n] /\ grant' = [grant EXCEPT ![g] = new]
            /\ n.stage \in Holding => n.grant = g /\ GrantFits(n.stage, new, n.text)
            /\ GrantIsSound(new)
        BY <3>2, <3>4, <3>6, <4>1, Zenon
      <4> QED
        BY <1>0, <3>7, <4>2, HeldMove, Zenon
  <2>2. CASE GiveUp(c) /\ UNCHANGED grant
    BY <1>2, <2>2, Zenon
  <2>3. \A g \in Grants : g >= g
    BY SMT DEF Grants
  <2> QED
    BY <1>6, <2>1, <2>2, <2>3, Zenon DEF Resolve
<1>7. CASE RedeemGrant(c)
  <2>1. answer[c].stage = "redeem" /\ answer[c].stage \in Holding
    BY <1>7, Zenon DEF RedeemGrant, Holding
  <2>2. PICK g \in Grants : g = answer[c].grant
    BY <2>1, OnlyHolder, Zenon
  <2>3. /\ grant[g] \in GrantRow /\ grant[g].calls = 0 /\ grant[g].outcome = "none"
        /\ \A d \in Calls \ {c} : answer[d].stage \in Holding => answer[d].grant # g
    BY <2>1, <2>2, OnlyHolder, Zenon DEF GrantFits
  <2> DEFINE row == [grant[g] EXCEPT !.state = "consumed"]
             r == [answer[c] EXCEPT !.stage = "invoke"]
  <2>4. /\ row \in GrantRow /\ row.state = "consumed" /\ row.calls = 0 /\ row.outcome = "none"
    BY <2>3, GrantFields, Zenon
  <2>5. GrantFits("invoke", row, r.text) /\ GrantIsSound(row)
    BY <2>4, Zenon DEF GrantFits, GrantIsSound
  <2>6. r \in AnswerRow /\ r.stage = "invoke" /\ r.grant = g
    BY <1>0, <2>2, Zenon DEF AnswerRow, AnswerStages
  <2>7. ASSUME grant' = [grant EXCEPT ![g].state = "consumed"], GiveUp(c)
        PROVE  GrantsAreHeld'
    <3>1. grant' = [grant EXCEPT ![g] = row] /\ answer' = [answer EXCEPT ![c] = NoAnswer]
      BY <1>0, <2>7, Zenon DEF GiveUp
    <3> HIDE DEF row
    <3> QED
      BY <1>0, <2>3, <2>4, <2>5, <3>1, HeldMove, Zenon
  <2>8. ASSUME grant' = [grant EXCEPT ![g].state = "consumed"],
               answer' = [answer EXCEPT ![c].stage = "invoke"]
        PROVE  GrantsAreHeld'
    <3>1. grant' = [grant EXCEPT ![g] = row] /\ answer' = [answer EXCEPT ![c] = r]
      BY <1>0, <2>8, Zenon
    <3> HIDE DEF row, r
    <3> QED
      <4>1. PICK n \in AnswerRow, new \in GrantRow : n = r /\ new = row
        BY <2>4, <2>6, Zenon
      <4>2. /\ answer' = [answer EXCEPT ![c] = n] /\ grant' = [grant EXCEPT ![g] = new]
            /\ n.stage \in Holding => n.grant = g /\ GrantFits(n.stage, new, n.text)
            /\ GrantIsSound(new)
        BY <2>5, <2>6, <3>1, <4>1, Zenon
      <4> QED
        BY <1>0, <2>3, <4>2, HeldMove, Zenon
  <2> HIDE DEF row, r
  <2> QED
    BY <1>2, <1>7, <2>2, <2>7, <2>8, Zenon DEF RedeemGrant
<1>8. ASSUME NEW text \in Texts \cup {None}, InvokeGateway(c, text)
      PROVE  GrantsAreHeld'
  <2>1. answer[c].stage = "invoke" /\ answer[c].stage \in Holding
    BY <1>8, Zenon DEF InvokeGateway, Holding
  <2>2. PICK g \in Grants : g = answer[c].grant
    BY <2>1, OnlyHolder, Zenon
  <2>3. /\ grant[g] \in GrantRow /\ grant[g].calls = 0 /\ grant[g].outcome = "none"
        /\ grant[g].state = "consumed"
        /\ \A d \in Calls \ {c} : answer[d].stage \in Holding => answer[d].grant # g
    BY <2>1, <2>2, OnlyHolder, Zenon DEF GrantFits
  <2> DEFINE row == [grant[g] EXCEPT !.calls = grant[g].calls + 1]
             r == [answer[c] EXCEPT !.stage = "record", !.text = text]
  <2>4. /\ row \in GrantRow /\ row.state = "consumed" /\ row.calls = 1 /\ row.outcome = "none"
    BY <2>3, GrantFields, Zenon
  <2>5. GrantFits("record", row, r.text) /\ GrantIsSound(row)
    BY <2>4, Zenon DEF GrantFits, GrantIsSound
  <2>6. r \in AnswerRow /\ r.stage = "record" /\ r.grant = g
    BY <1>0, <2>2, ZenonT(60) DEF AnswerRow, AnswerStages
  <2>7. grant' = [grant EXCEPT ![g] = row] /\ answer' = [answer EXCEPT ![c] = r]
    BY <1>0, <1>8, <2>2, Zenon DEF InvokeGateway
  <2> HIDE DEF row, r
  <2> QED
    <3>1. PICK n \in AnswerRow, new \in GrantRow : n = r /\ new = row
      BY <2>4, <2>6, Zenon
    <3>2. /\ answer' = [answer EXCEPT ![c] = n] /\ grant' = [grant EXCEPT ![g] = new]
          /\ n.stage \in Holding => n.grant = g /\ GrantFits(n.stage, new, n.text)
          /\ GrantIsSound(new)
      BY <2>5, <2>6, <2>7, <3>1, Zenon
    <3>3. \A d \in Calls \ {c} : answer[d].stage \in Holding => answer[d].grant # g
      BY <2>3, Zenon
    <3>4. answer \in [Calls -> AnswerRow]
      BY <1>0, Zenon
    <3> QED
      BY <3>2, <3>3, <3>4, HeldMove, Zenon
<1>9. ASSUME answer[c].stage = "record", InsertModelOutcome(c, answer[c].grant),
             NEW r \in AnswerRow, answer' = [answer EXCEPT ![c] = r],
             r.stage \in Holding => /\ r.stage = "final" /\ r.grant = answer[c].grant
                                    /\ r.text = answer[c].text /\ answer[c].text # None
      PROVE  GrantsAreHeld'
  <2>1. PICK g \in Grants : g = answer[c].grant
    BY <1>9, OnlyHolder, Zenon DEF Holding
  <2>2. \A d \in Calls \ {c} : answer[d].stage \in Holding => answer[d].grant # g
    BY <1>9, <2>1, OnlyHolder, Zenon DEF Holding
  <2>3. PICK row \in GrantRow :
            /\ grant' = [grant EXCEPT ![answer[c].grant] = row]
            /\ row.state = "consumed" /\ row.calls = 1 /\ row.outcome # "none"
            /\ row.text = answer[c].text
            /\ row.outcome = "generated" <=> answer[c].text # None
    BY <1>0, <1>9, OutcomeStored, Zenon
  <2>4. GrantIsSound(row) /\ (r.stage \in Holding => GrantFits(r.stage, row, r.text))
    BY <1>9, <2>3, Zenon DEF GrantIsSound, GrantFits
  <2> QED
    BY <1>0, <1>9, <2>1, <2>2, <2>3, <2>4, HeldMove, Zenon
<1>10. CASE RecordGenerated(c)
  <2> DEFINE r == [answer[c] EXCEPT !.stage = "final"]
  <2>1. /\ r \in AnswerRow /\ r.stage = "final" /\ r.grant = answer[c].grant
        /\ r.text = answer[c].text
    BY <1>0, Zenon DEF AnswerRow, AnswerStages
  <2>2. /\ answer[c].stage = "record" /\ InsertModelOutcome(c, answer[c].grant)
        /\ answer[c].text # None /\ answer' = [answer EXCEPT ![c] = r]
    BY <1>10, Zenon DEF RecordGenerated
  <2> HIDE DEF r
  <2> QED
    BY <1>9, <2>1, <2>2, Zenon
<1>11. CASE RecordUnusable(c)
  BY <1>0, <1>2, <1>9, <1>11, Zenon DEF RecordUnusable, GiveUp
<1>12. CASE RecordDelivery(c)
  BY <1>2, <1>12, Zenon DEF RecordDelivery
<1> QED
  BY <1>4, <1>5, <1>6, <1>7, <1>8, <1>10, <1>11, <1>12, Zenon DEF AnswerStep

\* Every step keeps grants and answers together.
LEMMA HeldStep ==
  ASSUME PlaneInv, AnswersCarry, GrantsAreHeld, [Next]_vars
  PROVE  GrantsAreHeld'
<1>0. /\ answer \in [Calls -> AnswerRow] /\ grant \in [Grants -> GrantRow]
      /\ NoAnswer.stage \notin Holding /\ "placeholder" \notin Holding
  BY Zenon DEF AnswersCarry, GrantsAreHeld, NoAnswer, Holding
<1>1. CASE UNCHANGED <<answer, grant>>
  BY <1>0, <1>1, HeldFrame, Zenon
<1>2. ASSUME NEW g \in Grants, ExpireGrant(g)
      PROVE  GrantsAreHeld'
  <2> DEFINE row == [grant[g] EXCEPT !.live = FALSE]
  <2>1. grant' = [grant EXCEPT ![g] = row] /\ UNCHANGED answer
    BY <1>0, <1>2, Zenon DEF ExpireGrant
  <2>2. /\ row \in GrantRow /\ row.state = grant[g].state /\ row.calls = grant[g].calls
        /\ row.outcome = grant[g].outcome /\ row.text = grant[g].text
    BY <1>0, GrantFields, Zenon
  <2> HIDE DEF row
  <2>3. grant' \in [Grants -> GrantRow] /\ \A h \in Grants : h # g => grant'[h] = grant[h]
    BY <1>0, <2>1, <2>2, Zenon
  <2>4. grant'[g] = row
    BY <1>0, <2>1, Zenon
  <2>5. \A h \in Grants : /\ grant'[h].state = grant[h].state
                          /\ grant'[h].calls = grant[h].calls
                          /\ grant'[h].outcome = grant[h].outcome
                          /\ grant'[h].text = grant[h].text
    BY <2>2, <2>3, <2>4, Zenon
  <2> QED
    BY <2>1, <2>3, <2>5, HeldFrame, Zenon
<1>3. ASSUME NEW c \in Calls, NEW e \in Events, StartAnswer(c, e)
      PROVE  GrantsAreHeld'
  <2>1. answer'[c].stage = "placeholder" /\ UNCHANGED grant
    BY <1>0, <1>3, Zenon DEF StartAnswer, AnswerRow
  <2>2. \A d \in Calls \ {c} : answer'[d] = answer[d]
    BY <1>0, <1>3, Zenon DEF StartAnswer
  <2> QED
    BY <1>0, <2>1, <2>2, HeldFrame, Zenon
<1>4. ASSUME NEW c \in Calls, AnswerStep(c)
      PROVE  GrantsAreHeld'
  BY <1>4, HeldAnswerStep, Zenon
<1>5. ASSUME NEW b \in Bots, Crash(b)
      PROVE  GrantsAreHeld'
  <2>1. \A d \in Calls : answer'[d] = answer[d] \/ answer'[d] = NoAnswer
    BY <1>5, Zenon DEF Crash
  <2>2. UNCHANGED grant
    BY <1>5, Zenon DEF Crash
  <2> QED
    BY <1>0, <2>1, <2>2, HeldFrame, Zenon
<1> QED
  BY <1>1, <1>2, <1>3, <1>4, <1>5, Zenon DEF Next, vars, botVars, AnswerAgain, memory

\* The outcome stored for a grant stays as it is.
LEMMA OutcomesStay ==
  ASSUME PlaneInv, AnswersCarry, GrantsAreHeld, [Next]_vars,
         NEW h \in Grants, grant[h].outcome # "none"
  PROVE  /\ grant'[h].outcome = grant[h].outcome
         /\ grant'[h].calls = grant[h].calls /\ grant'[h].text = grant[h].text
<1> DEFINE Kept == /\ grant'[h].outcome = grant[h].outcome
                   /\ grant'[h].calls = grant[h].calls /\ grant'[h].text = grant[h].text
<1>0. /\ grant \in [Grants -> GrantRow] /\ grant[h] \in GrantRow
      /\ GrantIsSound(grant[h])
  BY Zenon DEF GrantsAreHeld
<1>1. ASSUME UNCHANGED grant
      PROVE  Kept
  BY <1>1, Zenon
<1>2. ASSUME NEW g \in Grants, ExpireGrant(g)
      PROVE  Kept
  BY <1>0, <1>2, Zenon DEF ExpireGrant, GrantRow
<1>3. ASSUME NEW c \in Calls, AnswerStep(c)
      PROVE  Kept
  <2>1. CASE Resolve(c)
    <3>1. ASSUME NEW g \in Grants, \A i \in Grants : grant[i].state = "none" <=> i >= g,
                 grant' = [grant EXCEPT ![g].state = "issued", ![g].epoch = policyEpoch,
                                        ![g].live = TRUE]
          PROVE  Kept
      <4>1. g >= g
        BY SMT DEF Grants
      <4>2. grant[g].state = "none" /\ g # h
        BY <1>0, <3>1, <4>1, Zenon DEF GrantIsSound
      <4> QED
        BY <1>0, <3>1, <4>2, Zenon
    <3> QED
      BY <1>1, <2>1, <3>1, Zenon DEF Resolve
  <2>2. CASE RedeemGrant(c)
    <3>1. ASSUME NEW g, grant' = [grant EXCEPT ![g].state = "consumed"]
          PROVE  Kept
      BY <1>0, <3>1, Zenon DEF GrantRow
    <3> QED
      BY <1>1, <2>2, <3>1, Zenon DEF RedeemGrant
  <2>3. ASSUME NEW text \in Texts \cup {None}, InvokeGateway(c, text)
        PROVE  Kept
    <3>1. answer[c].stage = "invoke" /\ answer[c].stage \in Holding
      BY <2>3, Zenon DEF InvokeGateway, Holding
    <3>2. grant[answer[c].grant].outcome = "none"
      BY <3>1, OnlyHolder, Zenon DEF GrantFits
    <3> QED
      BY <1>0, <2>3, <3>2, Zenon DEF InvokeGateway
  <2>4. ASSUME InsertModelOutcome(c, answer[c].grant)
        PROVE  Kept
    BY <1>0, <2>4, Zenon DEF InsertModelOutcome
  <2> QED
    BY <1>1, <1>3, <2>1, <2>2, <2>3, <2>4, Zenon DEF AnswerStep, AfterPlaceholder, AfterFinal,
         AfterEffect, RecordGenerated, RecordUnusable, RecordDelivery
<1> HIDE DEF Kept
<1>4. Kept
  BY <1>1, <1>2, <1>3, Zenon DEF Next, vars, botVars, AnswerAgain, StartAnswer, Crash
<1> QED
  BY <1>4, Zenon DEF Kept

FinalOf(c) == <<c[2], FinalEffect[c[2]]>>

\* What a final ticket carries was generated under some grant.
FinalsAreGenerated ==
    \A t \in Turns :
       ticket[<<t, FinalEffect[t]>>].state # "none" =>
         \E g \in Grants :
            /\ grant[g].outcome = "generated"
            /\ grant[g].calls = 1
            /\ grant[g].text = ticket[<<t, FinalEffect[t]>>].payload

\* An answer about to be audited is the one its final ticket carries.
AwaitsAudit(c) ==
    answer[c].stage = "audit" =>
      /\ ticket[FinalOf(c)].state # "none"
      /\ ticket[FinalOf(c)].payload = answer[c].text

IsDelivered(c) ==
    successful[c] # None =>
      LET row == audit[successful[c]]
      IN  /\ row.final = FinalEffect[c[2]] /\ row.grant \in Grants
          /\ receipt[FinalOf(c)] = successful[c]
          /\ ticket[FinalOf(c)].state # "none"
          /\ grant[row.grant].outcome = "generated"
          /\ grant[row.grant].text = ticket[FinalOf(c)].payload

DeliveriesAreAudited ==
    /\ audit \in [Attempts -> [grant : Grants \cup {0}, final : Operations \cup {None}]]
    /\ successful \in [Calls -> Attempts \cup {None}]
    /\ \A c \in Calls : AwaitsAudit(c) /\ IsDelivered(c)

\* A new final ticket carries the text its answer has just had audited.
LEMMA GeneratedStep ==
  ASSUME PlaneInv, AnswersCarry, AnswersMatch, GrantsAreHeld, FinalsAreGenerated, [Next]_vars
  PROVE  FinalsAreGenerated'
<1>1. [PlaneNext]_planeVars
  BY StepsOfThePlane, Zenon
<1> SUFFICES ASSUME NEW t \in Turns, ticket'[<<t, FinalEffect[t]>>].state # "none"
             PROVE  \E g \in Grants :
                      /\ grant'[g].outcome = "generated" /\ grant'[g].calls = 1
                      /\ grant'[g].text = ticket'[<<t, FinalEffect[t]>>].payload
  BY Zenon DEF FinalsAreGenerated
<1>2. PICK k \in Effects : k = <<t, FinalEffect[t]>>
  BY TurnEffects, Zenon
<1>3. \E g \in Grants :
         /\ grant[g].outcome = "generated" /\ grant[g].calls = 1
         /\ grant[g].text = ticket'[k].payload
  <2>1. CASE ticket[k].state # "none"
    BY <1>1, <1>2, <2>1, RowsStay, Zenon DEF FinalsAreGenerated
  <2>2. CASE ticket[k].state = "none"
    <3>1. PICK c \in Calls : /\ call[c].stage # "none" /\ EffectOf(c) = k
                             /\ ticket'[k].payload = call[c].payload
      BY <1>1, <1>2, <2>2, NewTickets, Zenon
    <3>2. c[2] = t /\ call[c].operation = FinalEffect[c[2]]
      <4>1. PICK u, f, op : u = c[2] /\ f = FinalEffect[t] /\ op = call[c].operation
        OBVIOUS
      <4>2. <<u, op>> = <<t, f>>
        BY <1>2, <3>1, <4>1, Zenon DEF EffectOf
      <4>3. u = t /\ op = f
        BY <4>2, SMT
      <4> QED
        BY <4>1, <4>3, Zenon
    <3>3. FinalEffect[c[2]] # "create_placeholder"
      BY <3>2, BotDeliveryAssumption, Zenon
    <3>4. answer[c].stage = "final" /\ call[c].payload = answer[c].text
      BY <3>1, <3>2, <3>3, Zenon DEF AnswersMatch, AnswerMatches
    <3>5. answer[c].grant \in Grants
          /\ GrantFits("final", grant[answer[c].grant], answer[c].text)
      BY <3>4, OnlyHolder, Zenon DEF Holding
    <3> QED
      BY <3>1, <3>4, <3>5, Zenon DEF GrantFits
  <2> QED
    BY <2>1, <2>2, Zenon
<1>4. PICK g \in Grants : /\ grant[g].outcome = "generated" /\ grant[g].calls = 1
                          /\ grant[g].text = ticket'[k].payload
  BY <1>3, Zenon
<1>5. "generated" # "none"
  OBVIOUS
<1> QED
  BY <1>2, <1>4, <1>5, OutcomesStay, Zenon

\* An answer reaches its audit only with the receipt of its final effect.
LEMMA ReachesAudit ==
  ASSUME PlaneInv, AnswersCarry, [Next]_vars, NEW d \in Calls, answer'[d].stage = "audit"
  PROVE  \/ answer'[d] = answer[d]
         \/ /\ answer[d].stage = "final" /\ TakeOutcome(d) /\ HasReceipt(d)
            /\ answer'[d].text = answer[d].text
<1>0. /\ answer \in [Calls -> AnswerRow] /\ answer[d] \in AnswerRow
      /\ NoAnswer.stage # "audit"
  BY Zenon DEF AnswersCarry, NoAnswer
<1>1. ASSUME GiveUp(d)
      PROVE  FALSE
  BY <1>0, <1>1, Zenon DEF GiveUp
<1>2. ASSUME NEW stage, answer' = [answer EXCEPT ![d].stage = stage], stage # "audit"
      PROVE  FALSE
  BY <1>0, <1>2, Zenon DEF AnswerRow
<1>3. ASSUME NEW g, answer' = [answer EXCEPT ![d] = [@ EXCEPT !.stage = "redeem", !.grant = g]]
      PROVE  FALSE
  BY <1>0, <1>3, Zenon DEF AnswerRow
<1>4. ASSUME NEW text, answer' = [answer EXCEPT ![d] = [@ EXCEPT !.stage = "record", !.text = text]]
      PROVE  FALSE
  BY <1>0, <1>4, Zenon DEF AnswerRow
<1>5. "resolve" # "audit" /\ "invoke" # "audit" /\ "final" # "audit" /\ "placeholder" # "audit"
  OBVIOUS
<1>6. CASE AnswerStep(d)
  <2>1. CASE AfterFinal(d)
    <3>1. answer[d].stage = "final" /\ TakeOutcome(d)
      BY <2>1, Zenon DEF AfterFinal, AfterEffect
    <3>2. HasReceipt(d) /\ answer' = [answer EXCEPT ![d].stage = "audit"]
      BY <1>1, <2>1, Zenon DEF AfterFinal, AfterEffect, AfterEffectRefused
    <3>3. answer'[d].text = answer[d].text
      BY <1>0, <3>2, Zenon DEF AnswerRow
    <3> QED
      BY <3>1, <3>2, <3>3, Zenon
  <2>2. CASE AfterPlaceholder(d)
    BY <1>1, <1>2, <1>5, <2>2, Zenon DEF AfterPlaceholder, AfterEffect, AfterEffectRefused
  <2>3. CASE Resolve(d)
    BY <1>1, <1>3, <2>3, Zenon DEF Resolve
  <2>4. CASE RedeemGrant(d)
    BY <1>1, <1>2, <1>5, <2>4, Zenon DEF RedeemGrant
  <2>5. CASE \E text \in Texts \cup {None} : InvokeGateway(d, text)
    BY <1>4, <2>5, Zenon DEF InvokeGateway
  <2>6. CASE RecordGenerated(d)
    BY <1>2, <1>5, <2>6, Zenon DEF RecordGenerated
  <2> QED
    BY <1>1, <1>6, <2>1, <2>2, <2>3, <2>4, <2>5, <2>6, Zenon
       DEF AnswerStep, RecordUnusable, RecordDelivery
<1>7. ASSUME NEW c \in Calls, c # d, AnswerStep(c)
      PROVE  answer'[d] = answer[d]
  BY <1>7, AnswerStepShape, Zenon
<1>8. ASSUME NEW c \in Calls, NEW e \in Events, StartAnswer(c, e)
      PROVE  answer'[d] = answer[d]
  BY <1>0, <1>2, <1>5, <1>8, Zenon DEF StartAnswer
<1>9. ASSUME NEW b \in Bots, Crash(b)
      PROVE  answer'[d] = answer[d]
  BY <1>0, <1>9, Zenon DEF Crash
<1> QED
  BY <1>6, <1>7, <1>8, <1>9, Zenon DEF Next, vars, botVars, AnswerAgain, ExpireGrant

\* Audit rows are written once, and only for the answer they deliver.
LEMMA AuditsStay ==
  ASSUME PlaneInv, AnswersCarry, DeliveriesAreAudited, [Next]_vars
  PROVE  /\ audit' \in [Attempts -> [grant : Grants \cup {0}, final : Operations \cup {None}]]
         /\ successful' \in [Calls -> Attempts \cup {None}]
         /\ \A a \in Attempts : audit[a].final # None => audit'[a] = audit[a]
         /\ \A d \in Calls :
              \/ successful'[d] = None
              \/ successful'[d] = successful[d]
              \/ /\ RecordDelivery(d) /\ MayAudit(d)
                 /\ attemptRef[d] \in Attempts /\ successful'[d] = attemptRef[d]
                 /\ audit'[attemptRef[d]] = [grant |-> answer[d].grant, final |-> FinalEffect[d[2]]]
<1>0. /\ audit \in [Attempts -> [grant : Grants \cup {0}, final : Operations \cup {None}]]
      /\ successful \in [Calls -> Attempts \cup {None}]
  BY Zenon DEF DeliveriesAreAudited
<1>1. CASE UNCHANGED <<audit, successful>>
  BY <1>0, <1>1, Zenon
<1>2. ASSUME NEW b \in Bots, Crash(b)
      PROVE  /\ UNCHANGED audit /\ successful' \in [Calls -> Attempts \cup {None}]
             /\ \A d \in Calls : successful'[d] = None \/ successful'[d] = successful[d]
  BY <1>0, <1>2, Zenon DEF Crash
<1>3. ASSUME NEW c \in Calls, RecordDelivery(c), ~ UNCHANGED <<audit, successful>>
      PROVE  /\ MayAudit(c) /\ attemptRef[c] \in Attempts
             /\ audit' = [audit EXCEPT ![attemptRef[c]] = [grant |-> answer[c].grant,
                                                          final |-> FinalEffect[c[2]]]]
             /\ \/ successful' = [successful EXCEPT ![c] = attemptRef[c]]
                \/ UNCHANGED successful
             /\ [grant |-> answer[c].grant, final |-> FinalEffect[c[2]]]
                   \in [grant : Grants \cup {0}, final : Operations \cup {None}]
  <2>1. answer[c].stage = "audit" /\ answer[c] \in AnswerRow
    BY <1>3, Zenon DEF RecordDelivery, AnswersCarry
  <2>2. attemptRef[c] \in Attempts /\ answer[c].grant \in Grants \cup {0}
    BY <2>1, Zenon DEF AnswersCarry, AnswerRow
  <2>3. FinalEffect[c[2]] \in Operations
    <3>1. c[2] \in Turns
      BY Zenon DEF Calls
    <3> QED
      BY <3>1, BotDeliveryAssumption, Zenon
  <2> QED
    BY <1>3, <2>2, <2>3, Zenon DEF RecordDelivery
<1>4. ASSUME NEW c \in Calls, RecordDelivery(c), ~ UNCHANGED <<audit, successful>>
      PROVE  /\ audit' \in [Attempts -> [grant : Grants \cup {0}, final : Operations \cup {None}]]
             /\ successful' \in [Calls -> Attempts \cup {None}]
             /\ \A a \in Attempts : audit[a].final # None => audit'[a] = audit[a]
             /\ \A d \in Calls \ {c} : successful'[d] = successful[d]
             /\ \/ successful'[c] = successful[c]
                \/ /\ successful'[c] = attemptRef[c] /\ attemptRef[c] \in Attempts
                   /\ audit'[attemptRef[c]] = [grant |-> answer[c].grant,
                                               final |-> FinalEffect[c[2]]]
  <2>1. audit[attemptRef[c]].final = None
    BY <1>3, <1>4, Zenon DEF MayAudit
  <2>2. PICK a \in Attempts, row \in [grant : Grants \cup {0}, final : Operations \cup {None}] :
           a = attemptRef[c] /\ row = [grant |-> answer[c].grant, final |-> FinalEffect[c[2]]]
    BY <1>3, <1>4, Zenon
  <2>3. /\ audit' = [audit EXCEPT ![a] = row] /\ audit[a].final = None
        /\ successful' = [successful EXCEPT ![c] = a] \/ successful' = successful
    BY <1>3, <1>4, <2>1, <2>2, Zenon
  <2>4. /\ audit' \in [Attempts -> [grant : Grants \cup {0}, final : Operations \cup {None}]]
        /\ \A b \in Attempts : audit[b].final # None => audit'[b] = audit[b]
        /\ audit'[a] = row
    BY <1>0, <2>3, Zenon
  <2>5. /\ successful' \in [Calls -> Attempts \cup {None}]
        /\ \A d \in Calls \ {c} : successful'[d] = successful[d]
        /\ successful'[c] = successful[c] \/ successful'[c] = a
    BY <1>0, <2>3, Zenon
  <2> QED
    BY <2>2, <2>4, <2>5, Zenon
<1>5. ASSUME NEW c \in Calls, AnswerStep(c), ~ RecordDelivery(c)
      PROVE  UNCHANGED <<audit, successful>>
  BY <1>5, Zenon DEF AnswerStep, AfterPlaceholder, AfterFinal, AfterEffect, Resolve, RedeemGrant,
       InvokeGateway, RecordGenerated, RecordUnusable, memory
<1>6. \/ UNCHANGED <<audit, successful>>
      \/ \E b \in Bots : Crash(b)
      \/ \E c \in Calls : RecordDelivery(c)
  BY <1>5, Zenon DEF Next, vars, botVars, AnswerAgain, StartAnswer, ExpireGrant, memory
<1>7. ASSUME NEW c \in Calls, RecordDelivery(c), ~ UNCHANGED <<audit, successful>>
      PROVE  \A d \in Calls :
              \/ successful'[d] = None
              \/ successful'[d] = successful[d]
              \/ /\ RecordDelivery(d) /\ MayAudit(d)
                 /\ attemptRef[d] \in Attempts /\ successful'[d] = attemptRef[d]
                 /\ audit'[attemptRef[d]] = [grant |-> answer[d].grant, final |-> FinalEffect[d[2]]]
  BY <1>3, <1>4, <1>7, Zenon
<1> QED
  BY <1>0, <1>1, <1>2, <1>4, <1>6, <1>7, Zenon

\* What was delivered stays what was audited, and the next delivery is too.
LEMMA AuditedStep ==
  ASSUME PlaneInv, CallsHoldOwnTickets, AnswersCarry, AnswersMatch, GrantsAreHeld,
         DeliveriesAreAudited, [Next]_vars
  PROVE  DeliveriesAreAudited'
<1>1. [PlaneNext]_planeVars
  BY StepsOfThePlane, Zenon
<1>2. \A c \in Calls : FinalOf(c) \in Effects /\ c[2] \in Turns
  BY TurnEffects, Zenon DEF FinalOf, Calls
<1>3. ASSUME NEW d \in Calls
      PROVE  AwaitsAudit(d)'
  <2> SUFFICES ASSUME answer'[d].stage = "audit"
               PROVE  /\ ticket'[FinalOf(d)].state # "none"
                      /\ ticket'[FinalOf(d)].payload = answer'[d].text
    BY Zenon DEF AwaitsAudit, FinalOf
  <2>0. PICK k \in Effects : k = FinalOf(d)
    BY <1>2, Zenon
  <2>1. CASE answer'[d] = answer[d]
    <3>1. ticket[k].state # "none" /\ ticket[k].payload = answer[d].text
      BY <2>0, <2>1, Zenon DEF DeliveriesAreAudited, AwaitsAudit
    <3> QED
      BY <1>1, <2>0, <2>1, <3>1, RowsStay, Zenon
  <2>2. CASE /\ answer[d].stage = "final" /\ TakeOutcome(d) /\ HasReceipt(d)
             /\ answer'[d].text = answer[d].text
    <3>1. /\ call[d].operation = FinalEffect[d[2]] /\ call[d].payload = answer[d].text
      BY <2>2, Zenon DEF AnswersMatch, AnswerMatches
    <3>2. call[d].stage = "returned" /\ UNCHANGED ticket
      BY <2>2, Zenon DEF TakeOutcome, store
    <3>3. EffectOf(d) = k
      BY <2>0, <3>1, Zenon DEF EffectOf, FinalOf
    <3>4. ticket[k].state # "none" /\ ticket[k].payload = call[d].payload
      BY <2>2, <3>2, <3>3, Zenon DEF CallsHoldOwnTickets, OwnTicket, HasReceipt
    <3> QED
      BY <2>0, <2>2, <3>1, <3>2, <3>4, Zenon
  <2> QED
    BY <2>1, <2>2, ReachesAudit, Zenon
<1>4. ASSUME NEW d \in Calls, successful'[d] # None, successful'[d] = successful[d]
      PROVE  IsDelivered(d)'
  <2>1. PICK k \in Effects, a \in Attempts : k = FinalOf(d) /\ a = successful[d]
    BY <1>2, <1>4, Zenon DEF DeliveriesAreAudited
  <2>2. /\ audit[a].final = FinalEffect[d[2]] /\ audit[a].grant \in Grants
        /\ receipt[k] = a /\ ticket[k].state # "none"
        /\ grant[audit[a].grant].outcome = "generated"
        /\ grant[audit[a].grant].text = ticket[k].payload
    BY <1>4, <2>1, Zenon DEF DeliveriesAreAudited, IsDelivered
  <2>3. a # None /\ FinalEffect[d[2]] # None
    BY <1>2, BotDeliveryAssumption, ActionPlaneAssumption, Zenon
  <2>4. audit'[a] = audit[a]
    BY <2>2, <2>3, AuditsStay, Zenon
  <2>5. receipt'[k] = a /\ ticket'[k].state # "none" /\ ticket'[k].payload = ticket[k].payload
    BY <1>1, <2>2, <2>3, RowsStay, Zenon
  <2>6. PICK g \in Grants : g = audit[a].grant
    BY <2>2, Zenon
  <2>7. grant'[g].outcome = "generated" /\ grant'[g].text = grant[g].text
    BY <2>2, <2>6, OutcomesStay, Zenon
  <2> QED
    BY <1>4, <2>1, <2>2, <2>4, <2>5, <2>6, <2>7, Zenon DEF IsDelivered, FinalOf
<1>5. ASSUME NEW d \in Calls, RecordDelivery(d), MayAudit(d), attemptRef[d] \in Attempts,
             successful'[d] = attemptRef[d],
             audit'[attemptRef[d]] = [grant |-> answer[d].grant, final |-> FinalEffect[d[2]]]
      PROVE  IsDelivered(d)'
  <2>1. /\ answer[d].stage = "audit" /\ answer[d].stage \in Holding
        /\ UNCHANGED <<receipt, ticket, grant>>
    BY <1>5, Zenon DEF RecordDelivery, Holding, planeVars, store
  <2>2. /\ answer[d].grant \in Grants
        /\ GrantFits("audit", grant[answer[d].grant], answer[d].text)
    BY <2>1, OnlyHolder, Zenon
  <2>3. grant[answer[d].grant].outcome = "generated" /\ grant[answer[d].grant].text = answer[d].text
    BY <2>2, Zenon DEF GrantFits
  <2>4. ticket[FinalOf(d)].state # "none" /\ ticket[FinalOf(d)].payload = answer[d].text
    BY <2>1, Zenon DEF DeliveriesAreAudited, AwaitsAudit
  <2>5. receipt[FinalOf(d)] = attemptRef[d]
    BY <1>5, Zenon DEF MayAudit, FinalOf
  <2> QED
    <3>1. PICK a \in Attempts, g \in Grants : a = attemptRef[d] /\ g = answer[d].grant
      BY <1>5, <2>2, Zenon
    <3>2. PICK f, row : f = FinalEffect[d[2]] /\ row = audit'[a]
      OBVIOUS
    <3>3. row.grant = g /\ row.final = f
      <4>1. row = [grant |-> g, final |-> f]
        BY <1>5, <3>1, <3>2, Zenon
      <4> QED
        BY <4>1, SMT
    <3>4. /\ audit'[a].grant = g /\ audit'[a].final = f /\ successful'[d] = a
          /\ receipt'[FinalOf(d)] = a /\ ticket'[FinalOf(d)].state # "none"
          /\ grant'[g].outcome = "generated" /\ grant'[g].text = ticket'[FinalOf(d)].payload
      BY <1>5, <2>1, <2>3, <2>4, <2>5, <3>1, <3>2, <3>3, Zenon
    <3> QED
      BY <3>2, <3>4, Zenon DEF IsDelivered, FinalOf
<1>6. ASSUME NEW d \in Calls
      PROVE  IsDelivered(d)'
  <2>1. CASE successful'[d] = None
    BY <2>1, Zenon DEF IsDelivered
  <2> QED
    BY <1>4, <1>5, <2>1, AuditsStay, Zenon
<1> QED
  BY <1>3, <1>6, AuditsStay, Zenon DEF DeliveriesAreAudited

\* What a final effect sends was generated by the one call of a consumed grant
\* and audited before; a turn reported delivered has its audit row, its
\* receipt, and the row names the grant the sent answer came from
\* (private-delivery.ts, index.ts).  Every grant is held by one answer at most,
\* stored outcomes, tickets, receipts and audit rows are never rewritten.
THEOREM AnswersAreTraceable == Spec => []DeliveredAnswersAreTraceable
<1> DEFINE Inv == /\ AnswersCarry /\ AnswersMatch /\ GrantsAreHeld
                  /\ FinalsAreGenerated /\ DeliveriesAreAudited
<1>1. Init => Inv
  <2>1. ASSUME Init PROVE AnswersMatch
    BY <2>1, Zenon DEF Init, PlaneInit, AnswersMatch, AnswerMatches, Answered, NoAnswer, NoCall
  <2>2. ASSUME Init PROVE FinalsAreGenerated
    BY <2>2, TurnEffects, Zenon DEF Init, PlaneInit, FinalsAreGenerated, NoTicket
  <2>3. ASSUME Init PROVE GrantsAreHeld
    <3>1. NoGrant \in GrantRow /\ GrantIsSound(NoGrant)
      BY SMT DEF NoGrant, GrantRow, GrantIsSound
    <3>2. NoAnswer.stage \notin Holding
      BY Zenon DEF NoAnswer, Holding
    <3> QED
      BY <2>3, <3>1, <3>2, Zenon DEF Init, GrantsAreHeld, HoldsOwn
  <2>4. ASSUME Init PROVE DeliveriesAreAudited
    <3>1. NoAnswer.stage # "audit"
      BY Zenon DEF NoAnswer
    <3> QED
      BY <2>4, <3>1, Zenon DEF Init, DeliveriesAreAudited, AwaitsAudit, IsDelivered
  <2> QED
    BY <2>1, <2>2, <2>3, <2>4, CarryInit, Zenon
<1>2. PlaneInv /\ CallsHoldOwnTickets /\ Inv /\ [Next]_vars => Inv'
  BY CarryStep, MatchStep, HeldStep, GeneratedStep, AuditedStep, Zenon
<1>3. Inv => DeliveredAnswersAreTraceable
  BY Zenon DEF FinalsAreGenerated, DeliveriesAreAudited, IsDelivered, FinalOf,
       DeliveredAnswersAreTraceable
<1>4. Spec => []PlaneInv /\ []CallsHoldOwnTickets
  BY ImplementsThePlane, PlaneInvariant, OwnTickets, PTL DEF UsesThePlane
<1> HIDE DEF Inv
<1> QED
  BY <1>1, <1>2, <1>3, <1>4, PTL DEF Spec
=============================================================================
