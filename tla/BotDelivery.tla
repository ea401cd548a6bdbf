------------------------------ MODULE BotDelivery ------------------------------
(***************************************************************************)
(* One private answer: BotDelivery over the ActionPlane, the resolve SDK,  *)
(* the model boundary and the delivery audit.                              *)
(*                                                                         *)
(* A verified turn is answered by a placeholder effect, one resolve, one   *)
(* model generation under one egress grant, a final effect and an audit    *)
(* row.  What the process remembers of a turn (its delivery attempt, its   *)
(* successful receipt, its terminal reconciliation, the event identities   *)
(* it has seen) is lost with the process; everything else is in the        *)
(* database.                                                               *)
(***************************************************************************)
EXTENDS ActionPlane

CONSTANTS
    FinalEffect,   \* the turn's bound final operation
    Texts,         \* generated answers, told apart by their digest
    Working,       \* the placeholder payload
    Events,        \* provider event identities
    GrantBound,    \* number of egress grants explored
    CrashBound     \* number of process losses explored

Grants == 1..GrantBound

ASSUME BotDeliveryAssumption ==
    /\ "create_placeholder" \in Operations
    /\ None \notin Operations
    /\ FinalEffect \in [Turns -> Operations \ {"create_placeholder"}]
    /\ Payloads = Texts \cup {Working}
    /\ Attempts = 1..Cardinality(Attempts)
    /\ GrantBound \in Nat
    /\ CrashBound \in Nat

VARIABLES
    answer,       \* where each in-flight answer stands
    attemptRef,   \* BotDelivery.#attemptRefs
    successful,   \* BotDelivery.#successfulReceipts: the audited attempt
    terminal,     \* BotDelivery.#terminalReconciliations: the attempt
    seen,         \* seenEventIds of each process
    minted,       \* delivery attempt references handed out so far
    grant,        \* egress_grant with its model_egress_audit row
    audit,        \* private_delivery_audit, by delivery attempt
    crashes

memory == <<attemptRef, successful, terminal, seen>>
botVars == <<answer, attemptRef, successful, terminal, seen, minted, grant,
             audit, crashes>>
vars == <<planeVars, botVars>>

NoAnswer == [stage |-> "idle", grant |-> 0, text |-> None]
NoGrant == [state |-> "none", epoch |-> 0, live |-> FALSE, calls |-> 0,
            outcome |-> "none", text |-> None]

Init ==
    /\ PlaneInit
    /\ answer = [c \in Calls |-> NoAnswer]
    /\ attemptRef = [c \in Calls |-> None]
    /\ successful = [c \in Calls |-> None]
    /\ terminal = [c \in Calls |-> None]
    /\ seen = [b \in Bots |-> {}]
    /\ minted = 0
    /\ grant = [g \in Grants |-> NoGrant]
    /\ audit = [a \in Attempts |-> [grant |-> 0, final |-> None]]
    /\ crashes = 0

-----------------------------------------------------------------------------
(* Starting an answer                                                      *)

\* A fresh event for a turn that is answered, settled or being answered
\* returns what there is.
AnswerAgain(c, e) ==
    /\ e \notin seen[c[1]]
    /\ seen' = [seen EXCEPT ![c[1]] = @ \cup {e}]
    /\ \/ answer[c].stage # "idle"
       \/ successful[c] # None
       \/ terminal[c] # None
    /\ UNCHANGED <<planeVars, answer, attemptRef, successful, terminal,
                   minted, grant, audit, crashes>>

\* The stable attempt of the turn in this process, or a fresh one.
AttemptFor(c) == IF attemptRef[c] # None THEN attemptRef[c] ELSE minted + 1

StartAnswer(c, e) ==
    /\ e \notin seen[c[1]]
    /\ seen' = [seen EXCEPT ![c[1]] = @ \cup {e}]
    /\ answer[c].stage = "idle"
    /\ successful[c] = None
    /\ terminal[c] = None
    /\ AttemptFor(c) \in Attempts
    /\ attemptRef' = [attemptRef EXCEPT ![c] = AttemptFor(c)]
    /\ minted' = IF attemptRef[c] = None THEN minted + 1 ELSE minted
    /\ PreparePrivateDeliveryEffect(c, "create_placeholder", Working, AttemptFor(c))
    /\ answer' = [answer EXCEPT ![c].stage = "placeholder"]
    /\ UNCHANGED <<successful, terminal, grant, audit, crashes>>

-----------------------------------------------------------------------------
(* The stages of an answer                                                 *)

\* delivery_not_available: the turn may be asked again.
GiveUp(c) == answer' = [answer EXCEPT ![c] = NoAnswer]

HasReceipt(c) == call[c].outcome \in {"applied", "already_applied"}

\* Without a receipt, only an open provider attempt is terminal for the turn.
AfterEffectRefused(c) ==
    /\ ~HasReceipt(c)
    /\ terminal' = IF call[c].outcome = "reconciliation_required"
                   THEN [terminal EXCEPT ![c] = attemptRef[c]] ELSE terminal
    /\ GiveUp(c)

\* Mutant: the perform is not awaited.
MutantAfterEffect(c, stage, next) ==
    /\ answer[c].stage = stage
    /\ call' = [call EXCEPT ![c] = NoCall]
    /\ UNCHANGED <<authority, store, lock, effects>>
    /\ \/ answer' = [answer EXCEPT ![c].stage = next] /\ UNCHANGED terminal
       \/ AfterEffectRefused(c)
    /\ UNCHANGED <<attemptRef, successful, seen, minted, grant, audit, crashes>>

AfterEffect(c, stage, next) ==
    /\ answer[c].stage = stage
    /\ TakeOutcome(c)
    /\ \/ /\ HasReceipt(c)
          /\ answer' = [answer EXCEPT ![c].stage = next]
          /\ UNCHANGED terminal
       \/ AfterEffectRefused(c)
    /\ UNCHANGED <<attemptRef, successful, seen, minted, grant, audit, crashes>>

AfterPlaceholder(c) == AfterEffect(c, "placeholder", "resolve")

\* One private resolve: the evidence is redeemed and a model grant issued for
\* the Package.  Any other answer, or none, ends the turn for now.
Resolve(c) ==
    /\ answer[c].stage = "resolve"
    /\ \/ \E g \in Grants :
            /\ EvidenceCurrent(c[2])
            /\ \A h \in Grants : grant[h].state = "none" <=> h >= g
            /\ grant' = [grant EXCEPT ![g].state = "issued",
                                      ![g].epoch = policyEpoch, ![g].live = TRUE]
            /\ answer' = [answer EXCEPT ![c] = [@ EXCEPT !.stage = "redeem", !.grant = g]]
       \/ GiveUp(c) /\ UNCHANGED grant
    /\ UNCHANGED <<planeVars, memory, minted, audit, crashes>>

ExpireGrant(g) ==
    /\ grant[g].live
    /\ grant' = [grant EXCEPT ![g].live = FALSE]
    /\ UNCHANGED <<planeVars, answer, memory, minted, audit, crashes>>

\* The grant is consumed before a byte goes to the model.
RedeemGrant(c) ==
    LET g == answer[c].grant
    IN  /\ answer[c].stage = "redeem"
        /\ \/ /\ grant[g].state = "issued"
              /\ grant[g].live
              /\ grant[g].epoch = policyEpoch
              /\ grant' = [grant EXCEPT ![g].state = "consumed"]
              /\ answer' = [answer EXCEPT ![c].stage = "invoke"] \/ GiveUp(c)
           \/ GiveUp(c) /\ UNCHANGED grant
        /\ UNCHANGED <<planeVars, memory, minted, audit, crashes>>

\* The gateway answers; None is an unusable or missing answer.
InvokeGateway(c, text) ==
    /\ answer[c].stage = "invoke"
    /\ grant' = [grant EXCEPT ![answer[c].grant].calls = @ + 1]
    /\ answer' = [answer EXCEPT ![c] = [@ EXCEPT !.stage = "record", !.text = text]]
    /\ UNCHANGED <<planeVars, memory, minted, audit, crashes>>

\* context_egress_record_model_outcome: one row for each consumed grant.
InsertModelOutcome(c, g) ==
    /\ grant[g].state = "consumed"
    /\ grant[g].outcome = "none"
    /\ grant' = [grant EXCEPT
                   ![g].outcome = IF answer[c].text = None
                                  THEN "output_rejected" ELSE "generated",
                   ![g].text = answer[c].text]

\* Mutant: the answer goes out whether or not its audit row was stored.
MutantRecordGenerated(c) ==
    LET g == answer[c].grant
    IN  /\ answer[c].stage = "record"
        /\ answer[c].text # None
        /\ InsertModelOutcome(c, g) \/ UNCHANGED grant
        /\ PreparePrivateDeliveryEffect(c, FinalEffect[c[2]], answer[c].text,
                                        attemptRef[c])
        /\ answer' = [answer EXCEPT ![c].stage = "final"]
        /\ UNCHANGED <<memory, minted, audit, crashes>>

\* Only an audited answer goes on to the final effect.
RecordGenerated(c) ==
    LET g == answer[c].grant
    IN  /\ answer[c].stage = "record"
        /\ answer[c].text # None
        /\ InsertModelOutcome(c, g)
        /\ PreparePrivateDeliveryEffect(c, FinalEffect[c[2]], answer[c].text,
                                        attemptRef[c])
        /\ answer' = [answer EXCEPT ![c].stage = "final"]
        /\ UNCHANGED <<memory, minted, audit, crashes>>

RecordUnusable(c) ==
    /\ answer[c].stage = "record"
    /\ InsertModelOutcome(c, answer[c].grant) \/ UNCHANGED grant
    /\ GiveUp(c)
    /\ UNCHANGED <<planeVars, memory, minted, audit, crashes>>

AfterFinal(c) == AfterEffect(c, "final", "audit")

\* context_action_record_private_delivery_outcome: both receipts belong to the
\* attempt, and the attempt has no other audit row.
MayAudit(c) ==
    LET a == attemptRef[c]
        t == c[2]
    IN  /\ attempt[a] # None
        /\ receipt[<<t, "create_placeholder">>] = a
        /\ receipt[<<t, FinalEffect[t]>>] = a
        /\ audit[a].final = None

\* The answer is delivered once its audit row is known to be stored; without
\* that the turn is left for reconciliation.
RecordDelivery(c) ==
    LET a == attemptRef[c]
        row == [grant |-> answer[c].grant, final |-> FinalEffect[c[2]]]
    IN  /\ answer[c].stage = "audit"
        /\ \/ /\ MayAudit(c)
              /\ audit' = [audit EXCEPT ![a] = row]
              /\ \/ /\ successful' = [successful EXCEPT ![c] = a]
                    /\ UNCHANGED terminal
                 \/ /\ terminal' = [terminal EXCEPT ![c] = a]
                    /\ UNCHANGED successful
           \/ /\ terminal' = [terminal EXCEPT ![c] = a]
              /\ UNCHANGED <<audit, successful>>
        /\ GiveUp(c)
        /\ UNCHANGED <<planeVars, attemptRef, seen, minted, grant, crashes>>

-----------------------------------------------------------------------------
\* The process is lost with everything it remembers.
Crash(b) ==
    /\ crashes < CrashBound
    /\ crashes' = crashes + 1
    /\ CrashPlane(b)
    /\ answer' = [c \in Calls |-> IF c[1] = b THEN NoAnswer ELSE answer[c]]
    /\ attemptRef' = [c \in Calls |-> IF c[1] = b THEN None ELSE attemptRef[c]]
    /\ successful' = [c \in Calls |-> IF c[1] = b THEN None ELSE successful[c]]
    /\ terminal' = [c \in Calls |-> IF c[1] = b THEN None ELSE terminal[c]]
    /\ seen' = [seen EXCEPT ![b] = {}]
    /\ UNCHANGED <<minted, grant, audit>>

AnswerStep(c) ==
    \/ AfterPlaceholder(c)
    \/ Resolve(c)
    \/ RedeemGrant(c)
    \/ \E text \in Texts \cup {None} : InvokeGateway(c, text)
    \/ RecordGenerated(c)
    \/ RecordUnusable(c)
    \/ AfterFinal(c)
    \/ RecordDelivery(c)

Next ==
    \/ AuthorityStep /\ UNCHANGED botVars
    \/ \E g \in Grants : ExpireGrant(g)
    \/ \E c \in Calls, e \in Events : AnswerAgain(c, e) \/ StartAnswer(c, e)
    \/ \E c \in Calls :
          \/ AnswerStep(c)
          \/ CallStep(c) /\ UNCHANGED botVars
          \/ LoseSession(c) /\ UNCHANGED botVars
    \/ \E b \in Bots : Crash(b)
    \/ \E b \in Bots, k \in Effects : Reconcile(b, k) /\ UNCHANGED botVars

Spec == Init /\ [][Next]_vars

-----------------------------------------------------------------------------
(* Properties                                                              *)

\* A final effect is only ever prepared by the delivery attempt whose own
\* placeholder was applied: neither a restarted process nor a second one
\* finishes somebody else's placeholder.
FinalFollowsPlaceholder ==
    \A t \in Turns :
       ticket[<<t, FinalEffect[t]>>].state # "none" =>
         /\ receipt[<<t, "create_placeholder">>] = ticket[<<t, FinalEffect[t]>>].attempt
         /\ effects[<<t, "create_placeholder">>] = 1

\* What is sent to the asker is what a model said under a grant consumed by
\* one call and audited as generated; a turn reported delivered has its audit
\* row, and the row's Package is the one the sent answer was generated from.
DeliveredAnswersAreTraceable ==
    /\ \A t \in Turns :
         ticket[<<t, FinalEffect[t]>>].state # "none" =>
           \E g \in Grants :
              /\ grant[g].outcome = "generated"
              /\ grant[g].calls = 1
              /\ grant[g].text = ticket[<<t, FinalEffect[t]>>].payload
    /\ \A c \in Calls :
         successful[c] # None =>
           LET row == audit[successful[c]]
               final == <<c[2], FinalEffect[c[2]]>>
           IN  /\ row.final = final[2]
               /\ receipt[final] = successful[c]
               /\ grant[row.grant].text = ticket[final].payload

\* BotDelivery uses the ActionPlane only through its operations: it neither
\* drops a perform half way nor touches an effect by itself, so all that holds
\* of the ActionPlane under any caller holds of the answers.
UsesThePlane == PlaneSpec
=============================================================================
