------------------------ MODULE DeliveryLedgerProofs ------------------------
(***************************************************************************)
(* Proofs about the rows a request leaves, for every set of requests, hosts,*)
(* evidence references, operators and instants: the ledger holds all rows of*)
(* a request or none, and runs and reads are backed by live rows.          *)
(***************************************************************************)
EXTENDS DeliveryLedger, FiniteSetTheorems, TLAPS

-----------------------------------------------------------------------------
(* The ledger is a record of six tables                                    *)

Tables(l, evidence, run, audit, locator, grant, ticket) ==
    l \in [evidence : {evidence}, run : {run}, audit : {audit},
           locator : {locator}, grant : {grant}, ticket : {ticket}]

LedgerShape ==
    Tables(ledger, ledger.evidence, ledger.run, ledger.audit,
           ledger.locator, ledger.grant, ledger.ticket)

\* What the tables of a ledger are.
LEMMA TableValues ==
  ASSUME NEW l, NEW evidence, NEW run, NEW audit, NEW locator, NEW grant, NEW ticket,
         Tables(l, evidence, run, audit, locator, grant, ticket)
  PROVE  /\ l.evidence = evidence /\ l.run = run /\ l.audit = audit
         /\ l.locator = locator /\ l.grant = grant /\ l.ticket = ticket
BY SMT DEF Tables

\* Writing one table leaves the others.
LEMMA TableWritten ==
  ASSUME NEW l, NEW evidence, NEW run, NEW audit, NEW locator, NEW grant, NEW ticket,
         Tables(l, evidence, run, audit, locator, grant, ticket), NEW table
  PROVE  /\ Tables([l EXCEPT !.evidence = table], table, run, audit, locator, grant, ticket)
         /\ Tables([l EXCEPT !.locator = table], evidence, run, audit, table, grant, ticket)
         /\ Tables([l EXCEPT !.grant = table], evidence, run, audit, locator, table, ticket)
         /\ Tables([l EXCEPT !.ticket = table], evidence, run, audit, locator, grant, table)
BY Zenon DEF Tables

\* A commit writes five tables.
LEMMA TablesCommitted ==
  ASSUME NEW l, NEW evidence, NEW run, NEW audit, NEW locator, NEW grant, NEW ticket,
         Tables(l, evidence, run, audit, locator, grant, ticket),
         NEW a, NEW b, NEW c, NEW d, NEW e
  PROVE  Tables([l EXCEPT !.evidence = a, !.run = b, !.audit = c, !.locator = d, !.grant = e],
                a, b, c, d, e, ticket)
BY Zenon DEF Tables

-----------------------------------------------------------------------------
(* Requests                                                                *)

Flags == {"no", "yes"}
Request ==
    [stage : Stages, kind : Kinds, rid : RequestIds, evidence : EvidenceRefs \cup {NotSet},
     opens : Decisions \cup {NotSet}, received : Int, epoch : 1 .. LedgerEpochs,
     asOf : Int, revision : 0 .. 2, redeemed : Flags, cited : Flags, granted : Flags,
     answer : Answers \cup {"none"}]

\* A request asks the same throughout.
SameQuestion(n, r) ==
    /\ n.kind = r.kind /\ n.rid = r.rid /\ n.evidence = r.evidence
    /\ n.received = r.received /\ n.answer = r.answer

\* The updates of a request row, field by field.
LEMMA RowAnswered ==
  ASSUME NEW answer \in Answers, Idle \in Request
  PROVE  /\ Answered(answer) \in Request /\ Answered(answer).stage = "answered"
         /\ Answered(answer).answer = answer /\ Answered(answer).redeemed = "no"
         /\ Answered(answer).cited = "no"
BY ZenonT(60) DEF Answered, Request, Idle, Stages

LEMMA RowMoved ==
  ASSUME NEW r \in Request, NEW s \in Stages
  PROVE  LET n == [r EXCEPT !.stage = s]
         IN  /\ n \in Request /\ n.stage = s /\ SameQuestion(n, r) /\ n.epoch = r.epoch
             /\ n.asOf = r.asOf /\ n.revision = r.revision /\ n.redeemed = r.redeemed
             /\ n.cited = r.cited
BY ZenonT(60) DEF Request, SameQuestion

LEMMA RowActing ==
  ASSUME NEW r \in Request, NEW epoch \in 1 .. LedgerEpochs
  PROVE  LET n == [r EXCEPT !.stage = "acting", !.epoch = epoch]
         IN  /\ n \in Request /\ n.stage = "acting" /\ SameQuestion(n, r)
             /\ n.redeemed = r.redeemed /\ n.cited = r.cited
BY ZenonT(60) DEF Request, SameQuestion, Stages

LEMMA RowRedeemed ==
  ASSUME NEW r \in Request
  PROVE  LET n == [r EXCEPT !.stage = "trusted", !.redeemed = "yes"]
         IN  /\ n \in Request /\ n.stage = "trusted" /\ SameQuestion(n, r)
             /\ n.epoch = r.epoch /\ n.redeemed = "yes" /\ n.cited = r.cited
BY ZenonT(60) DEF Request, SameQuestion, Stages, Flags

LEMMA RowFinalized ==
  ASSUME NEW r \in Request, NEW content \in 0 .. 2
  PROVE  LET n == [r EXCEPT !.stage = "finalized", !.revision = content]
         IN  /\ n \in Request /\ n.stage = "finalized" /\ SameQuestion(n, r)
             /\ n.epoch = r.epoch /\ n.asOf = r.asOf /\ n.redeemed = r.redeemed
             /\ n.cited = r.cited
BY ZenonT(60) DEF Request, SameQuestion, Stages

LEMMA RowCited ==
  ASSUME NEW r \in Request
  PROVE  LET n == [r EXCEPT !.stage = "cited", !.cited = "yes"]
         IN  /\ n \in Request /\ n.stage = "cited" /\ SameQuestion(n, r)
             /\ n.epoch = r.epoch /\ n.asOf = r.asOf /\ n.revision = r.revision
             /\ n.redeemed = r.redeemed /\ n.cited = "yes"
BY ZenonT(60) DEF Request, SameQuestion, Stages, Flags

LEMMA RowGranted ==
  ASSUME NEW r \in Request
  PROVE  LET n == [r EXCEPT !.stage = "granted", !.granted = "yes"]
         IN  /\ n \in Request /\ n.stage = "granted" /\ SameQuestion(n, r)
             /\ n.epoch = r.epoch /\ n.asOf = r.asOf /\ n.revision = r.revision
             /\ n.redeemed = r.redeemed /\ n.cited = r.cited
BY ZenonT(60) DEF Request, SameQuestion, Stages, Flags

Trusted == {"trusted", "decided", "finalized", "cited", "granted", "recorded"}
Decided == {"decided", "finalized", "cited", "granted", "recorded"}

\* What a request has established at each stage.
Sound(r) ==
    /\ r \in Request
    /\ r.stage # "answered" => r.answer = "none"
    /\ r.stage \notin {"idle", "answered"} => r.received \in Times
    /\ r.redeemed = "yes" => r.stage \in Trusted
    /\ r.stage \in Trusted /\ r.evidence # NotSet => r.redeemed = "yes"
    /\ r.stage \in Decided => r.asOf \in Times /\ r.kind # "continue"
    /\ r.cited = "yes" =>
         r.stage \in {"cited", "granted", "recorded"} /\ r.revision # NoRevision
    /\ r.stage = "recorded" => r.received <= r.asOf

WorldTypeOK ==
    world \in [now : 0 .. LedgerClock, epoch : 1 .. LedgerEpochs,
               member : {"active", "ended"}, revision : 1 .. 2]

\* The evidence a request has redeemed is stored, and is its own.
Backed(r) ==
    /\ r.evidence \in DOMAIN ledger.evidence
    /\ LET row == ledger.evidence[r.evidence]
       IN  /\ row.rid = r.rid /\ row.kind = r.kind /\ row.epoch = r.epoch
           /\ InWindow(row, r.received)

RequestsAreSound ==
    /\ WorldTypeOK
    /\ resolve \in [Decisions -> Request]
    /\ \A d \in Decisions : Sound(resolve[d])
    /\ \A d \in Decisions : resolve[d].redeemed = "yes" => Backed(resolve[d])

\* The stages are told apart.
LEMMA StagesApart ==
    /\ Stages = {"idle", "received", "acting"} \cup Trusted \cup {"answered"}
    /\ Trusted = {"trusted"} \cup Decided
BY Zenon DEF Stages, Trusted, Decided

\* A request that has not been received asks nothing.
LEMMA IdleIsSound == Idle \in Request /\ Sound(Idle) /\ Idle.redeemed = "no"
<1>1. (CHOOSE i \in RequestIds : TRUE) \in RequestIds
  BY LedgerAssumption, Zenon
<1>2. 1 \in 1 .. LedgerEpochs
  BY LedgerAssumption, SMT
<1>3. 0 \in Int /\ 0 \in 0 .. 2
  BY SMT
<1>4. Idle \in Request
  BY <1>1, <1>2, <1>3, ZenonT(60) DEF Idle, Request, Stages, Kinds, Flags, NoRevision
<1>5. /\ Idle.stage = "idle" /\ Idle.answer = "none" /\ Idle.redeemed = "no" /\ Idle.cited = "no"
  BY Zenon DEF Idle
<1> QED
  BY <1>4, <1>5, Zenon DEF Sound, Trusted, Decided

\* A host's clock reads one of the modelled times.
LEMMA ClocksRead ==
  ASSUME WorldTypeOK
  PROVE  HostClock \subseteq Times /\ Times \subseteq Int
<1>1. world.now \in 0 .. LedgerClock
  BY Zenon DEF WorldTypeOK
<1>2. HostClock \subseteq Times
  BY <1>1, SMT DEF HostClock, Times
<1>3. ASSUME NEW t \in 0 .. LedgerClock, NEW skew \in HostSkew
      PROVE  t + skew \in Int
  <2>1. skew \in Int
    BY LedgerAssumption, Zenon
  <2> QED
    BY <2>1, SMT
<1> QED
  BY <1>2, <1>3, SMT DEF Times

\* An answered request is sound whatever it was.
LEMMA AnsweredIsSound ==
  ASSUME NEW answer \in Answers
  PROVE  /\ Sound(Answered(answer)) /\ Answered(answer).redeemed = "no"
         /\ Answered(answer).answer = answer /\ Answered(answer).stage = "answered"
<1>1. /\ Answered(answer) \in Request /\ Answered(answer).stage = "answered"
      /\ Answered(answer).answer = answer /\ Answered(answer).redeemed = "no"
      /\ Answered(answer).cited = "no"
  BY IdleIsSound, RowAnswered, Zenon
<1> QED
  BY <1>1, Zenon DEF Sound, Trusted, Decided

\* Every closed answer is an answer, and none of them is a Package.
LEMMA ClosedAnswers ==
  /\ \A error, kind : ClosedAnswer(error, kind) \in Answers \ {"resolved"}
  /\ \A kind, evidence, c : Admission(kind, evidence, c) \in (Answers \ {"resolved"}) \cup {"admitted"}
<1>1. \A kind : NotAuthenticated(kind) \in Answers \ {"resolved"}
  BY Zenon DEF NotAuthenticated, Answers, Refusals
<1>2. {"400", "401", "403", "422", "429", "500", "503", "lost"} \subseteq Answers \ {"resolved"}
  BY Zenon DEF Answers, Refusals
<1>3. ASSUME NEW error, NEW kind
      PROVE  ClosedAnswer(error, kind) \in Answers \ {"resolved"}
  BY <1>1, <1>2, Zenon DEF ClosedAnswer
<1>4. ASSUME NEW kind, NEW evidence, NEW c
      PROVE  Admission(kind, evidence, c) \in (Answers \ {"resolved"}) \cup {"admitted"}
  BY <1>1, <1>2, Zenon DEF Admission, TransportAnswer, CredentialAnswer, RouteAnswer, IdentityAnswer
<1> QED
  BY <1>3, <1>4, Zenon

\* A step of a request that is not its commit changes only its own row.
Moves(d) ==
    /\ UNCHANGED <<world, ledger, reader>>
    /\ resolve[d].stage # "answered"
    /\ \E n \in Request : /\ resolve' = [resolve EXCEPT ![d] = n]
                          /\ Sound(n) /\ n.answer # "resolved"
                          /\ n.redeemed = "yes" => Backed(n)

\* A request that returns or is rolled back.
LEMMA ReturnMoves ==
  ASSUME NEW d \in Decisions, resolve[d].stage # "answered",
         NEW answer \in Answers \ {"resolved"}, Return(d, answer)
  PROVE  Moves(d)
<1>1. answer \in Answers /\ answer # "resolved"
  OBVIOUS
<1>2. PICK n : n = Answered(answer)
  OBVIOUS
<1>3. /\ n \in Request /\ Sound(n) /\ n.redeemed = "no" /\ n.answer # "resolved"
  BY <1>1, <1>2, AnsweredIsSound, Zenon DEF Sound
<1> QED
  BY <1>2, <1>3, Zenon DEF Return, Moves

LEMMA RollbackMoves ==
  ASSUME NEW d \in Decisions, resolve[d].stage # "answered", NEW error, Rollback(d, error)
  PROVE  Moves(d)
<1>1. PICK answer \in Answers \ {"resolved"} : answer = ClosedAnswer(error, resolve[d].kind)
  BY ClosedAnswers, Zenon
<1> QED
  BY <1>1, ReturnMoves, Zenon DEF Rollback

\* A request that goes on with its question.
LEMMA GoesOn ==
  ASSUME RequestsAreSound, NEW d \in Decisions, NEW n \in Request, Step(d, n),
         SameQuestion(n, resolve[d]), resolve[d].stage # "answered",
         n.epoch = resolve[d].epoch, n.redeemed = resolve[d].redeemed, Sound(n)
  PROVE  Moves(d)
<1>1. Sound(resolve[d]) /\ (resolve[d].redeemed = "yes" => Backed(resolve[d]))
  BY Zenon DEF RequestsAreSound
<1>2. n.redeemed = "yes" => Backed(n)
  BY <1>1, Zenon DEF Backed, SameQuestion
<1>3. n.answer # "resolved"
  BY <1>1, Zenon DEF Sound, SameQuestion
<1> QED
  BY <1>2, <1>3, Zenon DEF Step, Moves

\* The admission of a request.
LEMMA ReceiveMoves ==
  ASSUME RequestsAreSound, NEW d \in Decisions, Receive(d)
  PROVE  Moves(d)
<1>1. resolve[d].stage # "answered"
  BY Zenon DEF Receive
<1>2. PICK kind \in Kinds, rid \in RequestIds, e \in EvidenceRefs \cup {NotSet},
           c \in Carriers, t \in HostClock :
        LET answer == Admission(kind, e, c) IN
         IF answer = "admitted"
         THEN \E o \in (IF kind = "open" THEN Decisions ELSE {NotSet}) :
                Step(d, [Idle EXCEPT !.stage = "received", !.kind = kind, !.rid = rid,
                                     !.evidence = e, !.opens = o, !.received = t])
         ELSE Return(d, answer)
  BY Zenon DEF Receive
<1>3. CASE Admission(kind, e, c) = "admitted"
  <2>1. PICK o \in Decisions \cup {NotSet} :
           Step(d, [Idle EXCEPT !.stage = "received", !.kind = kind, !.rid = rid,
                                !.evidence = e, !.opens = o, !.received = t])
    BY <1>2, <1>3, Zenon
  <2>2. PICK n : n = [Idle EXCEPT !.stage = "received", !.kind = kind, !.rid = rid,
                                  !.evidence = e, !.opens = o, !.received = t]
    OBVIOUS
  <2>3. t \in Times /\ t \in Int
    BY <1>2, ClocksRead, Zenon DEF RequestsAreSound
  <2>4. /\ n \in Request /\ n.stage = "received" /\ n.received = t
        /\ n.redeemed = "no" /\ n.cited = "no" /\ n.answer = "none"
    <3>1. /\ kind \in Kinds /\ rid \in RequestIds /\ e \in EvidenceRefs \cup {NotSet}
          /\ o \in Decisions \cup {NotSet} /\ Idle \in Request
      BY <1>2, <2>1, IdleIsSound, Zenon
    <3> QED
      BY <2>2, <2>3, <3>1, ZenonT(60) DEF Request, Idle, Stages
  <2>5. Sound(n)
    BY <2>3, <2>4, Zenon DEF Sound, Trusted, Decided
  <2> QED
    BY <1>1, <2>1, <2>2, <2>4, <2>5, Zenon DEF Step, Moves
<1>4. CASE Admission(kind, e, c) # "admitted"
  <2>1. PICK answer \in Answers \ {"resolved"} : answer = Admission(kind, e, c)
    BY <1>4, ClosedAnswers, Zenon
  <2> QED
    BY <1>1, <1>2, <1>4, <2>1, ReturnMoves, Zenon
<1> QED
  BY <1>3, <1>4, Zenon

LEMMA BeginMoves ==
  ASSUME RequestsAreSound, NEW d \in Decisions, BeginActor(d)
  PROVE  Moves(d)
<1>1. /\ resolve[d].stage = "received" /\ resolve[d].stage # "answered"
      /\ resolve[d] \in Request /\ Sound(resolve[d])
  BY Zenon DEF BeginActor, RequestsAreSound
<1>2. PICK epoch \in 1 .. LedgerEpochs : epoch = world.epoch
  BY Zenon DEF RequestsAreSound, WorldTypeOK
<1>3. CASE Step(d, [resolve[d] EXCEPT !.stage = "acting", !.epoch = world.epoch])
  <2>1. PICK n : n = [resolve[d] EXCEPT !.stage = "acting", !.epoch = epoch]
    OBVIOUS
  <2>2. /\ n \in Request /\ n.stage = "acting" /\ SameQuestion(n, resolve[d])
        /\ n.redeemed = resolve[d].redeemed /\ n.cited = resolve[d].cited
    BY <1>1, <2>1, RowActing, Zenon
  <2>3. Sound(n) /\ n.redeemed # "yes" /\ n.answer # "resolved"
    BY <1>1, <2>2, Zenon DEF Sound, SameQuestion, Trusted, Decided
  <2> QED
    BY <1>1, <1>2, <1>3, <2>1, <2>2, <2>3, Zenon DEF Step, Moves
<1> QED
  BY <1>1, <1>3, RollbackMoves, Zenon DEF BeginActor

LEMMA EstablishMoves ==
  ASSUME RequestsAreSound, NEW d \in Decisions, EstablishDelivery(d)
  PROVE  Moves(d)
<1>1. /\ resolve[d].stage = "acting" /\ resolve[d].stage # "answered"
      /\ resolve[d] \in Request /\ Sound(resolve[d])
  BY Zenon DEF EstablishDelivery, RequestsAreSound
<1>2. CASE resolve[d].evidence = NotSet
  <2>1. PICK n : n = [resolve[d] EXCEPT !.stage = "trusted"]
    OBVIOUS
  <2>2. "trusted" \in Stages
    BY Zenon DEF Stages
  <2>3. /\ n \in Request /\ n.stage = "trusted" /\ SameQuestion(n, resolve[d])
        /\ n.epoch = resolve[d].epoch
        /\ n.redeemed = resolve[d].redeemed /\ n.cited = resolve[d].cited
    BY <1>1, <2>1, <2>2, RowMoved, Zenon
  <2>4. Sound(n)
    BY <1>1, <1>2, <2>3, Zenon DEF Sound, SameQuestion, Trusted, Decided
  <2> QED
    BY <1>1, <1>2, <2>1, <2>3, <2>4, GoesOn, Zenon DEF EstablishDelivery
<1>3. CASE resolve[d].evidence # NotSet /\ Redeemable(d)
  <2>1. PICK n : n = [resolve[d] EXCEPT !.stage = "trusted", !.redeemed = "yes"]
    OBVIOUS
  <2>2. /\ n \in Request /\ n.stage = "trusted" /\ SameQuestion(n, resolve[d])
        /\ n.epoch = resolve[d].epoch /\ n.redeemed = "yes" /\ n.cited = resolve[d].cited
    BY <1>1, <2>1, RowRedeemed, Zenon
  <2>3. Sound(n) /\ n.answer # "resolved"
    BY <1>1, <2>2, Zenon DEF Sound, SameQuestion, Trusted, Decided
  <2>4. Backed(resolve[d])
    BY <1>3, Zenon DEF Redeemable, Presented, Backed
  <2>5. Backed(n)
    BY <2>2, <2>4, Zenon DEF Backed, SameQuestion
  <2> QED
    BY <1>1, <1>3, <2>1, <2>2, <2>3, <2>5, Zenon DEF EstablishDelivery, Step, Moves
<1> QED
  BY <1>1, <1>2, <1>3, RollbackMoves, Zenon DEF EstablishDelivery

LEMMA RefuseMoves ==
  ASSUME RequestsAreSound, NEW d \in Decisions, RefuseCapability(d)
  PROVE  Moves(d)
<1>1. resolve[d].stage # "answered"
  BY Zenon DEF RefuseCapability
<1>2. "request_not_available" \in Answers \ {"resolved"}
  BY Zenon DEF Answers, Refusals
<1> QED
  BY <1>1, <1>2, ReturnMoves, RollbackMoves, Zenon DEF RefuseCapability

LEMMA DecideMoves ==
  ASSUME RequestsAreSound, NEW d \in Decisions, Decide(d)
  PROVE  Moves(d)
<1>1. /\ resolve[d].stage = "trusted" /\ resolve[d].stage # "answered"
      /\ resolve[d].kind # "continue" /\ resolve[d] \in Request /\ Sound(resolve[d])
  BY Zenon DEF Decide, RequestsAreSound
<1>2. world.revision \in 0 .. 2 /\ NoRevision \in 0 .. 2
  <2>1. world.revision \in 1 .. 2
    BY Zenon DEF RequestsAreSound, WorldTypeOK
  <2> QED
    BY <2>1, SMT DEF NoRevision
<1>3. ASSUME NEW t \in HostClock, NEW content \in 0 .. 2,
             Step(d, [resolve[d] EXCEPT !.stage = "decided", !.asOf = t, !.revision = content])
      PROVE  Moves(d)
  <2>1. t \in Times /\ t \in Int
    BY ClocksRead, Zenon DEF RequestsAreSound
  <2>2. PICK n : n = [resolve[d] EXCEPT !.stage = "decided", !.asOf = t, !.revision = content]
    OBVIOUS
  <2>3. /\ n \in Request /\ n.stage = "decided" /\ SameQuestion(n, resolve[d])
        /\ n.epoch = resolve[d].epoch /\ n.asOf = t /\ n.redeemed = resolve[d].redeemed
        /\ n.cited = resolve[d].cited
    BY <1>1, <2>1, <2>2, ZenonT(60) DEF Request, SameQuestion, Stages
  <2>4. Sound(n)
    BY <1>1, <2>1, <2>3, Zenon DEF Sound, SameQuestion, Trusted, Decided
  <2> QED
    BY <1>1, <1>3, <2>2, <2>3, <2>4, GoesOn, Zenon
<1>5. CASE ActiveMember /\ \E t \in HostClock :
         \E content \in {NoRevision} \cup
              (IF resolve[d].kind = "acquire" \/ Opens(d, t) THEN {world.revision} ELSE {}) :
           Step(d, [resolve[d] EXCEPT !.stage = "decided", !.asOf = t,
                                      !.revision = content])
  BY <1>2, <1>3, <1>5, Zenon
<1> QED
  BY <1>1, <1>5, RollbackMoves, Zenon DEF Decide

LEMMA FinalizeMoves ==
  ASSUME RequestsAreSound, NEW d \in Decisions, FinalizeDecision(d)
  PROVE  Moves(d)
<1>1. /\ resolve[d].stage = "decided" /\ resolve[d].stage # "answered"
      /\ resolve[d] \in Request /\ Sound(resolve[d])
  BY Zenon DEF FinalizeDecision, RequestsAreSound
<1>2. resolve[d].revision \in 0 .. 2 /\ NoRevision \in 0 .. 2
  <2>1. resolve[d].revision \in 0 .. 2
    BY <1>1, Zenon DEF Request
  <2> QED
    BY <2>1, SMT DEF NoRevision
<1>3. PICK content \in 0 .. 2 :
        content = IF world.epoch = resolve[d].epoch THEN resolve[d].revision ELSE NoRevision
  BY <1>2, Zenon
<1>4. CASE ActiveMember
  <2>1. PICK n : n = [resolve[d] EXCEPT !.stage = "finalized", !.revision = content]
    OBVIOUS
  <2>2. Step(d, n)
    BY <1>3, <1>4, <2>1, Zenon DEF FinalizeDecision
  <2>3. /\ n \in Request /\ n.stage = "finalized" /\ SameQuestion(n, resolve[d])
        /\ n.epoch = resolve[d].epoch /\ n.asOf = resolve[d].asOf
        /\ n.redeemed = resolve[d].redeemed /\ n.cited = resolve[d].cited
    BY <1>1, <1>3, <2>1, RowFinalized, Zenon
  <2>4. Sound(n)
    BY <1>1, <2>3, Zenon DEF Sound, SameQuestion, Trusted, Decided
  <2> QED
    BY <1>1, <2>2, <2>3, <2>4, GoesOn, Zenon
<1> QED
  BY <1>1, <1>4, RollbackMoves, Zenon DEF FinalizeDecision

\* A request that moves on with everything it has established.
LEMMA StageMoves ==
  ASSUME RequestsAreSound, NEW d \in Decisions, NEW s \in {"cited", "granted", "recorded"},
         resolve[d].stage \in {"finalized", "cited", "granted"},
         s = "recorded" => resolve[d].received <= resolve[d].asOf,
         Step(d, [resolve[d] EXCEPT !.stage = s])
  PROVE  Moves(d)
<1>1. /\ resolve[d].stage # "answered" /\ resolve[d] \in Request /\ Sound(resolve[d])
  BY Zenon DEF RequestsAreSound
<1>2. PICK n : n = [resolve[d] EXCEPT !.stage = s]
  OBVIOUS
<1>3. s \in Stages
  BY Zenon DEF Stages
<1>4. /\ n \in Request /\ n.stage = s /\ SameQuestion(n, resolve[d])
      /\ n.epoch = resolve[d].epoch /\ n.asOf = resolve[d].asOf
      /\ n.revision = resolve[d].revision
      /\ n.redeemed = resolve[d].redeemed /\ n.cited = resolve[d].cited
  BY <1>1, <1>2, <1>3, RowMoved, Zenon
<1>5. Sound(n)
  BY <1>1, <1>4, Zenon DEF Sound, SameQuestion, Trusted, Decided
<1> QED
  BY <1>1, <1>2, <1>4, <1>5, GoesOn, Zenon

LEMMA CiteMoves ==
  ASSUME RequestsAreSound, NEW d \in Decisions, IssueCitations(d)
  PROVE  Moves(d)
<1>1. /\ resolve[d].stage = "finalized" /\ resolve[d].stage # "answered"
      /\ resolve[d] \in Request /\ Sound(resolve[d])
  BY Zenon DEF IssueCitations, RequestsAreSound
<1>2. CASE resolve[d].revision = NoRevision
  <2>1. "cited" # "recorded"
    OBVIOUS
  <2> QED
    BY <1>1, <1>2, <2>1, StageMoves, Zenon DEF IssueCitations
<1>3. CASE resolve[d].revision # NoRevision /\ CitationAccepted(d)
  <2>1. PICK n : n = [resolve[d] EXCEPT !.stage = "cited", !.cited = "yes"]
    OBVIOUS
  <2>2. /\ n \in Request /\ n.stage = "cited" /\ SameQuestion(n, resolve[d])
        /\ n.epoch = resolve[d].epoch /\ n.asOf = resolve[d].asOf
        /\ n.revision = resolve[d].revision
        /\ n.redeemed = resolve[d].redeemed /\ n.cited = "yes"
    BY <1>1, <2>1, RowCited, Zenon
  <2>3. Sound(n)
    BY <1>1, <1>3, <2>2, Zenon DEF Sound, SameQuestion, Trusted, Decided
  <2> QED
    BY <1>1, <1>3, <2>1, <2>2, <2>3, GoesOn, Zenon DEF IssueCitations
<1> QED
  BY <1>1, <1>2, <1>3, RollbackMoves, Zenon DEF IssueCitations

LEMMA EgressMoves ==
  ASSUME RequestsAreSound, NEW d \in Decisions, FinalizeLedgerEgress(d)
  PROVE  Moves(d)
<1>1. /\ resolve[d].stage = "cited" /\ resolve[d].stage # "answered"
      /\ resolve[d] \in Request /\ Sound(resolve[d])
  BY Zenon DEF FinalizeLedgerEgress, RequestsAreSound
<1>2. CASE Step(d, [resolve[d] EXCEPT !.stage = "granted"])
  <2>1. "granted" # "recorded"
    OBVIOUS
  <2> QED
    BY <1>1, <1>2, <2>1, StageMoves, Zenon
<1>3. CASE Step(d, [resolve[d] EXCEPT !.stage = "granted", !.granted = "yes"])
  <2>1. PICK n : n = [resolve[d] EXCEPT !.stage = "granted", !.granted = "yes"]
    OBVIOUS
  <2>2. /\ n \in Request /\ n.stage = "granted" /\ SameQuestion(n, resolve[d])
        /\ n.epoch = resolve[d].epoch /\ n.asOf = resolve[d].asOf
        /\ n.revision = resolve[d].revision
        /\ n.redeemed = resolve[d].redeemed /\ n.cited = resolve[d].cited
    BY <1>1, <2>1, RowGranted, Zenon
  <2>3. Sound(n)
    BY <1>1, <2>2, Zenon DEF Sound, SameQuestion, Trusted, Decided
  <2> QED
    BY <1>1, <1>3, <2>1, <2>2, <2>3, GoesOn, Zenon
<1> QED
  BY <1>1, <1>2, <1>3, RollbackMoves, Zenon DEF FinalizeLedgerEgress

LEMMA PersistMoves ==
  ASSUME RequestsAreSound, NEW d \in Decisions, PersistRun(d)
  PROVE  Moves(d)
<1>1. /\ resolve[d].stage = "granted" /\ resolve[d].stage # "answered"
      /\ resolve[d] \in Request
  BY Zenon DEF PersistRun, RequestsAreSound
<1>2. resolve[d].asOf \in Int /\ resolve[d].received \in Int
  BY <1>1, Zenon DEF Request
<1>3. ~(resolve[d].asOf < resolve[d].received) => resolve[d].received <= resolve[d].asOf
  BY <1>2, SMT
<1> QED
  BY <1>1, <1>3, StageMoves, RollbackMoves, Zenon DEF PersistRun

\* Every step of a request but its commit.
LEMMA RequestMoves ==
  ASSUME RequestsAreSound, NEW d \in Decisions, ResolveStep(d), ~Commit(d)
  PROVE  Moves(d)
<1>1. CASE FailResolve(d)
  <2>1. resolve[d].stage # "answered"
    BY <1>1, Zenon DEF FailResolve, InTransaction
  <2> QED
    BY <1>1, <2>1, RollbackMoves, Zenon DEF FailResolve
<1> QED
  BY <1>1, ReceiveMoves, BeginMoves, EstablishMoves, RefuseMoves, DecideMoves, FinalizeMoves,
     CiteMoves, EgressMoves, PersistMoves, Zenon DEF ResolveStep

-----------------------------------------------------------------------------
(* Rows                                                                    *)

\* The evidence rows: a first redemption lies inside the row's window.
EvidenceIsSound ==
    /\ DOMAIN ledger.evidence \subseteq EvidenceRefs
    /\ \A e \in DOMAIN ledger.evidence :
         /\ ledger.evidence[e] \in Evidence
         /\ ledger.evidence[e].first # Unredeemed =>
              InWindow(ledger.evidence[e], ledger.evidence[e].first[1])

ConsumedOnce(trail) ==
    \A i, j \in DOMAIN trail : trail[i] = "consumed" /\ trail[j] = "consumed" => i = j

\* The rows of one decision belong together.
RowsBelong(d) ==
    /\ d \in DOMAIN ledger.audit <=> d \in DOMAIN ledger.run /\ ledger.run[d].outcome = "empty"
    /\ d \in DOMAIN ledger.audit => /\ ledger.audit[d] \in DecisionAudit
                                    /\ IsEmptyParent(ledger.run[d], ledger.audit[d])
    /\ d \in DOMAIN ledger.locator =>
         /\ d \in DOMAIN ledger.run /\ ledger.locator[d] \in Locator
         /\ ledger.run[d].revision = ledger.locator[d].revision
    /\ d \in DOMAIN ledger.grant =>
         /\ d \in DOMAIN ledger.run /\ ledger.grant[d] \in Grant
         /\ ledger.grant[d].epoch = ledger.run[d].epoch
         /\ ConsumedOnce(ledger.grant[d].trail)
    /\ d \in DOMAIN ledger.run => ledger.run[d] \in ContextRunRecord

\* A request is answered as its rows say.
AnswerAgrees(d) ==
    /\ resolve[d].stage # "answered" => d \notin DOMAIN ledger.run
    /\ resolve[d].answer = "resolved" => d \in DOMAIN ledger.run
    /\ resolve[d].answer \in NothingStored => d \notin DOMAIN ledger.run

RowsAreSound ==
    /\ LedgerShape
    /\ EvidenceIsSound
    /\ DOMAIN ledger.run \cup DOMAIN ledger.audit \cup DOMAIN ledger.locator
         \cup DOMAIN ledger.grant \subseteq Decisions
    /\ \A d \in Decisions : RowsBelong(d) /\ AnswerAgrees(d)

\* The rows a request is about to commit are rows of their tables.
LEMMA CommittedRows ==
  ASSUME RequestsAreSound, NEW d \in Decisions, resolve[d].stage = "recorded"
  PROVE  /\ RunOf(d) \in ContextRunRecord
         /\ RunOf(d).outcome = "empty" <=> resolve[d].revision = NoRevision
         /\ RunOf(d).revision = resolve[d].revision /\ RunOf(d).epoch = resolve[d].epoch
         /\ RunOf(d).evidence = resolve[d].evidence /\ RunOf(d).rid = resolve[d].rid
         /\ RunOf(d).kind = resolve[d].kind
         /\ AuditOf(d) \in DecisionAudit
         /\ resolve[d].revision = NoRevision => IsEmptyParent(RunOf(d), AuditOf(d))
         /\ resolve[d].cited = "yes" => LocatorOf(d) \in Locator
         /\ LocatorOf(d).revision = resolve[d].revision
         /\ GrantOf(d) \in Grant /\ GrantOf(d).epoch = resolve[d].epoch
         /\ ConsumedOnce(GrantOf(d).trail)
<1>1. /\ resolve[d] \in Request /\ Sound(resolve[d])
  BY Zenon DEF RequestsAreSound
<1>2. /\ resolve[d].received \in Times /\ resolve[d].asOf \in Times
      /\ resolve[d].kind \in {"acquire", "open"}
      /\ resolve[d].received <= resolve[d].asOf
      /\ resolve[d].cited = "yes" => resolve[d].revision # NoRevision
  BY <1>1, Zenon DEF Sound, Decided, Request, Kinds
<1>3. /\ resolve[d].rid \in RequestIds /\ resolve[d].evidence \in EvidenceRefs \cup {NotSet}
      /\ resolve[d].epoch \in 1 .. LedgerEpochs /\ resolve[d].revision \in 0 .. 2
      /\ resolve[d].asOf \in Int
  BY <1>1, Zenon DEF Request
<1>4. PackageTtl \in Nat \ {0}
  BY LedgerAssumption, Zenon
<1>5. /\ ExpiresAt(d) \in Int /\ resolve[d].asOf < ExpiresAt(d) /\ resolve[d].revision \in Nat
  BY <1>3, <1>4, SMT DEF ExpiresAt
<1>6. /\ RunOf(d).rid = resolve[d].rid /\ RunOf(d).kind = resolve[d].kind
      /\ RunOf(d).evidence = resolve[d].evidence /\ RunOf(d).epoch = resolve[d].epoch
      /\ RunOf(d).accepted = resolve[d].received /\ RunOf(d).finalized = resolve[d].asOf
      /\ RunOf(d).expires = ExpiresAt(d) /\ RunOf(d).revision = resolve[d].revision
      /\ RunOf(d).outcome = IF resolve[d].revision = NoRevision THEN "empty" ELSE "authorized"
  BY Zenon DEF RunOf
<1>7. RunOf(d) \in RunRow
  BY <1>2, <1>3, <1>5, ZenonT(60) DEF RunOf, RunRow
<1>8. RunOf(d).outcome = "empty" <=> resolve[d].revision = NoRevision
  BY <1>6, Zenon
<1>9. RunOf(d) \in ContextRunRecord
  BY <1>2, <1>5, <1>6, <1>7, <1>8, Zenon DEF ContextRunRecord
<1>10. /\ AuditOf(d) \in DecisionAudit /\ AuditOf(d).epoch = resolve[d].epoch
       /\ AuditOf(d).recorded = resolve[d].asOf
  BY <1>2, <1>3, Zenon DEF AuditOf, DecisionAudit
<1>11. resolve[d].revision = NoRevision => IsEmptyParent(RunOf(d), AuditOf(d))
  BY <1>6, <1>8, <1>10, Zenon DEF IsEmptyParent
<1>12. LocatorOf(d).revision = resolve[d].revision
       /\ (resolve[d].cited = "yes" => LocatorOf(d) \in Locator)
  BY <1>2, <1>5, Zenon DEF LocatorOf, Locator
<1>13. <<"issued">> \in Seq({"issued", "consumed", "not_available"}) /\ ConsumedOnce(<<"issued">>)
  BY SMT DEF ConsumedOnce
<1>14. /\ GrantOf(d) \in Grant /\ GrantOf(d).epoch = resolve[d].epoch
       /\ GrantOf(d).trail = <<"issued">>
  BY <1>2, <1>3, <1>5, <1>13, Zenon DEF GrantOf, Grant
<1> QED
  BY <1>6, <1>8, <1>9, <1>10, <1>11, <1>12, <1>13, <1>14, Zenon

\* The tables after a commit.
LEMMA CommitTables ==
  ASSUME RowsAreSound, NEW d \in Decisions, Commit(d)
  PROVE  /\ LedgerShape'
         /\ ledger'.evidence =
              IF resolve[d].redeemed = "no" \/ ledger.evidence[resolve[d].evidence].first # Unredeemed
              THEN ledger.evidence
              ELSE Insert(ledger.evidence, resolve[d].evidence,
                          [ledger.evidence[resolve[d].evidence] EXCEPT
                             !.first = <<resolve[d].received>>])
         /\ ledger'.run = Insert(ledger.run, d, RunOf(d))
         /\ ledger'.audit = IF resolve[d].revision # NoRevision THEN ledger.audit
                            ELSE Insert(ledger.audit, d, AuditOf(d))
         /\ ledger'.locator = IF resolve[d].cited = "no" THEN ledger.locator
                              ELSE Insert(ledger.locator, d, LocatorOf(d))
         /\ ledger'.grant = IF resolve[d].granted = "no" THEN ledger.grant
                            ELSE Insert(ledger.grant, d, GrantOf(d))
         /\ ledger'.ticket = ledger.ticket
<1> DEFINE A == IF resolve[d].redeemed = "no" \/ ledger.evidence[resolve[d].evidence].first # Unredeemed
                THEN ledger.evidence
                ELSE Insert(ledger.evidence, resolve[d].evidence,
                            [ledger.evidence[resolve[d].evidence] EXCEPT
                               !.first = <<resolve[d].received>>])
           B == Insert(ledger.run, d, RunOf(d))
           C == IF resolve[d].revision # NoRevision THEN ledger.audit
                ELSE Insert(ledger.audit, d, AuditOf(d))
           L == IF resolve[d].cited = "no" THEN ledger.locator
                ELSE Insert(ledger.locator, d, LocatorOf(d))
           G == IF resolve[d].granted = "no" THEN ledger.grant
                ELSE Insert(ledger.grant, d, GrantOf(d))
<1>1. Tables(ledger, ledger.evidence, ledger.run, ledger.audit,
             ledger.locator, ledger.grant, ledger.ticket)
  BY Zenon DEF RowsAreSound, LedgerShape
<1>2. ledger' = [ledger EXCEPT !.evidence = A, !.run = B, !.audit = C, !.locator = L, !.grant = G]
  BY Zenon DEF Commit, Recorded
<1> HIDE DEF A, B, C, L, G
<1>3. Tables([ledger EXCEPT !.evidence = A, !.run = B, !.audit = C, !.locator = L, !.grant = G],
             A, B, C, L, G, ledger.ticket)
  BY <1>1, TablesCommitted, Zenon
<1>4. Tables(ledger', A, B, C, L, G, ledger.ticket)
  BY <1>2, <1>3, Zenon
<1>5. /\ ledger'.evidence = A /\ ledger'.run = B /\ ledger'.audit = C
      /\ ledger'.locator = L /\ ledger'.grant = G /\ ledger'.ticket = ledger.ticket
  BY <1>4, TableValues, Zenon
<1>6. LedgerShape'
  BY <1>4, <1>5, Zenon DEF LedgerShape
<1> QED
  BY <1>5, <1>6, Zenon DEF A, B, C, L, G

\* The first redemption of an evidence row changes nothing else in it.
LEMMA FirstRedemption ==
  ASSUME NEW row \in Evidence, NEW t \in Times
  PROVE  LET n == [row EXCEPT !.first = <<t>>]
         IN  /\ n \in Evidence /\ n.first = <<t>> /\ n.rid = row.rid /\ n.kind = row.kind
             /\ n.epoch = row.epoch /\ n.issued = row.issued /\ n.expires = row.expires
BY ZenonT(60) DEF Evidence

\* An evidence row that is stored stays what it is but for its redemption.
EvidenceStays(e) ==
    /\ e \in DOMAIN ledger'.evidence
    /\ LET row == ledger.evidence[e]
           new == ledger'.evidence[e]
       IN  /\ new.rid = row.rid /\ new.kind = row.kind /\ new.epoch = row.epoch
           /\ new.issued = row.issued /\ new.expires = row.expires
           /\ row.first # Unredeemed => new.first = row.first

\* The evidence a commit leaves.
LEMMA CommitEvidence ==
  ASSUME RequestsAreSound, RowsAreSound, NEW d \in Decisions, Commit(d)
  PROVE  /\ \A e \in DOMAIN ledger.evidence : EvidenceStays(e)
         /\ EvidenceIsSound'
         /\ resolve[d].evidence # NotSet =>
              /\ resolve[d].evidence \in DOMAIN ledger.evidence
              /\ ledger'.evidence[resolve[d].evidence].first # Unredeemed
<1>0. /\ resolve[d] \in Request /\ Sound(resolve[d]) /\ resolve[d].stage = "recorded"
      /\ EvidenceIsSound
  BY Zenon DEF RequestsAreSound, RowsAreSound, Commit
<1>1. /\ resolve[d].evidence # NotSet => resolve[d].redeemed = "yes"
      /\ resolve[d].redeemed = "yes" => Backed(resolve[d])
      /\ resolve[d].redeemed \in {"no", "yes"} /\ resolve[d].received \in Times
  BY <1>0, Zenon DEF RequestsAreSound, Sound, Trusted, Request, Flags
<1>2. CASE resolve[d].redeemed = "no" \/ ledger.evidence[resolve[d].evidence].first # Unredeemed
  <2>1. ledger'.evidence = ledger.evidence
    BY <1>2, CommitTables, Zenon
  <2>2. EvidenceIsSound'
    BY <1>0, <2>1, Zenon DEF EvidenceIsSound
  <2>3. \A e \in DOMAIN ledger.evidence : EvidenceStays(e)
    BY <2>1, Zenon DEF EvidenceStays
  <2>4. resolve[d].redeemed = "yes" =>
              /\ resolve[d].evidence \in DOMAIN ledger.evidence
              /\ ledger'.evidence[resolve[d].evidence].first # Unredeemed
    BY <1>1, <1>2, <2>1, Zenon DEF Backed
  <2> QED
    BY <1>1, <2>2, <2>3, <2>4, Zenon
<1>3. CASE resolve[d].redeemed = "yes" /\ ledger.evidence[resolve[d].evidence].first = Unredeemed
  <2>1. PICK e \in EvidenceRefs, t \in Times : e = resolve[d].evidence /\ t = resolve[d].received
    BY <1>0, <1>1, <1>3, Zenon DEF Backed, EvidenceIsSound
  <2>2. /\ e \in DOMAIN ledger.evidence /\ e \in EvidenceRefs
        /\ ledger.evidence[e] \in Evidence /\ InWindow(ledger.evidence[e], t)
    BY <1>0, <1>1, <1>3, <2>1, Zenon DEF Backed, EvidenceIsSound
  <2>3. PICK n : n = [ledger.evidence[e] EXCEPT !.first = <<t>>]
    OBVIOUS
  <2>4. /\ n \in Evidence /\ n.first = <<t>> /\ n.rid = ledger.evidence[e].rid
        /\ n.kind = ledger.evidence[e].kind /\ n.epoch = ledger.evidence[e].epoch
        /\ n.issued = ledger.evidence[e].issued /\ n.expires = ledger.evidence[e].expires
    BY <2>1, <2>2, <2>3, FirstRedemption, Zenon
  <2>5. ledger'.evidence = Insert(ledger.evidence, e, n)
    <3>1. ~(resolve[d].redeemed = "no" \/ ledger.evidence[resolve[d].evidence].first # Unredeemed)
      BY <1>3, Zenon
    <3> QED
      BY <2>1, <2>3, <3>1, CommitTables, Zenon
  <2>6. /\ DOMAIN ledger'.evidence = DOMAIN ledger.evidence /\ ledger'.evidence[e] = n
        /\ \A f \in DOMAIN ledger.evidence : f # e => ledger'.evidence[f] = ledger.evidence[f]
    BY <2>2, <2>5, Zenon DEF Insert
  <2>7. <<t>> # Unredeemed /\ <<t>>[1] = t
    BY SMT DEF Unredeemed
  <2>8. InWindow(n, n.first[1])
    BY <2>2, <2>4, <2>7, Zenon DEF InWindow
  <2>9. EvidenceIsSound'
    BY <1>0, <2>4, <2>6, <2>8, Zenon DEF EvidenceIsSound
  <2>10. ASSUME NEW f \in DOMAIN ledger.evidence
         PROVE  EvidenceStays(f)
    <3>1. CASE f = e
      BY <1>3, <2>1, <2>4, <2>6, <3>1, Zenon DEF EvidenceStays
    <3>2. CASE f # e
      BY <2>6, <3>2, Zenon DEF EvidenceStays
    <3> QED
      BY <3>1, <3>2, Zenon
  <2> QED
    BY <2>1, <2>2, <2>4, <2>6, <2>7, <2>9, <2>10, Zenon
<1> QED
  BY <1>1, <1>2, <1>3, Zenon

\* The rows of a request go in together.
LEMMA CommitRows ==
  ASSUME RequestsAreSound, RowsAreSound, NEW d \in Decisions, Commit(d)
  PROVE  RowsAreSound'
<1>0. /\ resolve[d] \in Request /\ resolve[d].stage = "recorded" /\ resolve[d].stage # "answered"
      /\ RowsBelong(d) /\ AnswerAgrees(d) /\ resolve \in [Decisions -> Request]
      /\ resolve[d].cited \in {"no", "yes"}
  BY Zenon DEF RequestsAreSound, RowsAreSound, Commit, Request, Flags
<1>1. /\ d \notin DOMAIN ledger.run /\ d \notin DOMAIN ledger.audit
      /\ d \notin DOMAIN ledger.locator /\ d \notin DOMAIN ledger.grant
  BY <1>0, Zenon DEF RowsBelong, AnswerAgrees
<1>2. /\ DOMAIN ledger'.run = DOMAIN ledger.run \cup {d} /\ ledger'.run[d] = RunOf(d)
      /\ \A j \in DOMAIN ledger.run : j # d => ledger'.run[j] = ledger.run[j]
  <2>1. ledger'.run = Insert(ledger.run, d, RunOf(d))
    BY CommitTables, Zenon
  <2> QED
    BY <2>1, Zenon DEF Insert
<1>3. /\ resolve[d].revision = NoRevision =>
            DOMAIN ledger'.audit = DOMAIN ledger.audit \cup {d} /\ ledger'.audit[d] = AuditOf(d)
      /\ resolve[d].revision # NoRevision => DOMAIN ledger'.audit = DOMAIN ledger.audit
      /\ \A j \in DOMAIN ledger.audit : j # d => ledger'.audit[j] = ledger.audit[j]
  <2>1. CASE resolve[d].revision = NoRevision
    <3>1. ledger'.audit = Insert(ledger.audit, d, AuditOf(d))
      BY <2>1, CommitTables, Zenon
    <3> QED
      BY <2>1, <3>1, Zenon DEF Insert
  <2>2. CASE resolve[d].revision # NoRevision
    <3>1. ledger'.audit = ledger.audit
      BY <2>2, CommitTables, Zenon
    <3> QED
      BY <2>2, <3>1, Zenon
  <2> QED
    BY <2>1, <2>2, Zenon
<1>4. /\ resolve[d].cited = "yes" =>
            DOMAIN ledger'.locator = DOMAIN ledger.locator \cup {d} /\ ledger'.locator[d] = LocatorOf(d)
      /\ resolve[d].cited = "no" => DOMAIN ledger'.locator = DOMAIN ledger.locator
      /\ \A j \in DOMAIN ledger.locator : j # d => ledger'.locator[j] = ledger.locator[j]
  <2>1. CASE resolve[d].cited = "yes"
    <3>1. ledger'.locator = Insert(ledger.locator, d, LocatorOf(d))
      BY <2>1, CommitTables, Zenon
    <3> QED
      BY <2>1, <3>1, Zenon DEF Insert
  <2>2. CASE resolve[d].cited = "no"
    <3>1. ledger'.locator = ledger.locator
      BY <2>2, CommitTables, Zenon
    <3> QED
      BY <2>2, <3>1, Zenon
  <2> QED
    BY <1>0, <2>1, <2>2, Zenon
<1>5. /\ \/ DOMAIN ledger'.grant = DOMAIN ledger.grant \cup {d} /\ ledger'.grant[d] = GrantOf(d)
         \/ DOMAIN ledger'.grant = DOMAIN ledger.grant
      /\ \A j \in DOMAIN ledger.grant : j # d => ledger'.grant[j] = ledger.grant[j]
  <2>1. CASE resolve[d].granted = "no"
    BY <2>1, CommitTables, Zenon
  <2>2. CASE resolve[d].granted # "no"
    <3>1. ledger'.grant = Insert(ledger.grant, d, GrantOf(d))
      BY <2>2, CommitTables, Zenon
    <3> QED
      BY <3>1, Zenon DEF Insert
  <2> QED
    BY <2>1, <2>2, Zenon
<1>6. RowsBelong(d)'
  <2>1. /\ RunOf(d) \in ContextRunRecord
        /\ RunOf(d).outcome = "empty" <=> resolve[d].revision = NoRevision
        /\ RunOf(d).revision = resolve[d].revision /\ RunOf(d).epoch = resolve[d].epoch
        /\ AuditOf(d) \in DecisionAudit
        /\ resolve[d].revision = NoRevision => IsEmptyParent(RunOf(d), AuditOf(d))
        /\ resolve[d].cited = "yes" => LocatorOf(d) \in Locator
        /\ LocatorOf(d).revision = resolve[d].revision
        /\ GrantOf(d) \in Grant /\ GrantOf(d).epoch = resolve[d].epoch
        /\ ConsumedOnce(GrantOf(d).trail)
    BY <1>0, CommittedRows, Zenon
  <2>2. /\ d \in DOMAIN ledger'.run /\ ledger'.run[d] = RunOf(d)
        /\ d \in DOMAIN ledger'.audit <=> resolve[d].revision = NoRevision
        /\ d \in DOMAIN ledger'.audit => ledger'.audit[d] = AuditOf(d)
        /\ d \in DOMAIN ledger'.locator =>
             resolve[d].cited = "yes" /\ ledger'.locator[d] = LocatorOf(d)
        /\ d \in DOMAIN ledger'.grant => ledger'.grant[d] = GrantOf(d)
    BY <1>0, <1>1, <1>2, <1>3, <1>4, <1>5, Zenon
  <2> QED
    BY <2>1, <2>2, Zenon DEF RowsBelong
<1>7. ASSUME NEW j \in Decisions, j # d
      PROVE  RowsBelong(j)' /\ AnswerAgrees(j)'
  <2>1. RowsBelong(j) /\ AnswerAgrees(j) /\ resolve'[j] = resolve[j]
    BY <1>0, <1>7, Zenon DEF RowsAreSound, Commit
  <2>2. /\ j \in DOMAIN ledger'.run <=> j \in DOMAIN ledger.run
        /\ j \in DOMAIN ledger'.audit <=> j \in DOMAIN ledger.audit
        /\ j \in DOMAIN ledger'.locator <=> j \in DOMAIN ledger.locator
        /\ j \in DOMAIN ledger'.grant <=> j \in DOMAIN ledger.grant
        /\ j \in DOMAIN ledger.run => ledger'.run[j] = ledger.run[j]
        /\ j \in DOMAIN ledger.audit => ledger'.audit[j] = ledger.audit[j]
        /\ j \in DOMAIN ledger.locator => ledger'.locator[j] = ledger.locator[j]
        /\ j \in DOMAIN ledger.grant => ledger'.grant[j] = ledger.grant[j]
    BY <1>0, <1>2, <1>3, <1>4, <1>5, <1>7, Zenon
  <2>3. RowsBelong(j)'
    BY <2>1, <2>2, Zenon DEF RowsBelong
  <2> QED
    BY <2>1, <2>2, <2>3, Zenon DEF AnswerAgrees
<1>8. AnswerAgrees(d)'
  <2>1. PICK answer \in {"lost", "503", "citation_not_available", "resolved"} :
           resolve' = [resolve EXCEPT ![d] = Answered(answer)]
    BY Zenon DEF Commit
  <2>2. answer \in Answers /\ answer \notin NothingStored
    BY <2>1, Zenon DEF Answers, Refusals, NothingStored
  <2>3. resolve'[d].answer = answer /\ resolve'[d].stage = "answered"
    BY <1>0, <2>1, <2>2, AnsweredIsSound, Zenon
  <2> QED
    BY <1>2, <2>2, <2>3, Zenon DEF AnswerAgrees
<1>9. DOMAIN ledger'.run \cup DOMAIN ledger'.audit \cup DOMAIN ledger'.locator
         \cup DOMAIN ledger'.grant \subseteq Decisions
  BY <1>0, <1>2, <1>3, <1>4, <1>5, Zenon DEF RowsAreSound
<1> QED
  BY <1>6, <1>7, <1>8, <1>9, CommitTables, CommitEvidence, Zenon DEF RowsAreSound

\* After its commit a request has nothing left but its answer.
LEMMA CommitRequests ==
  ASSUME RequestsAreSound, RowsAreSound, NEW d \in Decisions, Commit(d)
  PROVE  RequestsAreSound'
<1>1. PICK answer \in Answers : resolve' = [resolve EXCEPT ![d] = Answered(answer)]
  <2>1. {"lost", "503", "citation_not_available", "resolved"} \subseteq Answers
    BY Zenon DEF Answers, Refusals
  <2> QED
    BY <2>1, Zenon DEF Commit
<1>2. PICK n : n = Answered(answer)
  OBVIOUS
<1>3. n \in Request /\ Sound(n) /\ n.redeemed = "no"
  BY <1>2, AnsweredIsSound, Zenon DEF Sound
<1>4. /\ resolve \in [Decisions -> Request] /\ resolve' = [resolve EXCEPT ![d] = n]
      /\ WorldTypeOK' /\ resolve' \in [Decisions -> Request]
  BY <1>1, <1>2, <1>3, Zenon DEF RequestsAreSound, WorldTypeOK, Commit
<1>5. ASSUME NEW j \in Decisions
      PROVE  Sound(resolve'[j]) /\ (resolve'[j].redeemed = "yes" => Backed(resolve[j])')
  <2>1. CASE j = d
    BY <1>3, <1>4, <2>1, Zenon
  <2>2. CASE j # d
    <3>1. /\ resolve'[j] = resolve[j] /\ Sound(resolve[j]) /\ resolve[j] \in Request
          /\ resolve[j].redeemed = "yes" => Backed(resolve[j])
      BY <1>4, <2>2, Zenon DEF RequestsAreSound
    <3>2. ASSUME resolve[j].redeemed = "yes" PROVE EvidenceStays(resolve[j].evidence)
      BY <3>1, <3>2, CommitEvidence, Zenon DEF Backed
    <3>3. resolve[j].redeemed = "yes" => Backed(resolve[j])'
      BY <3>1, <3>2, Zenon DEF Backed, EvidenceStays, InWindow
    <3> QED
      BY <3>1, <3>3, Zenon
  <2> QED
    BY <2>1, <2>2, Zenon
<1> QED
  BY <1>4, <1>5, Zenon DEF RequestsAreSound

\* A step of a request inside its transaction.
LEMMA MovesKeep ==
  ASSUME RequestsAreSound, RowsAreSound, NEW d \in Decisions, Moves(d)
  PROVE  RequestsAreSound' /\ RowsAreSound'
<1>1. PICK n \in Request : /\ resolve' = [resolve EXCEPT ![d] = n]
                           /\ Sound(n) /\ n.answer # "resolved"
                           /\ n.redeemed = "yes" => Backed(n)
  BY Zenon DEF Moves
<1>2. /\ UNCHANGED <<world, ledger>> /\ resolve \in [Decisions -> Request]
      /\ resolve'[d] = n /\ \A j \in Decisions : j # d => resolve'[j] = resolve[j]
      /\ resolve' \in [Decisions -> Request] /\ resolve[d].stage # "answered"
  BY <1>1, Zenon DEF Moves, RequestsAreSound
<1>3. RequestsAreSound'
  <2>1. ASSUME NEW j \in Decisions
        PROVE  Sound(resolve'[j]) /\ (resolve'[j].redeemed = "yes" => Backed(resolve[j])')
    <3>1. CASE j = d
      BY <1>1, <1>2, <3>1, Zenon DEF Backed
    <3>2. CASE j # d
      BY <1>2, <3>2, Zenon DEF Backed, RequestsAreSound
    <3> QED
      BY <3>1, <3>2, Zenon
  <2>2. WorldTypeOK'
    BY <1>2, Zenon DEF RequestsAreSound, WorldTypeOK
  <2> QED
    BY <1>2, <2>1, <2>2, Zenon DEF RequestsAreSound
<1>4. RowsAreSound'
  <2>1. ASSUME NEW j \in Decisions
        PROVE  RowsBelong(j)' /\ AnswerAgrees(j)'
    <3>1. RowsBelong(j) /\ AnswerAgrees(j) /\ AnswerAgrees(d)
      BY Zenon DEF RowsAreSound
    <3>2. RowsBelong(j)'
      BY <1>2, <3>1, Zenon DEF RowsBelong
    <3>3. CASE j = d
      BY <1>1, <1>2, <3>1, <3>2, <3>3, Zenon DEF AnswerAgrees
    <3>4. CASE j # d
      BY <1>2, <3>1, <3>2, <3>4, Zenon DEF AnswerAgrees
    <3> QED
      BY <3>3, <3>4, Zenon
  <2>2. LedgerShape' /\ EvidenceIsSound'
    BY <1>2, Zenon DEF RowsAreSound, LedgerShape, EvidenceIsSound
  <2> QED
    BY <1>2, <2>1, <2>2, Zenon DEF RowsAreSound
<1> QED
  BY <1>3, <1>4, Zenon

\* A step of the surroundings, of retention, of identity or of the readers.
LEMMA WriteKeeps ==
  ASSUME RequestsAreSound, RowsAreSound, UNCHANGED resolve, WorldTypeOK',
         LedgerShape', EvidenceIsSound',
         \A d \in Decisions : resolve[d].redeemed = "yes" => EvidenceStays(resolve[d].evidence),
         ledger'.run = ledger.run, ledger'.audit = ledger.audit,
         DOMAIN ledger'.locator \subseteq DOMAIN ledger.locator,
         \A d \in DOMAIN ledger'.locator : ledger'.locator[d] = ledger.locator[d],
         DOMAIN ledger'.grant = DOMAIN ledger.grant,
         \A d \in DOMAIN ledger.grant :
            /\ ledger'.grant[d] \in Grant /\ ledger'.grant[d].epoch = ledger.grant[d].epoch
            /\ ConsumedOnce(ledger'.grant[d].trail)
  PROVE  RequestsAreSound' /\ RowsAreSound'
<1>1. RequestsAreSound'
  <2>1. ASSUME NEW d \in Decisions, resolve[d].redeemed = "yes"
        PROVE  Backed(resolve[d])'
    <3>1. Backed(resolve[d]) /\ EvidenceStays(resolve[d].evidence)
      BY <2>1, Zenon DEF RequestsAreSound
    <3> QED
      BY <3>1, Zenon DEF Backed, EvidenceStays, InWindow
  <2> QED
    BY <2>1, Zenon DEF RequestsAreSound
<1>2. ASSUME NEW d \in Decisions
      PROVE  RowsBelong(d)' /\ AnswerAgrees(d)'
  <2>1. RowsBelong(d) /\ AnswerAgrees(d)
    BY Zenon DEF RowsAreSound
  <2>2. RowsBelong(d)'
    BY <2>1, Zenon DEF RowsBelong
  <2>3. AnswerAgrees(d)'
    BY <2>1, Zenon DEF AnswerAgrees
  <2> QED
    BY <2>2, <2>3, Zenon
<1>3. DOMAIN ledger'.run \cup DOMAIN ledger'.audit \cup DOMAIN ledger'.locator
         \cup DOMAIN ledger'.grant \subseteq Decisions
  BY Zenon DEF RowsAreSound
<1> QED
  BY <1>1, <1>2, <1>3, Zenon DEF RowsAreSound

\* A table of the ledger that is written alone.
LEMMA OneTable ==
  ASSUME RowsAreSound, NEW table
  PROVE  /\ ledger' = [ledger EXCEPT !.evidence = table] =>
              /\ LedgerShape' /\ ledger'.evidence = table
              /\ ledger'.run = ledger.run /\ ledger'.audit = ledger.audit
              /\ ledger'.locator = ledger.locator /\ ledger'.grant = ledger.grant
              /\ ledger'.ticket = ledger.ticket
         /\ ledger' = [ledger EXCEPT !.locator = table] =>
              /\ LedgerShape' /\ ledger'.evidence = ledger.evidence
              /\ ledger'.run = ledger.run /\ ledger'.audit = ledger.audit
              /\ ledger'.locator = table /\ ledger'.grant = ledger.grant
              /\ ledger'.ticket = ledger.ticket
         /\ ledger' = [ledger EXCEPT !.grant = table] =>
              /\ LedgerShape' /\ ledger'.evidence = ledger.evidence
              /\ ledger'.run = ledger.run /\ ledger'.audit = ledger.audit
              /\ ledger'.locator = ledger.locator /\ ledger'.grant = table
              /\ ledger'.ticket = ledger.ticket
         /\ ledger' = [ledger EXCEPT !.ticket = table] =>
              /\ LedgerShape' /\ ledger'.evidence = ledger.evidence
              /\ ledger'.run = ledger.run /\ ledger'.audit = ledger.audit
              /\ ledger'.locator = ledger.locator /\ ledger'.grant = ledger.grant
              /\ ledger'.ticket = table
<1>1. Tables(ledger, ledger.evidence, ledger.run, ledger.audit,
             ledger.locator, ledger.grant, ledger.ticket)
  BY Zenon DEF RowsAreSound, LedgerShape
<1>2. ASSUME ledger' = [ledger EXCEPT !.evidence = table]
      PROVE  /\ LedgerShape'
             /\ ledger'.evidence = table /\ ledger'.run = ledger.run /\ ledger'.audit = ledger.audit
             /\ ledger'.locator = ledger.locator /\ ledger'.grant = ledger.grant /\ ledger'.ticket = ledger.ticket
  <2>1. Tables(ledger', table, ledger.run, ledger.audit,
               ledger.locator, ledger.grant, ledger.ticket)
    BY <1>1, <1>2, TableWritten, Zenon
  <2>2. /\ ledger'.evidence = table /\ ledger'.run = ledger.run /\ ledger'.audit = ledger.audit
        /\ ledger'.locator = ledger.locator /\ ledger'.grant = ledger.grant /\ ledger'.ticket = ledger.ticket
    BY <2>1, TableValues, Zenon
  <2> QED
    BY <2>1, <2>2, Zenon DEF LedgerShape
<1>3. ASSUME ledger' = [ledger EXCEPT !.locator = table]
      PROVE  /\ LedgerShape'
             /\ ledger'.evidence = ledger.evidence /\ ledger'.run = ledger.run /\ ledger'.audit = ledger.audit
             /\ ledger'.locator = table /\ ledger'.grant = ledger.grant /\ ledger'.ticket = ledger.ticket
  <2>1. Tables(ledger', ledger.evidence, ledger.run, ledger.audit,
               table, ledger.grant, ledger.ticket)
    BY <1>1, <1>3, TableWritten, Zenon
  <2>2. /\ ledger'.evidence = ledger.evidence /\ ledger'.run = ledger.run /\ ledger'.audit = ledger.audit
        /\ ledger'.locator = table /\ ledger'.grant = ledger.grant /\ ledger'.ticket = ledger.ticket
    BY <2>1, TableValues, Zenon
  <2> QED
    BY <2>1, <2>2, Zenon DEF LedgerShape
<1>4. ASSUME ledger' = [ledger EXCEPT !.grant = table]
      PROVE  /\ LedgerShape'
             /\ ledger'.evidence = ledger.evidence /\ ledger'.run = ledger.run /\ ledger'.audit = ledger.audit
             /\ ledger'.locator = ledger.locator /\ ledger'.grant = table /\ ledger'.ticket = ledger.ticket
  <2>1. Tables(ledger', ledger.evidence, ledger.run, ledger.audit,
               ledger.locator, table, ledger.ticket)
    BY <1>1, <1>4, TableWritten, Zenon
  <2>2. /\ ledger'.evidence = ledger.evidence /\ ledger'.run = ledger.run /\ ledger'.audit = ledger.audit
        /\ ledger'.locator = ledger.locator /\ ledger'.grant = table /\ ledger'.ticket = ledger.ticket
    BY <2>1, TableValues, Zenon
  <2> QED
    BY <2>1, <2>2, Zenon DEF LedgerShape
<1>5. ASSUME ledger' = [ledger EXCEPT !.ticket = table]
      PROVE  /\ LedgerShape'
             /\ ledger'.evidence = ledger.evidence /\ ledger'.run = ledger.run /\ ledger'.audit = ledger.audit
             /\ ledger'.locator = ledger.locator /\ ledger'.grant = ledger.grant /\ ledger'.ticket = table
  <2>1. Tables(ledger', ledger.evidence, ledger.run, ledger.audit,
               ledger.locator, ledger.grant, table)
    BY <1>1, <1>5, TableWritten, Zenon
  <2>2. /\ ledger'.evidence = ledger.evidence /\ ledger'.run = ledger.run /\ ledger'.audit = ledger.audit
        /\ ledger'.locator = ledger.locator /\ ledger'.grant = ledger.grant /\ ledger'.ticket = table
    BY <2>1, TableValues, Zenon
  <2> QED
    BY <2>1, <2>2, Zenon DEF LedgerShape
<1> QED
  BY <1>2, <1>3, <1>4, <1>5, Zenon

\* Nothing of what stays is disturbed.
LEMMA GrantsStay ==
  ASSUME RowsAreSound
  PROVE  \A d \in DOMAIN ledger.grant :
            /\ ledger.grant[d] \in Grant /\ ConsumedOnce(ledger.grant[d].trail)
BY Zenon DEF RowsAreSound, RowsBelong

LEMMA EvidenceUntouched ==
  ASSUME RequestsAreSound, RowsAreSound, ledger'.evidence = ledger.evidence
  PROVE  /\ EvidenceIsSound'
         /\ \A d \in Decisions : resolve[d].redeemed = "yes" => EvidenceStays(resolve[d].evidence)
BY Zenon DEF RowsAreSound, RequestsAreSound, EvidenceIsSound, EvidenceStays, Backed

\* The surroundings write no row.
LEMMA WorldSteps ==
  ASSUME RequestsAreSound, RowsAreSound,
         LedgerTick \/ AdvanceLedgerEpoch \/ EndMembership \/ PublishRevision
  PROVE  RequestsAreSound' /\ RowsAreSound'
<1>1. WorldTypeOK'
  <2>1. WorldTypeOK /\ world.now \in 0 .. LedgerClock /\ world.epoch \in 1 .. LedgerEpochs
        /\ LedgerClock \in Nat /\ LedgerEpochs \in Nat
    BY LedgerAssumption, Zenon DEF RequestsAreSound, WorldTypeOK
  <2>2. world.now < LedgerClock => world.now + 1 \in 0 .. LedgerClock
    BY <2>1, SMT
  <2>3. world.epoch < LedgerEpochs => world.epoch + 1 \in 1 .. LedgerEpochs
    BY <2>1, SMT
  <2>4. 2 \in 1 .. 2
    BY SMT
  <2> QED
    BY <2>1, <2>2, <2>3, <2>4, Zenon DEF LedgerTick, AdvanceLedgerEpoch, EndMembership,
         PublishRevision, WorldTypeOK
<1>2. UNCHANGED <<resolve, ledger>>
  BY Zenon DEF LedgerTick, AdvanceLedgerEpoch, EndMembership, PublishRevision
<1>3. LedgerShape'
  BY <1>2, Zenon DEF RowsAreSound, LedgerShape
<1> QED
  BY <1>1, <1>2, <1>3, GrantsStay, EvidenceUntouched, WriteKeeps, Zenon

\* Identity stores an evidence row under a reference that has none.
LEMMA IssueKeeps ==
  ASSUME RequestsAreSound, RowsAreSound, NEW e \in EvidenceRefs, NEW rid \in RequestIds,
         NEW kind \in {"acquire", "open"}, IssueEvidence(e, rid, kind)
  PROVE  /\ RequestsAreSound' /\ RowsAreSound'
         /\ \A f \in DOMAIN ledger.evidence : EvidenceStays(f)
         /\ ledger'.run = ledger.run /\ ledger'.ticket = ledger.ticket /\ UNCHANGED reader
<1>1. PICK t \in HostClock :
         ledger' = [ledger EXCEPT !.evidence = Insert(ledger.evidence, e, EvidenceRow(t, rid, kind))]
  BY Zenon DEF IssueEvidence, Write
<1>2. e \notin DOMAIN ledger.evidence /\ UNCHANGED <<world, resolve, reader>>
  BY Zenon DEF IssueEvidence, Write
<1>3. PICK table : table = Insert(ledger.evidence, e, EvidenceRow(t, rid, kind))
  OBVIOUS
<1>4. /\ LedgerShape' /\ ledger'.evidence = table
      /\ ledger'.run = ledger.run /\ ledger'.audit = ledger.audit
      /\ ledger'.locator = ledger.locator /\ ledger'.grant = ledger.grant
      /\ ledger'.ticket = ledger.ticket
  BY <1>1, <1>3, OneTable, Zenon
<1>5. /\ DOMAIN ledger'.evidence = DOMAIN ledger.evidence \cup {e}
      /\ ledger'.evidence[e] = EvidenceRow(t, rid, kind)
      /\ \A f \in DOMAIN ledger.evidence : ledger'.evidence[f] = ledger.evidence[f]
  BY <1>2, <1>3, <1>4, Zenon DEF Insert
<1>6. EvidenceRow(t, rid, kind) \in Evidence /\ EvidenceRow(t, rid, kind).first = Unredeemed
  <2>1. t \in Times /\ t \in Int /\ world.epoch \in 1 .. LedgerEpochs
    BY <1>1, ClocksRead, Zenon DEF RequestsAreSound, WorldTypeOK
  <2>2. EvidenceTtl \in Nat
    BY LedgerAssumption, Zenon
  <2>3. t + EvidenceTtl \in Int
    BY <2>1, <2>2, SMT
  <2> QED
    BY <2>1, <2>3, ZenonT(60) DEF EvidenceRow, Evidence, Unredeemed
<1>7. EvidenceIsSound'
  BY <1>5, <1>6, Zenon DEF RowsAreSound, EvidenceIsSound
<1>8. \A f \in DOMAIN ledger.evidence : EvidenceStays(f)
  BY <1>5, Zenon DEF EvidenceStays
<1>9. \A d \in Decisions : resolve[d].redeemed = "yes" => EvidenceStays(resolve[d].evidence)
  BY <1>8, Zenon DEF RequestsAreSound, Backed
<1>10. WorldTypeOK'
  BY <1>2, Zenon DEF RequestsAreSound, WorldTypeOK
<1>11. RequestsAreSound' /\ RowsAreSound'
  BY <1>2, <1>4, <1>7, <1>9, <1>10, GrantsStay, WriteKeeps, Zenon
<1> QED
  BY <1>2, <1>4, <1>8, <1>11, Zenon

\* Retention of evidence waits for the requests that have redeemed it.
LEMMA EvidenceRetention ==
  ASSUME RequestsAreSound, RowsAreSound, DeleteExpiredEvidence
  PROVE  /\ RequestsAreSound' /\ RowsAreSound'
         /\ \A f \in DOMAIN ledger'.evidence : ledger'.evidence[f] = ledger.evidence[f]
         /\ ledger'.run = ledger.run /\ ledger'.ticket = ledger.ticket /\ UNCHANGED reader
<1>1. PICK expired :
         /\ expired = {e \in DOMAIN ledger.evidence : ledger.evidence[e].expires <= world.now}
         /\ \A e \in expired : ~EvidenceLocked(e)
         /\ ledger' = [ledger EXCEPT !.evidence = Without(ledger.evidence, expired)]
  BY Zenon DEF DeleteExpiredEvidence, Write
<1>2. UNCHANGED <<world, resolve, reader>>
  BY Zenon DEF DeleteExpiredEvidence, Write
<1>3. PICK table : table = Without(ledger.evidence, expired)
  OBVIOUS
<1>4. /\ LedgerShape' /\ ledger'.evidence = table
      /\ ledger'.run = ledger.run /\ ledger'.audit = ledger.audit
      /\ ledger'.locator = ledger.locator /\ ledger'.grant = ledger.grant
      /\ ledger'.ticket = ledger.ticket
  BY <1>1, <1>3, OneTable, Zenon
<1>5. /\ DOMAIN ledger'.evidence = DOMAIN ledger.evidence \ expired
      /\ \A f \in DOMAIN ledger'.evidence : ledger'.evidence[f] = ledger.evidence[f]
  BY <1>3, <1>4, Zenon DEF Without
<1>6. EvidenceIsSound'
  BY <1>5, Zenon DEF RowsAreSound, EvidenceIsSound
<1>7. ASSUME NEW d \in Decisions, resolve[d].redeemed = "yes"
      PROVE  EvidenceStays(resolve[d].evidence)
  <2>1. Backed(resolve[d]) /\ resolve[d].stage \in Trusted
    BY <1>7, Zenon DEF RequestsAreSound, Sound
  <2>2. InTransaction(d)
    BY <2>1, Zenon DEF InTransaction, Trusted, Stages
  <2>3. EvidenceLocked(resolve[d].evidence)
    BY <1>7, <2>2, Zenon DEF EvidenceLocked
  <2> QED
    BY <1>1, <1>5, <2>1, <2>3, Zenon DEF EvidenceStays, Backed
<1>8. WorldTypeOK'
  BY <1>2, Zenon DEF RequestsAreSound, WorldTypeOK
<1>9. RequestsAreSound' /\ RowsAreSound'
  BY <1>2, <1>4, <1>6, <1>7, <1>8, GrantsStay, WriteKeeps, Zenon
<1> QED
  BY <1>2, <1>4, <1>5, <1>9, Zenon

\* Retention of locators.
LEMMA LocatorRetentionKeeps ==
  ASSUME RequestsAreSound, RowsAreSound, DeleteExpiredLineage
  PROVE  /\ RequestsAreSound' /\ RowsAreSound' /\ ledger'.evidence = ledger.evidence
         /\ ledger'.run = ledger.run /\ ledger'.ticket = ledger.ticket /\ UNCHANGED reader
<1>1. PICK table : table = Without(ledger.locator, OldLocators)
  OBVIOUS
<1>2. ledger' = [ledger EXCEPT !.locator = table] /\ UNCHANGED <<world, resolve, reader>>
  BY <1>1, Zenon DEF DeleteExpiredLineage, Write
<1>3. /\ LedgerShape' /\ ledger'.evidence = ledger.evidence
      /\ ledger'.run = ledger.run /\ ledger'.audit = ledger.audit
      /\ ledger'.locator = table /\ ledger'.grant = ledger.grant
      /\ ledger'.ticket = ledger.ticket
  BY <1>2, OneTable, Zenon
<1>4. /\ DOMAIN ledger'.locator \subseteq DOMAIN ledger.locator
      /\ \A d \in DOMAIN ledger'.locator : ledger'.locator[d] = ledger.locator[d]
  BY <1>1, <1>3, Zenon DEF Without
<1>5. WorldTypeOK'
  BY <1>2, Zenon DEF RequestsAreSound, WorldTypeOK
<1> QED
  BY <1>2, <1>3, <1>4, <1>5, GrantsStay, EvidenceUntouched, WriteKeeps, Zenon

\* A trail in which the grant is consumed at most once stays one.
LEMMA TrailGrows ==
  ASSUME NEW trail \in Seq({"issued", "consumed", "not_available"}), ConsumedOnce(trail),
         NEW x \in {"consumed", "not_available"},
         x = "consumed" => \A i \in DOMAIN trail : trail[i] # "consumed"
  PROVE  /\ Append(trail, x) \in Seq({"issued", "consumed", "not_available"})
         /\ ConsumedOnce(Append(trail, x))
<1>1. Append(trail, x) \in Seq({"issued", "consumed", "not_available"})
  BY SMT
<1>2. /\ DOMAIN Append(trail, x) = DOMAIN trail \cup {Len(trail) + 1}
      /\ Append(trail, x)[Len(trail) + 1] = x
      /\ \A i \in DOMAIN trail : Append(trail, x)[i] = trail[i] /\ i # Len(trail) + 1
  BY SMT
<1>3. PICK longer, last : longer = Append(trail, x) /\ last = Len(trail) + 1
  OBVIOUS
<1>4. /\ DOMAIN longer = DOMAIN trail \cup {last} /\ longer[last] = x
      /\ \A i \in DOMAIN trail : longer[i] = trail[i]
  BY <1>2, <1>3, Zenon
<1>5. ConsumedOnce(longer)
  BY <1>4, Zenon DEF ConsumedOnce
<1> QED
  BY <1>1, <1>3, <1>5, Zenon

\* A redemption of a grant adds one entry to its trail.
LEMMA GrantRedemption ==
  ASSUME RequestsAreSound, RowsAreSound, NEW d \in Decisions, NEW exact \in {"yes", "no"},
         RedeemGrant(d, exact)
  PROVE  /\ RequestsAreSound' /\ RowsAreSound' /\ ledger'.evidence = ledger.evidence
         /\ ledger'.run = ledger.run /\ ledger'.ticket = ledger.ticket /\ UNCHANGED reader
<1>1. d \in DOMAIN ledger.grant /\ UNCHANGED <<world, resolve, reader>>
  BY Zenon DEF RedeemGrant, Write
<1>2. ledger.grant[d] \in Grant /\ ConsumedOnce(ledger.grant[d].trail)
  BY <1>1, GrantsStay, Zenon
<1>3. PICK trail \in Seq({"issued", "consumed", "not_available"}) : trail = ledger.grant[d].trail
  BY <1>2, Zenon DEF Grant
<1>4. PICK x \in {"consumed", "not_available"} :
         x = IF GrantRedeemable(ledger.grant[d], exact) THEN "consumed" ELSE "not_available"
  BY Zenon
<1>5. PICK n : n = [ledger.grant[d] EXCEPT !.trail = Append(trail, x)]
  OBVIOUS
<1>6. /\ Append(trail, x) \in Seq({"issued", "consumed", "not_available"})
      /\ ConsumedOnce(Append(trail, x))
  <2>1. x = "consumed" => \A i \in DOMAIN trail : trail[i] # "consumed"
    BY <1>3, <1>4, Zenon DEF GrantRedeemable
  <2> QED
    BY <1>2, <1>3, <1>4, <2>1, TrailGrows, Zenon
<1>7. n \in Grant /\ n.epoch = ledger.grant[d].epoch /\ n.trail = Append(trail, x)
  BY <1>2, <1>5, <1>6, Zenon DEF Grant
<1>8. PICK table : table = [ledger.grant EXCEPT ![d] = n]
  OBVIOUS
<1>9. ledger' = [ledger EXCEPT !.grant = table]
  <2>1. ledger' = [ledger EXCEPT !.grant[d].trail = Append(@, x)]
    BY <1>4, Zenon DEF RedeemGrant, Write
  <2> QED
    BY <1>3, <1>5, <1>8, <2>1, Zenon
<1>10. /\ LedgerShape' /\ ledger'.evidence = ledger.evidence
       /\ ledger'.run = ledger.run /\ ledger'.audit = ledger.audit
       /\ ledger'.locator = ledger.locator /\ ledger'.grant = table
       /\ ledger'.ticket = ledger.ticket
  BY <1>9, OneTable, Zenon
<1>11. /\ DOMAIN ledger'.grant = DOMAIN ledger.grant /\ ledger'.grant[d] = n
       /\ \A j \in DOMAIN ledger.grant : j # d => ledger'.grant[j] = ledger.grant[j]
  BY <1>1, <1>8, <1>10, Zenon
<1>12. \A j \in DOMAIN ledger.grant :
            /\ ledger'.grant[j] \in Grant /\ ledger'.grant[j].epoch = ledger.grant[j].epoch
            /\ ConsumedOnce(ledger'.grant[j].trail)
  BY <1>6, <1>7, <1>11, GrantsStay, Zenon
<1>13. WorldTypeOK'
  BY <1>1, Zenon DEF RequestsAreSound, WorldTypeOK
<1> QED
  BY <1>1, <1>10, <1>11, <1>12, <1>13, EvidenceUntouched, WriteKeeps, Zenon

-----------------------------------------------------------------------------
(* The operators' calls                                                    *)

ReaderIs(r, stage, org, decision, answer, view) ==
    r \in [stage : {stage}, org : {org}, decision : {decision}, answer : {answer}, view : {view}]
Call(r) == ReaderIs(r, r.stage, r.org, r.decision, r.answer, r.view)

\* A call reads for its own Organization, and a ticket belongs to a call that
\* has not ended well.
ReadersAreSound ==
    /\ DOMAIN reader = Operators
    /\ \A o \in Operators :
         /\ Call(reader[o])
         /\ reader[o].stage # "idle" =>
              reader[o].org = OrgOfOperator[o] /\ reader[o].decision \in Decisions
         /\ reader[o].stage = "issued" =>
              reader[o].org = Home /\ reader[o].decision \in DOMAIN ledger.run
    /\ DOMAIN ledger.ticket \subseteq Operators
    /\ \A o \in DOMAIN ledger.ticket : reader[o].stage \in {"issued", "closing", "stranded"}

\* The updates of a call.
LEMMA CallValues ==
  ASSUME NEW r, NEW stage, NEW org, NEW decision, NEW answer, NEW view,
         ReaderIs(r, stage, org, decision, answer, view)
  PROVE  /\ r.stage = stage /\ r.org = org /\ r.decision = decision
         /\ r.answer = answer /\ r.view = view /\ Call(r)
<1>1. /\ r.stage = stage /\ r.org = org /\ r.decision = decision
      /\ r.answer = answer /\ r.view = view
  BY SMT DEF ReaderIs
<1> QED
  BY <1>1, Zenon DEF Call

LEMMA CallUpdates ==
  ASSUME NEW r, NEW stage, NEW org, NEW decision, NEW answer, NEW view,
         ReaderIs(r, stage, org, decision, answer, view), NEW s, NEW a, NEW v, NEW g, NEW d
  PROVE  /\ ReaderIs([r EXCEPT !.stage = s], s, org, decision, answer, view)
         /\ ReaderIs([r EXCEPT !.stage = s, !.answer = a], s, org, decision, a, view)
         /\ ReaderIs([r EXCEPT !.stage = s, !.answer = a, !.view = v], s, org, decision, a, v)
         /\ ReaderIs([r EXCEPT !.stage = s, !.view = v, !.answer = a], s, org, decision, a, v)
         /\ ReaderIs([r EXCEPT !.stage = s, !.org = g, !.decision = d], s, g, d, answer, view)
BY ZenonT(60) DEF ReaderIs

\* A call writes no table but the tickets, and there only its own row.
TicketsOnly(o) ==
    /\ LedgerShape' /\ ledger'.evidence = ledger.evidence /\ ledger'.run = ledger.run
    /\ ledger'.audit = ledger.audit /\ ledger'.locator = ledger.locator
    /\ ledger'.grant = ledger.grant
    /\ DOMAIN ledger'.ticket \subseteq DOMAIN ledger.ticket \cup {o}

LEMMA TicketTables ==
  ASSUME RowsAreSound, NEW o \in Operators
  PROVE  /\ UNCHANGED ledger => TicketsOnly(o)
         /\ ledger' = Ticketed(o) => TicketsOnly(o)
         /\ ledger' = Unticketed(o) => TicketsOnly(o) /\ o \notin DOMAIN ledger'.ticket
<1>1. ASSUME UNCHANGED ledger PROVE TicketsOnly(o)
  BY <1>1, Zenon DEF TicketsOnly, RowsAreSound, LedgerShape
<1>2. ASSUME ledger' = Ticketed(o) PROVE TicketsOnly(o)
  <2>1. PICK table : table = Insert(ledger.ticket, o, world.now + TicketTtl)
    OBVIOUS
  <2>2. ledger' = [ledger EXCEPT !.ticket = table]
    BY <1>2, <2>1, Zenon DEF Ticketed
  <2>3. DOMAIN table \subseteq DOMAIN ledger.ticket \cup {o}
    BY <2>1, Zenon DEF Insert
  <2> QED
    BY <2>2, <2>3, OneTable, Zenon DEF TicketsOnly
<1>3. ASSUME ledger' = Unticketed(o) PROVE TicketsOnly(o) /\ o \notin DOMAIN ledger'.ticket
  <2>1. PICK table : table = Without(ledger.ticket, {o})
    OBVIOUS
  <2>2. ledger' = [ledger EXCEPT !.ticket = table]
    BY <1>3, <2>1, Zenon DEF Unticketed
  <2>3. DOMAIN table \subseteq DOMAIN ledger.ticket /\ o \notin DOMAIN table
    BY <2>1, Zenon DEF Without
  <2> QED
    BY <2>2, <2>3, OneTable, Zenon DEF TicketsOnly
<1> QED
  BY <1>1, <1>2, <1>3, Zenon

\* What a step of a call may do.
CallGoesOn(o, n) ==
    /\ reader' = [reader EXCEPT ![o] = n] /\ Call(n)
    /\ n.stage # "idle" /\ n.org = OrgOfOperator[o] /\ n.decision \in Decisions
    /\ n.stage = "issued" => n.org = Home /\ n.decision \in DOMAIN ledger.run
    /\ o \in DOMAIN ledger'.ticket => n.stage \in {"issued", "closing", "stranded"}
    /\ n.answer = "view" /\ reader[o].answer # "view" =>
         /\ ValidTicket(o) /\ o \notin DOMAIN ledger'.ticket
         /\ reader[o].stage = "issued" /\ n.view = ViewOf(reader[o].decision)

LEMMA AuthorizeGoesOn ==
  ASSUME RowsAreSound, ReadersAreSound, NEW o \in Operators, NEW org, NEW d \in Decisions,
         AuthorizeOperator(o, org, d)
  PROVE  TicketsOnly(o) /\ \E n : CallGoesOn(o, n)
<1>1. PICK n : n = [IdleReader EXCEPT !.stage = "authorized", !.org = org, !.decision = d]
  OBVIOUS
<1>2. /\ reader[o].stage = "idle" /\ OrgOfOperator[o] = org /\ UNCHANGED ledger
      /\ reader' = [reader EXCEPT ![o] = n]
  BY <1>1, Zenon DEF AuthorizeOperator, ReaderStep
<1>3. PICK home, none, rows : home = Home /\ none = NotSet /\ rows = NoRows
  OBVIOUS
<1>4. ReaderIs(IdleReader, "idle", home, none, "none", rows)
  BY <1>3, Zenon DEF IdleReader, ReaderIs
<1>5. ReaderIs(n, "authorized", org, d, "none", rows)
  BY <1>1, <1>3, ZenonT(60) DEF IdleReader, ReaderIs
<1>6. /\ n.stage = "authorized" /\ n.org = org /\ n.decision = d /\ n.answer = "none" /\ Call(n)
  BY <1>5, CallValues, Zenon
<1>7. o \notin DOMAIN ledger'.ticket
  BY <1>2, Zenon DEF ReadersAreSound
<1> QED
  BY <1>2, <1>6, <1>7, TicketTables, Zenon DEF CallGoesOn

\* A call that is under way keeps its question.
LEMMA UnderWay ==
  ASSUME ReadersAreSound, NEW o \in Operators, reader[o].stage # "idle",
         NEW n, reader' = [reader EXCEPT ![o] = n],
         NEW s, NEW a, NEW v, ReaderIs(n, s, reader[o].org, reader[o].decision, a, v),
         s \in {"issued", "closing", "closed", "stranded"},
         s = "issued" => reader[o].org = Home /\ reader[o].decision \in DOMAIN ledger.run,
         o \in DOMAIN ledger'.ticket => s # "closed",
         a = "view" /\ reader[o].answer # "view" =>
            /\ ValidTicket(o) /\ o \notin DOMAIN ledger'.ticket
            /\ reader[o].stage = "issued" /\ v = ViewOf(reader[o].decision)
  PROVE  CallGoesOn(o, n)
<1>1. PICK org, d : org = reader[o].org /\ d = reader[o].decision
  OBVIOUS
<1>2. /\ n.stage = s /\ n.org = org /\ n.decision = d /\ n.answer = a /\ n.view = v /\ Call(n)
  <2>1. ReaderIs(n, s, org, d, a, v)
    BY <1>1, Zenon
  <2> QED
    BY <2>1, CallValues, Zenon
<1>3. org = OrgOfOperator[o] /\ d \in Decisions
  BY <1>1, Zenon DEF ReadersAreSound
<1>4. s # "idle"
  OBVIOUS
<1> QED
  BY <1>1, <1>2, <1>3, <1>4, Zenon DEF CallGoesOn

LEMMA TicketGoesOn ==
  ASSUME RowsAreSound, ReadersAreSound, NEW o \in Operators, IssueTicket(o)
  PROVE  TicketsOnly(o) /\ \E n : CallGoesOn(o, n)
<1>1. /\ reader[o].stage = "authorized" /\ reader[o].stage # "idle" /\ o \in DOMAIN reader
      /\ Call(reader[o])
  BY Zenon DEF IssueTicket, ReadersAreSound
<1>2. TicketsOnly(o)
  BY TicketTables, Zenon DEF IssueTicket
<1>3. PICK r, org, d, was, view : /\ r = reader[o] /\ org = r.org /\ d = r.decision
                                  /\ was = r.answer /\ view = r.view
  OBVIOUS
<1>4. ReaderIs(r, "authorized", org, d, was, view)
  BY <1>1, <1>3, Zenon DEF Call
<1>5. CASE Ticketable(o) /\ reader' = [reader EXCEPT ![o].stage = "issued"]
  <2>1. PICK n : n = [r EXCEPT !.stage = "issued"]
    OBVIOUS
  <2>2. ReaderIs(n, "issued", org, d, was, view)
    BY <1>4, <2>1, CallUpdates, Zenon
  <2>3. reader' = [reader EXCEPT ![o] = n]
    BY <1>1, <1>3, <1>5, <2>1, Zenon
  <2>4. reader[o].org = Home /\ reader[o].decision \in DOMAIN ledger.run
    BY <1>5, Zenon DEF Ticketable
  <2>5. "issued" # "closed" /\ "issued" \in {"issued", "closing", "closed", "stranded"}
    OBVIOUS
  <2> QED
    BY <1>1, <1>2, <1>3, <2>2, <2>3, <2>4, <2>5, UnderWay, Zenon
<1>6. ASSUME NEW a \in {"nothing", "unavailable"},
             reader' = [reader EXCEPT ![o].stage = "closing", ![o].answer = a]
      PROVE  \E n : CallGoesOn(o, n)
  <2>1. PICK n : n = [r EXCEPT !.stage = "closing", !.answer = a]
    OBVIOUS
  <2>2. ReaderIs(n, "closing", org, d, a, view)
    BY <1>4, <2>1, CallUpdates, Zenon
  <2>3. reader' = [reader EXCEPT ![o] = n]
    BY <1>1, <1>3, <1>6, <2>1, Zenon
  <2>4. /\ "closing" # "closed" /\ "closing" \in {"issued", "closing", "closed", "stranded"}
        /\ "closing" # "issued" /\ a # "view"
    OBVIOUS
  <2> QED
    BY <1>1, <1>3, <2>2, <2>3, <2>4, UnderWay, Zenon
<1> QED
  BY <1>2, <1>5, <1>6, Zenon DEF IssueTicket

LEMMA ReadGoesOn ==
  ASSUME RowsAreSound, ReadersAreSound, NEW o \in Operators, ReadByTicket(o)
  PROVE  TicketsOnly(o) /\ \E n : CallGoesOn(o, n)
<1>1. /\ reader[o].stage = "issued" /\ reader[o].stage # "idle" /\ o \in DOMAIN reader
      /\ Call(reader[o])
  BY Zenon DEF ReadByTicket, ReadersAreSound
<1>2. TicketsOnly(o)
  BY TicketTables, Zenon DEF ReadByTicket
<1>3. PICK r, org, d, was, view : /\ r = reader[o] /\ org = r.org /\ d = r.decision
                                  /\ was = r.answer /\ view = r.view
  OBVIOUS
<1>4. ReaderIs(r, "issued", org, d, was, view)
  BY <1>1, <1>3, Zenon DEF Call
<1>5. /\ "closing" # "closed" /\ "closing" \in {"issued", "closing", "closed", "stranded"}
      /\ "closing" # "issued"
  OBVIOUS
<1>6. CASE ledger' = Unticketed(o) /\ ShowView(o)
  <2>1. PICK v, a : /\ v = IF ValidTicket(o) THEN ViewOf(reader[o].decision) ELSE NoRows
                    /\ a = IF ValidTicket(o) THEN "view" ELSE "nothing"
    OBVIOUS
  <2>2. PICK n : n = [r EXCEPT !.stage = "closing", !.view = v, !.answer = a]
    OBVIOUS
  <2>3. ReaderIs(n, "closing", org, d, a, v)
    BY <1>4, <2>2, CallUpdates, Zenon
  <2>4. reader' = [reader EXCEPT ![o] = n]
    BY <1>1, <1>3, <1>6, <2>1, <2>2, Zenon DEF ShowView
  <2>5. a = "view" => ValidTicket(o) /\ v = ViewOf(reader[o].decision)
    BY <2>1, Zenon
  <2>6. o \notin DOMAIN ledger'.ticket
    BY <1>6, TicketTables, Zenon
  <2> QED
    BY <1>1, <1>2, <1>3, <1>5, <2>3, <2>4, <2>5, <2>6, UnderWay, Zenon
<1>7. CASE reader' = [reader EXCEPT ![o].stage = "closing", ![o].answer = "unavailable"]
  <2>1. PICK n : n = [r EXCEPT !.stage = "closing", !.answer = "unavailable"]
    OBVIOUS
  <2>2. ReaderIs(n, "closing", org, d, "unavailable", view)
    BY <1>4, <2>1, CallUpdates, Zenon
  <2>3. reader' = [reader EXCEPT ![o] = n]
    BY <1>1, <1>3, <1>7, <2>1, Zenon
  <2>4. "unavailable" # "view"
    OBVIOUS
  <2> QED
    BY <1>1, <1>2, <1>3, <1>5, <2>2, <2>3, <2>4, UnderWay, Zenon
<1> QED
  BY <1>6, <1>7, Zenon DEF ReadByTicket

LEMMA RevokeGoesOn ==
  ASSUME RowsAreSound, ReadersAreSound, NEW o \in Operators, RevokeTicket(o)
  PROVE  TicketsOnly(o) /\ \E n : CallGoesOn(o, n)
<1>1. /\ reader[o].stage = "closing" /\ reader[o].stage # "idle" /\ o \in DOMAIN reader
      /\ Call(reader[o])
  BY Zenon DEF RevokeTicket, ReadersAreSound
<1>2. TicketsOnly(o)
  BY TicketTables, Zenon DEF RevokeTicket
<1>3. PICK r, org, d, was, view : /\ r = reader[o] /\ org = r.org /\ d = r.decision
                                  /\ was = r.answer /\ view = r.view
  OBVIOUS
<1>4. ReaderIs(r, "closing", org, d, was, view)
  BY <1>1, <1>3, Zenon DEF Call
<1>5. CASE ledger' = Unticketed(o) /\ reader' = [reader EXCEPT ![o].stage = "closed"]
  <2>1. PICK n : n = [r EXCEPT !.stage = "closed"]
    OBVIOUS
  <2>2. ReaderIs(n, "closed", org, d, was, view)
    BY <1>4, <2>1, CallUpdates, Zenon
  <2>3. reader' = [reader EXCEPT ![o] = n] /\ was = reader[o].answer
    BY <1>1, <1>3, <1>5, <2>1, Zenon
  <2>4. o \notin DOMAIN ledger'.ticket
    BY <1>5, TicketTables, Zenon
  <2>5. "closed" \in {"issued", "closing", "closed", "stranded"} /\ "closed" # "issued"
    OBVIOUS
  <2> QED
    BY <1>1, <1>2, <1>3, <2>2, <2>3, <2>4, <2>5, UnderWay, Zenon
<1>6. CASE reader' = [reader EXCEPT ![o].stage = "stranded", ![o].view = NoRows,
                                    ![o].answer = "unavailable"]
  <2>1. PICK rows : rows = NoRows
    OBVIOUS
  <2>2. PICK n : n = [r EXCEPT !.stage = "stranded", !.view = rows, !.answer = "unavailable"]
    OBVIOUS
  <2>3. ReaderIs(n, "stranded", org, d, "unavailable", rows)
    BY <1>4, <2>2, CallUpdates, Zenon
  <2>4. reader' = [reader EXCEPT ![o] = n]
    BY <1>1, <1>3, <1>6, <2>1, <2>2, Zenon
  <2>5. /\ "stranded" \in {"issued", "closing", "closed", "stranded"} /\ "stranded" # "issued"
        /\ "stranded" # "closed" /\ "unavailable" # "view"
    OBVIOUS
  <2> QED
    BY <1>1, <1>2, <1>3, <2>3, <2>4, <2>5, UnderWay, Zenon
<1> QED
  BY <1>5, <1>6, Zenon DEF RevokeTicket

LEMMA StopGoesOn ==
  ASSUME RowsAreSound, ReadersAreSound, NEW o \in Operators, StopReader(o)
  PROVE  TicketsOnly(o) /\ \E n : CallGoesOn(o, n)
<1>1. /\ reader[o].stage # "idle" /\ o \in DOMAIN reader /\ Call(reader[o]) /\ UNCHANGED ledger
  BY Zenon DEF StopReader, ReaderStep, ReadersAreSound
<1>2. TicketsOnly(o)
  BY <1>1, TicketTables, Zenon
<1>3. PICK r, org, d, was, view, s : /\ r = reader[o] /\ org = r.org /\ d = r.decision
                                     /\ was = r.answer /\ view = r.view /\ s = r.stage
  OBVIOUS
<1>4. ReaderIs(r, s, org, d, was, view)
  BY <1>1, <1>3, Zenon DEF Call
<1>5. PICK rows : rows = NoRows
  OBVIOUS
<1>6. PICK n : n = [r EXCEPT !.stage = "stranded", !.answer = "lost", !.view = rows]
  OBVIOUS
<1>7. ReaderIs(n, "stranded", org, d, "lost", rows)
  BY <1>4, <1>6, CallUpdates, Zenon
<1>8. reader' = [reader EXCEPT ![o] = n]
  BY <1>3, <1>5, <1>6, Zenon DEF StopReader, ReaderStep
<1>9. /\ "stranded" \in {"issued", "closing", "closed", "stranded"} /\ "stranded" # "issued"
      /\ "stranded" # "closed" /\ "lost" # "view"
  OBVIOUS
<1> QED
  BY <1>1, <1>2, <1>3, <1>7, <1>8, <1>9, UnderWay, Zenon

\* Every step of a call.
LEMMA CallMoves ==
  ASSUME RowsAreSound, ReadersAreSound, NEW o \in Operators, ReaderCall(o)
  PROVE  TicketsOnly(o) /\ \E n : CallGoesOn(o, n)
BY AuthorizeGoesOn, TicketGoesOn, ReadGoesOn, RevokeGoesOn, StopGoesOn, Zenon DEF ReaderCall

LedgerInv == RequestsAreSound /\ RowsAreSound /\ ReadersAreSound

\* A call keeps the ledger and the other calls as they are.
LEMMA CallKeeps ==
  ASSUME LedgerInv, NEW o \in Operators, ReaderCall(o)
  PROVE  LedgerInv'
<1>0. RequestsAreSound /\ RowsAreSound /\ ReadersAreSound
  BY Zenon DEF LedgerInv
<1>1. TicketsOnly(o)
  BY <1>0, CallMoves, Zenon
<1>2. PICK n : CallGoesOn(o, n)
  BY <1>0, CallMoves, Zenon
<1>3. UNCHANGED <<world, resolve>>
  BY Zenon DEF ReaderCall, AuthorizeOperator, IssueTicket, ReadByTicket, RevokeTicket, StopReader,
       ReaderStep
<1>4. RequestsAreSound' /\ RowsAreSound'
  <2>1. WorldTypeOK'
    BY <1>0, <1>3, Zenon DEF RequestsAreSound, WorldTypeOK
  <2>2. /\ LedgerShape' /\ ledger'.evidence = ledger.evidence /\ ledger'.run = ledger.run
        /\ ledger'.audit = ledger.audit /\ ledger'.locator = ledger.locator
        /\ ledger'.grant = ledger.grant
    BY <1>1, Zenon DEF TicketsOnly
  <2> QED
    BY <1>0, <1>3, <2>1, <2>2, GrantsStay, EvidenceUntouched, WriteKeeps, Zenon
<1>5. ReadersAreSound'
  <2>1. /\ DOMAIN reader' = Operators /\ reader'[o] = n
        /\ \A p \in Operators : p # o => reader'[p] = reader[p]
    BY <1>0, <1>2, Zenon DEF CallGoesOn, ReadersAreSound
  <2>2. /\ ledger'.run = ledger.run /\ DOMAIN ledger'.ticket \subseteq DOMAIN ledger.ticket \cup {o}
    BY <1>1, Zenon DEF TicketsOnly
  <2>3. ASSUME NEW p \in Operators
        PROVE  /\ Call(reader'[p])
               /\ reader'[p].stage # "idle" =>
                    reader'[p].org = OrgOfOperator[p] /\ reader'[p].decision \in Decisions
               /\ reader'[p].stage = "issued" =>
                    reader'[p].org = Home /\ reader'[p].decision \in DOMAIN ledger'.run
    <3>1. CASE p = o
      BY <1>2, <2>1, <2>2, <3>1, Zenon DEF CallGoesOn
    <3>2. CASE p # o
      BY <1>0, <2>1, <2>2, <3>2, Zenon DEF ReadersAreSound
    <3> QED
      BY <3>1, <3>2, Zenon
  <2>4. ASSUME NEW p \in DOMAIN ledger'.ticket
        PROVE  p \in Operators /\ reader'[p].stage \in {"issued", "closing", "stranded"}
    <3>1. CASE p = o
      BY <1>2, <2>1, <3>1, Zenon DEF CallGoesOn
    <3>2. CASE p # o
      BY <1>0, <2>1, <2>2, <3>2, Zenon DEF ReadersAreSound
    <3> QED
      BY <3>1, <3>2, Zenon
  <2> QED
    BY <2>1, <2>3, <2>4, Zenon DEF ReadersAreSound, Call
<1> QED
  BY <1>4, <1>5, Zenon DEF LedgerInv

\* A step of anybody else leaves the calls alone.
LEMMA ReadersFrame ==
  ASSUME ReadersAreSound, UNCHANGED reader, ledger'.ticket = ledger.ticket,
         DOMAIN ledger.run \subseteq DOMAIN ledger'.run
  PROVE  ReadersAreSound'
BY Zenon DEF ReadersAreSound, Call

-----------------------------------------------------------------------------
(* The theorems                                                            *)

\* Before the first request there is no row.
LEMMA LedgerStart == LedgerInit => LedgerInv
<1> SUFFICES ASSUME LedgerInit
             PROVE  LedgerInv
  OBVIOUS
<1>1. DOMAIN NoRows = {}
  BY Zenon DEF NoRows
<1>2. PICK rows : rows = NoRows
  OBVIOUS
<1>3. Tables(ledger, rows, rows, rows, rows, rows, rows)
  BY <1>2, Zenon DEF LedgerInit, Tables
<1>4. /\ ledger.evidence = rows /\ ledger.run = rows /\ ledger.audit = rows
      /\ ledger.locator = rows /\ ledger.grant = rows /\ ledger.ticket = rows
  BY <1>3, TableValues, Zenon
<1>5. LedgerShape /\ DOMAIN rows = {}
  BY <1>1, <1>2, <1>3, <1>4, Zenon DEF LedgerShape
<1>6. WorldTypeOK
  <2>1. 0 \in 0 .. LedgerClock /\ 1 \in 1 .. LedgerEpochs /\ 1 \in 1 .. 2
    BY LedgerAssumption, SMT
  <2> QED
    BY <2>1, Zenon DEF LedgerInit, WorldTypeOK
<1>7. RequestsAreSound
  BY <1>6, IdleIsSound, Zenon DEF LedgerInit, RequestsAreSound
<1>8. RowsAreSound
  <2>1. Idle.stage = "idle" /\ Idle.answer = "none"
    BY Zenon DEF Idle
  <2>2. ASSUME NEW d \in Decisions PROVE RowsBelong(d) /\ AnswerAgrees(d)
    BY <1>4, <1>5, <2>1, Zenon DEF LedgerInit, RowsBelong, AnswerAgrees
  <2>3. EvidenceIsSound
    BY <1>4, <1>5, Zenon DEF EvidenceIsSound
  <2> QED
    BY <1>4, <1>5, <2>2, <2>3, Zenon DEF RowsAreSound
<1>9. ReadersAreSound
  <2>1. PICK home, none : home = Home /\ none = NotSet
    OBVIOUS
  <2>2. ReaderIs(IdleReader, "idle", home, none, "none", rows)
    BY <1>2, <2>1, Zenon DEF IdleReader, ReaderIs
  <2>3. IdleReader.stage = "idle" /\ Call(IdleReader)
    BY <2>2, CallValues, Zenon
  <2> QED
    BY <1>4, <1>5, <2>3, Zenon DEF LedgerInit, ReadersAreSound
<1> QED
  BY <1>7, <1>8, <1>9, Zenon DEF LedgerInv

\* Every step keeps requests, rows and calls sound.
LEMMA LedgerStep ==
  ASSUME LedgerInv, [LedgerNext]_ledgerVars
  PROVE  LedgerInv'
<1>0. RequestsAreSound /\ RowsAreSound /\ ReadersAreSound
  BY Zenon DEF LedgerInv
<1>1. CASE UNCHANGED ledgerVars
  BY <1>0, <1>1, Zenon DEF ledgerVars, LedgerInv, RequestsAreSound, RowsAreSound, ReadersAreSound,
       WorldTypeOK, Backed, LedgerShape, EvidenceIsSound, RowsBelong, AnswerAgrees, Call
<1>2. CASE LedgerTick \/ AdvanceLedgerEpoch \/ EndMembership \/ PublishRevision
  <2>1. UNCHANGED <<ledger, reader>>
    BY <1>2, Zenon DEF LedgerTick, AdvanceLedgerEpoch, EndMembership, PublishRevision
  <2>2. ReadersAreSound'
    BY <1>0, <2>1, ReadersFrame, Zenon
  <2> QED
    BY <1>0, <1>2, <2>2, WorldSteps, Zenon DEF LedgerInv
<1>3. ASSUME NEW d \in Decisions, ResolveStep(d)
      PROVE  LedgerInv'
  <2>1. CASE Commit(d)
    <3>1. ledger'.run = Insert(ledger.run, d, RunOf(d)) /\ ledger'.ticket = ledger.ticket
      BY <1>0, <2>1, CommitTables, Zenon
    <3>2. DOMAIN ledger.run \subseteq DOMAIN ledger'.run
      BY <3>1, Zenon DEF Insert
    <3>3. UNCHANGED reader
      BY <2>1, Zenon DEF Commit
    <3>4. ReadersAreSound'
      BY <1>0, <3>1, <3>2, <3>3, ReadersFrame, Zenon
    <3> QED
      BY <1>0, <2>1, <3>4, CommitRequests, CommitRows, Zenon DEF LedgerInv
  <2>2. CASE ~Commit(d)
    <3>1. Moves(d)
      BY <1>0, <1>3, <2>2, RequestMoves, Zenon
    <3>2. UNCHANGED <<ledger, reader>>
      BY <3>1, Zenon DEF Moves
    <3>3. ReadersAreSound'
      BY <1>0, <3>2, ReadersFrame, Zenon
    <3> QED
      BY <1>0, <3>1, <3>3, MovesKeep, Zenon DEF LedgerInv
  <2> QED
    BY <2>1, <2>2, Zenon
<1>4. ASSUME RequestsAreSound', RowsAreSound', ledger'.run = ledger.run,
             ledger'.ticket = ledger.ticket, UNCHANGED reader
      PROVE  LedgerInv'
  BY <1>0, <1>4, ReadersFrame, Zenon DEF LedgerInv
<1>5. CASE \E e \in EvidenceRefs, rid \in RequestIds, kind \in {"acquire", "open"} :
              IssueEvidence(e, rid, kind)
  BY <1>0, <1>4, <1>5, IssueKeeps, Zenon
<1>6. CASE DeleteExpiredEvidence
  BY <1>0, <1>4, <1>6, EvidenceRetention, Zenon
<1>7. CASE DeleteExpiredLineage
  BY <1>0, <1>4, <1>7, LocatorRetentionKeeps, Zenon
<1>8. CASE \E d \in Decisions, exact \in {"yes", "no"} : RedeemGrant(d, exact)
  BY <1>0, <1>4, <1>8, GrantRedemption, Zenon
<1>9. CASE \E o \in Operators : ReaderCall(o)
  BY <1>9, CallKeeps, Zenon
<1> QED
  BY <1>1, <1>2, <1>3, <1>5, <1>6, <1>7, <1>8, <1>9, Zenon DEF LedgerNext

\* Requests, rows and the operators' calls fit together throughout.
THEOREM LedgerInvariant == LedgerSpec => []LedgerInv
BY LedgerStart, LedgerStep, PTL DEF LedgerSpec

\* The rows and answers of the request path have their types
\* (context_run, decision_audit, citation_open_locator, egress_grant).
THEOREM LedgerTypes == LedgerSpec => []LedgerTypeOK
<1>1. LedgerInv => LedgerTypeOK
  <2> SUFFICES ASSUME LedgerInv
               PROVE  LedgerTypeOK
    OBVIOUS
  <2>1. RequestsAreSound /\ RowsAreSound /\ ReadersAreSound
    BY Zenon DEF LedgerInv
  <2>2. \A d \in Decisions : resolve[d].stage \in Stages /\ resolve[d].answer \in Answers \cup {"none"}
    BY <2>1, Zenon DEF RequestsAreSound, Request
  <2>3. /\ \A d \in DOMAIN ledger.run : ledger.run[d] \in ContextRunRecord
        /\ \A d \in DOMAIN ledger.audit : ledger.audit[d] \in DecisionAudit
        /\ \A d \in DOMAIN ledger.locator : ledger.locator[d] \in Locator
        /\ \A d \in DOMAIN ledger.grant : ledger.grant[d] \in Grant
    BY <2>1, Zenon DEF RowsAreSound, RowsBelong
  <2> QED
    BY <2>1, <2>2, <2>3, Zenon DEF LedgerTypeOK, RequestsAreSound, WorldTypeOK, RowsAreSound,
         EvidenceIsSound, ReadersAreSound
<1> QED
  BY <1>1, LedgerInvariant, PTL

\* A trail with one consumption at most has at most one entry of it.
LEMMA ConsumptionsCounted ==
  ASSUME NEW trail, ConsumedOnce(trail)
  PROVE  Cardinality({i \in DOMAIN trail : trail[i] = "consumed"}) <= 1
<1> DEFINE C == {i \in DOMAIN trail : trail[i] = "consumed"}
<1>1. CASE C = {}
  BY <1>1, FS_EmptySet, SMT
<1>2. CASE C # {}
  <2>1. PICK i \in C : TRUE
    BY <1>2, Zenon
  <2>2. C = {i}
    BY <2>1, Zenon DEF ConsumedOnce
  <2>3. Cardinality({i}) = 1
    BY FS_Singleton, Zenon
  <2>4. Cardinality(C) = 1
    BY <2>2, <2>3, Zenon
  <2> QED
    BY <2>4, SMT
<1> QED
  BY <1>1, <1>2, Zenon

\* However a request ends, the ledger holds all of its rows or none, and the
\* answer says which unless it is a 503 or was lost (resolve_context,
\* current_user_actor, persist_context_run, and the functions of 0007, 0019,
\* 0020 and 0024 they call).
THEOREM LedgersAreWhole == LedgerSpec => []LedgerIsWhole
<1>1. LedgerInv => LedgerIsWhole
  <2> SUFFICES ASSUME LedgerInv, NEW d \in Decisions
               PROVE  LET recorded == d \in DOMAIN ledger.run
                          run == ledger.run[d]
        IN  /\ resolve[d].answer = "resolved" => recorded
            /\ resolve[d].answer \in NothingStored => ~recorded
            /\ d \in DOMAIN ledger.audit <=> recorded /\ run.outcome = "empty"
            /\ d \in DOMAIN ledger.audit => IsEmptyParent(run, ledger.audit[d])
            /\ d \in DOMAIN ledger.locator =>
                 recorded /\ run.revision = ledger.locator[d].revision
            /\ d \in DOMAIN ledger.grant =>
                 /\ recorded /\ ledger.grant[d].epoch = run.epoch
                 /\ Cardinality({i \in DOMAIN ledger.grant[d].trail :
                                   ledger.grant[d].trail[i] = "consumed"}) <= 1
            /\ recorded => run \in ContextRunRecord
    BY Zenon DEF LedgerIsWhole
  <2>1. RowsBelong(d) /\ AnswerAgrees(d)
    BY Zenon DEF LedgerInv, RowsAreSound
  <2>2. d \in DOMAIN ledger.grant =>
          Cardinality({i \in DOMAIN ledger.grant[d].trail :
                         ledger.grant[d].trail[i] = "consumed"}) <= 1
    <3>1. PICK trail : trail = ledger.grant[d].trail
      OBVIOUS
    <3>2. d \in DOMAIN ledger.grant => ConsumedOnce(trail)
      BY <2>1, <3>1, Zenon DEF RowsBelong
    <3>3. d \in DOMAIN ledger.grant => Cardinality({i \in DOMAIN trail : trail[i] = "consumed"}) <= 1
      BY <3>2, ConsumptionsCounted, Zenon
    <3> QED
      BY <3>1, <3>3, Zenon
  <2> QED
    BY <2>1, <2>2, Zenon DEF RowsBelong, AnswerAgrees
<1> QED
  BY <1>1, LedgerInvariant, PTL


-----------------------------------------------------------------------------
(* What a step does to runs, redemptions and calls                         *)

\* A new run is backed by the evidence it redeemed.
NewRunsAreBacked ==
    \A d \in DOMAIN ledger'.run \ DOMAIN ledger.run :
        LET run == ledger'.run[d] IN
        run.evidence # NotSet =>
          /\ run.evidence \in DOMAIN ledger'.evidence
          /\ LET row == ledger'.evidence[run.evidence] IN
             /\ row.rid = run.rid /\ row.kind = run.kind /\ row.epoch = run.epoch
             /\ row.first # Unredeemed
             /\ row.issued <= row.first[1] /\ row.first[1] < row.expires

\* A first redemption stands.
FirstsStand ==
    \A e \in DOMAIN ledger.evidence \cap DOMAIN ledger'.evidence :
        ledger.evidence[e].first # Unredeemed =>
          ledger'.evidence[e].first = ledger.evidence[e].first

\* A view costs a ticket and shows the audit of an empty run.
ViewsArePaid ==
    \A o \in Operators :
        reader[o].answer # "view" /\ reader'[o].answer = "view" =>
          /\ o \in DOMAIN ledger.ticket /\ world.now < ledger.ticket[o]
          /\ o \notin DOMAIN ledger'.ticket
          /\ OrgOfOperator[o] = Home
          /\ Cardinality(reader'[o].view.audit)
               = (IF reader'[o].view.run.outcome = "empty" THEN 1 ELSE 0)

\* A commit records one run, and its evidence is there.
LEMMA CommitIsBacked ==
  ASSUME RequestsAreSound, RowsAreSound, NEW d \in Decisions, Commit(d)
  PROVE  NewRunsAreBacked /\ FirstsStand /\ ViewsArePaid
<1>1. resolve[d].stage = "recorded" /\ UNCHANGED reader
  BY Zenon DEF Commit
<1>2. /\ \A e \in DOMAIN ledger.evidence : EvidenceStays(e)
      /\ EvidenceIsSound'
      /\ resolve[d].evidence # NotSet =>
           /\ resolve[d].evidence \in DOMAIN ledger.evidence
           /\ ledger'.evidence[resolve[d].evidence].first # Unredeemed
  BY CommitEvidence, Zenon
<1>3. /\ RunOf(d).evidence = resolve[d].evidence /\ RunOf(d).rid = resolve[d].rid
      /\ RunOf(d).kind = resolve[d].kind /\ RunOf(d).epoch = resolve[d].epoch
  BY <1>1, CommittedRows, Zenon
<1>4. ledger'.run = Insert(ledger.run, d, RunOf(d))
  BY CommitTables, Zenon
<1>5. /\ ledger'.run[d] = RunOf(d) /\ DOMAIN ledger'.run \ DOMAIN ledger.run \subseteq {d}
  BY <1>4, Zenon DEF Insert
<1>6. resolve[d].evidence # NotSet => Backed(resolve[d])
  BY <1>1, Zenon DEF RequestsAreSound, Sound, Trusted
<1>7. NewRunsAreBacked
  <2> SUFFICES ASSUME resolve[d].evidence # NotSet
               PROVE  /\ resolve[d].evidence \in DOMAIN ledger'.evidence
                      /\ LET row == ledger'.evidence[resolve[d].evidence] IN
                         /\ row.rid = resolve[d].rid /\ row.kind = resolve[d].kind
                         /\ row.epoch = resolve[d].epoch
                         /\ row.first # Unredeemed
                         /\ row.issued <= row.first[1] /\ row.first[1] < row.expires
    BY <1>3, <1>5, Zenon DEF NewRunsAreBacked
  <2>1. PICK e : e = resolve[d].evidence
    OBVIOUS
  <2>2. e \in DOMAIN ledger.evidence /\ EvidenceStays(e) /\ Backed(resolve[d])
    BY <1>2, <1>6, <2>1, Zenon
  <2>3. e \in DOMAIN ledger'.evidence /\ ledger'.evidence[e].first # Unredeemed
    BY <1>2, <2>1, <2>2, Zenon DEF EvidenceStays
  <2>4. InWindow(ledger'.evidence[e], ledger'.evidence[e].first[1])
    BY <1>2, <2>3, Zenon DEF EvidenceIsSound, InWindow
  <2>5. /\ ledger'.evidence[e].rid = resolve[d].rid /\ ledger'.evidence[e].kind = resolve[d].kind
        /\ ledger'.evidence[e].epoch = resolve[d].epoch
    BY <2>1, <2>2, Zenon DEF EvidenceStays, Backed
  <2> QED
    BY <2>1, <2>3, <2>4, <2>5, Zenon DEF InWindow
<1>8. FirstsStand
  BY <1>2, Zenon DEF FirstsStand, EvidenceStays
<1> QED
  BY <1>1, <1>7, <1>8, Zenon DEF ViewsArePaid

\* A call pays for its view.
LEMMA CallPays ==
  ASSUME LedgerInv, NEW o \in Operators, ReaderCall(o)
  PROVE  NewRunsAreBacked /\ FirstsStand /\ ViewsArePaid
<1>0. RequestsAreSound /\ RowsAreSound /\ ReadersAreSound
  BY Zenon DEF LedgerInv
<1>1. ledger'.run = ledger.run /\ ledger'.evidence = ledger.evidence
  BY <1>0, CallMoves, Zenon DEF TicketsOnly
<1>2. PICK n : CallGoesOn(o, n)
  BY <1>0, CallMoves, Zenon
<1>3. reader'[o] = n /\ \A p \in Operators : p # o => reader'[p] = reader[p]
  BY <1>0, <1>2, Zenon DEF CallGoesOn, ReadersAreSound
<1>4. ViewsArePaid
  <2> SUFFICES ASSUME reader[o].answer # "view", n.answer = "view"
               PROVE  /\ o \in DOMAIN ledger.ticket /\ world.now < ledger.ticket[o]
                      /\ o \notin DOMAIN ledger'.ticket
                      /\ OrgOfOperator[o] = Home
                      /\ Cardinality(n.view.audit)
                           = (IF n.view.run.outcome = "empty" THEN 1 ELSE 0)
    BY <1>3, Zenon DEF ViewsArePaid
  <2>1. PICK d : d = reader[o].decision
    OBVIOUS
  <2>2. /\ ValidTicket(o) /\ o \notin DOMAIN ledger'.ticket
        /\ reader[o].stage = "issued" /\ n.view = ViewOf(d)
    BY <1>2, <2>1, Zenon DEF CallGoesOn
  <2>3. OrgOfOperator[o] = Home /\ d \in DOMAIN ledger.run /\ d \in Decisions
    BY <1>0, <2>1, <2>2, Zenon DEF ReadersAreSound
  <2>4. d \in DOMAIN ledger.audit <=> ledger.run[d].outcome = "empty"
    BY <1>0, <2>3, Zenon DEF RowsAreSound, RowsBelong
  <2>5. PICK audits : audits = IF d \in DOMAIN ledger.audit THEN {ledger.audit[d]} ELSE {}
    OBVIOUS
  <2>6. n.view.audit = audits /\ n.view.run = ledger.run[d]
    <3>1. PICK run, view : run = ledger.run[d] /\ view = n.view
      OBVIOUS
    <3>2. view = [run |-> run, audit |-> audits]
      BY <2>2, <2>5, <3>1, Zenon DEF ViewOf
    <3>3. view.audit = audits /\ view.run = run
      BY <3>2, SMT
    <3> QED
      BY <3>1, <3>3, Zenon
  <2>7. Cardinality(audits) = IF d \in DOMAIN ledger.audit THEN 1 ELSE 0
    <3>1. CASE d \in DOMAIN ledger.audit
      <4>1. PICK row : row = ledger.audit[d]
        OBVIOUS
      <4>2. Cardinality({row}) = 1
        BY FS_Singleton, Zenon
      <4> QED
        BY <2>5, <3>1, <4>1, <4>2, Zenon
    <3>2. CASE d \notin DOMAIN ledger.audit
      BY <2>5, <3>2, FS_EmptySet, Zenon
    <3> QED
      BY <3>1, <3>2, Zenon
  <2>8. Cardinality(n.view.audit) = IF n.view.run.outcome = "empty" THEN 1 ELSE 0
    BY <2>4, <2>6, <2>7, Zenon
  <2> QED
    BY <2>2, <2>3, <2>8, Zenon DEF ValidTicket
<1> QED
  BY <1>1, <1>4, Zenon DEF NewRunsAreBacked, FirstsStand


\* No step leaves a run without its evidence, a redemption moved, or a view
\* unpaid.
LEMMA StepIsBacked ==
  ASSUME LedgerInv, [LedgerNext]_ledgerVars
  PROVE  NewRunsAreBacked /\ FirstsStand /\ ViewsArePaid
<1>0. RequestsAreSound /\ RowsAreSound /\ ReadersAreSound
  BY Zenon DEF LedgerInv
<1>1. ASSUME ledger'.run = ledger.run, UNCHANGED reader,
             \A e \in DOMAIN ledger.evidence :
                e \in DOMAIN ledger'.evidence /\ ledger.evidence[e].first # Unredeemed =>
                  ledger'.evidence[e].first = ledger.evidence[e].first
      PROVE  NewRunsAreBacked /\ FirstsStand /\ ViewsArePaid
  BY <1>1, Zenon DEF NewRunsAreBacked, FirstsStand, ViewsArePaid
<1>2. CASE UNCHANGED ledgerVars
  BY <1>1, <1>2, Zenon DEF ledgerVars
<1>3. CASE LedgerTick \/ AdvanceLedgerEpoch \/ EndMembership \/ PublishRevision
  <2>1. UNCHANGED <<ledger, reader>>
    BY <1>3, Zenon DEF LedgerTick, AdvanceLedgerEpoch, EndMembership, PublishRevision
  <2> QED
    BY <1>1, <2>1, Zenon
<1>4. ASSUME NEW d \in Decisions, ResolveStep(d)
      PROVE  NewRunsAreBacked /\ FirstsStand /\ ViewsArePaid
  <2>1. CASE Commit(d)
    BY <1>0, <2>1, CommitIsBacked, Zenon
  <2>2. CASE ~Commit(d)
    <3>1. Moves(d)
      BY <1>0, <1>4, <2>2, RequestMoves, Zenon
    <3>2. UNCHANGED <<ledger, reader>>
      BY <3>1, Zenon DEF Moves
    <3> QED
      BY <1>1, <3>2, Zenon
  <2> QED
    BY <2>1, <2>2, Zenon
<1>5. CASE \E e \in EvidenceRefs, rid \in RequestIds, kind \in {"acquire", "open"} :
              IssueEvidence(e, rid, kind)
  BY <1>0, <1>1, <1>5, IssueKeeps, Zenon DEF EvidenceStays
<1>6. CASE DeleteExpiredEvidence
  BY <1>0, <1>1, <1>6, EvidenceRetention, Zenon
<1>7. CASE DeleteExpiredLineage
  BY <1>0, <1>1, <1>7, LocatorRetentionKeeps, Zenon
<1>8. CASE \E d \in Decisions, exact \in {"yes", "no"} : RedeemGrant(d, exact)
  BY <1>0, <1>1, <1>8, GrantRedemption, Zenon
<1>9. CASE \E o \in Operators : ReaderCall(o)
  BY <1>9, CallPays, Zenon
<1> QED
  BY <1>2, <1>3, <1>4, <1>5, <1>6, <1>7, <1>8, <1>9, Zenon DEF LedgerNext

\* A private run commits only on evidence that is stored, its own and redeemed
\* in its window; a first redemption never moves; a decision is shown to its own
\* Organization at the cost of a valid ticket, with its audit; and no ticket
\* survives a call that ended well (0019, 0020, 0024, find_by_decision_ref).
THEOREM RunsAndReadsBacked == LedgerSpec => RunsAndReadsAreBacked
<1>1. LedgerInv /\ [LedgerNext]_ledgerVars =>
      [/\ \A d \in DOMAIN ledger'.run \ DOMAIN ledger.run :
            LET run == ledger'.run[d] IN
            run.evidence # NotSet =>
              /\ run.evidence \in DOMAIN ledger'.evidence
              /\ LET row == ledger'.evidence[run.evidence] IN
                 /\ row.rid = run.rid /\ row.kind = run.kind /\ row.epoch = run.epoch
                 /\ row.first # Unredeemed
                 /\ row.issued <= row.first[1] /\ row.first[1] < row.expires
       /\ \A e \in DOMAIN ledger.evidence \cap DOMAIN ledger'.evidence :
            ledger.evidence[e].first # Unredeemed =>
              ledger'.evidence[e].first = ledger.evidence[e].first
       /\ \A o \in Operators :
            reader[o].answer # "view" /\ reader'[o].answer = "view" =>
              /\ o \in DOMAIN ledger.ticket /\ world.now < ledger.ticket[o]
              /\ o \notin DOMAIN ledger'.ticket
              /\ OrgOfOperator[o] = Home
              /\ Cardinality(reader'[o].view.audit)
                   = (IF reader'[o].view.run.outcome = "empty" THEN 1 ELSE 0)
       /\ \A o \in DOMAIN ledger'.ticket :
            reader'[o].stage \in {"issued", "closing", "stranded"}]_ledgerVars
  <2> SUFFICES ASSUME LedgerInv, [LedgerNext]_ledgerVars
               PROVE  /\ NewRunsAreBacked /\ FirstsStand /\ ViewsArePaid
                      /\ \A o \in DOMAIN ledger'.ticket :
                           reader'[o].stage \in {"issued", "closing", "stranded"}
    BY Zenon DEF NewRunsAreBacked, FirstsStand, ViewsArePaid
  <2>1. ReadersAreSound'
    BY LedgerStep, Zenon DEF LedgerInv
  <2> QED
    BY <2>1, StepIsBacked, Zenon DEF ReadersAreSound
<1> QED
  BY <1>1, LedgerInvariant, PTL DEF LedgerSpec, RunsAndReadsAreBacked
=============================================================================
