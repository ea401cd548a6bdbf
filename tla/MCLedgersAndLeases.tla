------------------------ MODULE MCLedgersAndLeases ------------------------
(* The ledgers and leases around a delivery, for TLC.  A behaviour is one   *)
(* of the rows a request leaves (DeliveryLedger, in three parts: two        *)
(* requests that redeem the same evidence; a request, the citation it       *)
(* leaves and the grant; a request and an operator's reading), of the       *)
(* Supply bridge (SupplyBridge), of one Feishu ACL being flattened          *)
(* (FeishuGroups), of the signed leases of no-op jobs (WorkerLease) or of   *)
(* the golden corpus (GoldenCorpus: backups, or locks and admissions);      *)
(* `part` says which: they share no state.                                  *)
EXTENDS DeliveryLedger, SupplyBridge, WorkerLease, FeishuGroups, GoldenCorpus, TLC

VARIABLES part, acl

-----------------------------------------------------------------------------
(* DeliveryLedger.                                                         *)

CONSTANTS First, Second

MCEgressOf == (First :> "external") @@ (Second :> "internal")
MCOrgOfOperator == [o \in Operators |-> IF o = "visitor" THEN "away" ELSE Home]

InOrder == [transport |-> "closed", credential |-> "verified", requestId |-> "valid",
            route |-> "allow", binding |-> "direct", organization |-> "existing"]
MCCarriers ==
    {InOrder, [InOrder EXCEPT !.binding = "private"],
     [InOrder EXCEPT !.transport = "invalid"], [InOrder EXCEPT !.credential = "rejected"],
     [InOrder EXCEPT !.requestId = "invalid"], [InOrder EXCEPT !.route = "forbid"],
     [InOrder EXCEPT !.route = "rate_limit"], [InOrder EXCEPT !.route = "unavailable"],
     [InOrder EXCEPT !.organization = "rejected"]}
MCHostSkew == {-1, 1}

Asks(d, kind, private) ==
    resolve'[d].stage \in {"received"} =>
        resolve'[d].kind = kind /\ (resolve'[d].evidence # NotSet) = private

NoRedemptions == \A d \in DOMAIN ledger'.grant : Len(ledger'.grant[d].trail) = 1
NoEvidence == DOMAIN ledger'.evidence = {}

PartStep ==
    CASE part = "retry" ->
           /\ \A d \in Decisions : Asks(d, "acquire", TRUE)
           /\ reader' = reader
           /\ world'.revision = 1 /\ world'.member = "active"
           /\ NoRedemptions /\ DOMAIN ledger'.locator \subseteq {First}
      [] part = "cite" ->
           /\ Asks(First, "acquire", FALSE)
           /\ \/ Asks(Second, "open", FALSE) \/ Asks(Second, "open", TRUE)
              \/ Asks(Second, "continue", FALSE)
           /\ First \notin DOMAIN ledger.run =>
                resolve'[Second] = resolve[Second] /\ world' = world
           /\ world'.member = "active"
           /\ resolve[Second].stage # "idle" => ledger'.grant = ledger.grant
           /\ reader' = reader
           /\ NoEvidence
      [] part = "read" ->
           /\ Asks(First, "acquire", FALSE)
           /\ resolve'[Second] = resolve[Second]
           /\ world' = [world EXCEPT !.now = world'.now, !.member = world'.member]
           /\ First \notin DOMAIN ledger.run => world'.now = world.now \/ world.now = 0
           /\ NoEvidence /\ NoRedemptions
           /\ \E o \in Operators : reader'[o] = IdleReader

\* The surroundings move while a request is still to be answered.
MCLedgerNext ==
    /\ LedgerNext /\ PartStep
    /\ resolve' = resolve /\ reader' = reader =>
         \E d \in Decisions : resolve[d].stage # "answered"

-----------------------------------------------------------------------------
(* SupplyBridge: a feed that is empty after its first page, and one that    *)
(* ends with a deletion.  The second runner starts while the first is busy. *)

CONSTANTS p1, p2, t1, t2, r1, r2

FeedPage(documents, deleted, next, mark) ==
    [documents |-> documents, deleted |-> deleted, next |-> next, mark |-> mark]
MCFeeds ==
    {(NoToken :> FeedPage({p1}, {}, t1, t1)) @@ (t1 :> FeedPage({}, {}, t1, t1))
       @@ (t2 :> FeedPage({}, {}, NoToken, t2)),
     (NoToken :> FeedPage({p1}, {}, t1, t1)) @@ (t1 :> FeedPage({}, {}, t2, t1))
       @@ (t2 :> FeedPage({p2}, {p1}, NoToken, t2))}

MCSupplyNext ==
    /\ SupplyNext
    /\ runner[r1] = IdleRunner /\ runner[r2] = IdleRunner => runner'[r2] = IdleRunner

-----------------------------------------------------------------------------
(* WorkerLease: the File token, which no receiver of a no-op job accepts,   *)
(* is there from the first instant or never.  The ServicePrincipal is        *)
(* disabled and the key rotated while the first worker is at work.          *)

CONSTANT w1

FileTokens(W) == {t \in W : t.document.job \in FileJobs}
MCLeaseNext ==
    /\ LeaseNext
    /\ leaseClock = 0 \/ FileTokens(wire') = FileTokens(wire)
    /\ redeeming[w1] = IdleWorker => UNCHANGED <<principal, keyring>>

-----------------------------------------------------------------------------
(* FeishuGroups: an ACL that names group g1 and perhaps a user, over every  *)
(* graph of three groups; the second one has a member.                      *)

MCGroup(ref) ==
    [local : {ref, Unmapped}, identities : {IF ref = "f2" THEN {"i2"} ELSE {}},
     children : SUBSET GroupRefs]
MCSnapshots ==
    UNION {{[ref \in known |-> IF ref = "f1" THEN n1 ELSE IF ref = "f2" THEN n2 ELSE n3] :
              n1 \in MCGroup("f1"), n2 \in MCGroup("f2"), n3 \in MCGroup("f3")} :
           known \in SUBSET GroupRefs}
MCMapper(m2) == [i \in IdentityRefs |-> IF i = "i1" THEN "reader" ELSE m2]
MCResponses ==
    [status : {"resolved", "failed"}, visibility : {"organization", "restricted"},
     users : {{}, {"i1"}}, groups : {{"f1"}}]

ObserveDocument ==
    /\ acl = <<>>
    /\ \E response \in MCResponses, nodes \in MCSnapshots,
          m2 \in {"reader", Unmapped, Unreadable} :
         acl' = <<[response |-> response, nodes |-> nodes, mapper |-> MCMapper(m2),
                   answer |-> Observe(response, nodes, MCMapper(m2))]>>

(* The observation of a Feishu document names exactly the groups and        *)
(* principals its ACL reaches (ObservesTheClosure, _flatten_groups and the  *)
(* observation built from it).                                              *)
ObservationsAreClosures ==
    \A i \in DOMAIN acl :
        ObservesTheClosure(acl[i].response, acl[i].nodes, acl[i].mapper, acl[i].answer)

-----------------------------------------------------------------------------
(* GoldenCorpus: Elder and Twin name one instant, Younger another.  Either   *)
(* Elder and Younger back up and restore while Elder also locks,            *)
(* undisturbed while it writes, with one edit or loss; or all three back up *)
(* while the pilot is edited; or Elder and Younger lock and admit.          *)

CONSTANTS Elder, Younger, Twin

MCInstantOf == (Elder :> 1) @@ (Younger :> 2) @@ (Twin :> 1)

LockStages == {"lock", "relock", "open", "write", "intake", "stage", "fill", "verify", "replace"}
BackupStages == {"collect", "mkdir", "copy", "clear", "remove", "rename"}
RestoreStages == {"create", "restore"}

MCCorpusNext ==
    /\ CorpusNext
    /\ part # "together" => curator'[Twin].pc = "idle"
    /\ part = "backups" =>
         /\ corpusEdits' <= 1
         /\ curator'[Elder].pc \notin {"relock", "intake", "create"}
         /\ curator[Elder].pc = "write" /\ curator'[Elder].pc = "idle" => corpus' # corpus
         /\ curator'[Younger].pc \notin LockStages
    /\ part = "together" =>
         /\ corpusEdits' <= 1 /\ Readable(corpus'["golden"])
         /\ \A o \in Curators : curator'[o].pc \notin LockStages \cup RestoreStages
    /\ part = "admission" =>
         \A o \in Curators : curator'[o].pc \notin BackupStages \cup RestoreStages

-----------------------------------------------------------------------------
LedgerParts == {"retry", "cite", "read"}
CorpusParts == {"backups", "together", "admission"}

MCInit ==
    /\ part \in LedgerParts \cup CorpusParts \cup {"supply", "groups", "lease"}
    /\ LedgerInit /\ SupplyInit /\ LeaseInit /\ CorpusInit
    /\ part # "supply" => connector = "file" /\ vault = [p \in Paths |-> Absent]
    /\ part \notin CorpusParts => corpus["golden"].pilot = CHOOSE p \in Pilots : TRUE
    /\ acl = <<>>

MCNext ==
    \/ /\ part \in LedgerParts /\ MCLedgerNext
       /\ UNCHANGED <<supplyVars, leaseVars, goldenVars, acl>>
    \/ /\ part = "supply" /\ MCSupplyNext
       /\ UNCHANGED <<ledgerVars, leaseVars, goldenVars, acl>>
    \/ /\ part = "groups" /\ ObserveDocument
       /\ UNCHANGED <<ledgerVars, supplyVars, leaseVars, goldenVars>>
    \/ /\ part = "lease" /\ MCLeaseNext
       /\ UNCHANGED <<ledgerVars, supplyVars, goldenVars, acl>>
    \/ /\ part \in CorpusParts /\ MCCorpusNext
       /\ UNCHANGED <<ledgerVars, supplyVars, leaseVars, acl>>

MCSpec ==
    /\ MCInit
    /\ [][MCNext /\ UNCHANGED part]_<<part, acl, ledgerVars, supplyVars, leaseVars, goldenVars>>
=============================================================================
