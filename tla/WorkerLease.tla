----------------------------- MODULE WorkerLease -----------------------------
(***************************************************************************)
(* The signed WorkerLease: one durable no-op job, the Control function     *)
(* that leases it, the token minted for the lease, and the worker that     *)
(* verifies a token and redeems it.  The database times a lease by the     *)
(* whole second of the issuing transaction and its redemption by the       *)
(* start of the redeeming statement; either transaction may then wait for  *)
(* the job row while time passes, so reading the clock and writing the row *)
(* are two steps.  A token may be lost, kept, duplicated, sent late, or    *)
(* sent to the receiver of another operation.  Keys are rotated.           *)
(***************************************************************************)
EXTENDS Integers, FiniteSets, TLC

CONSTANTS
    NoopJobs,          \* worker_noop_job rows
    FileJobs,          \* jobs that the same keyring leases for file.import
    LeaseWorkers,      \* worker processes
    LeaseIssuers,      \* transactions of the Control role
    TicksPerSecond,    \* resolution of the database clock
    TokenTtl,          \* lease_ttl_seconds
    LeaseClockBound,   \* bound: last tick
    KeyVersionBound    \* bound: last signing key version

ASSUME LeaseAssumption ==
    /\ NoopJobs \cap FileJobs = {}
    /\ TicksPerSecond \in Nat \ {0}
    /\ TokenTtl \in 1 .. 3600
    /\ LeaseClockBound \in Nat
    /\ KeyVersionBound \in Nat \ {0}

VARIABLES
    noopJob,      \* worker_noop_job
    principal,    \* service_principal.enabled
    keyring,      \* WorkerLeaseKeyring of the issuer and the worker
    wire,         \* tokens that left the issuer
    issuing,      \* Control transactions that have begun
    redeeming,    \* redemptions that the workers carry out
    completions,  \* WorkerNoOpCompletion receipts returned
    leaseClock

leaseVars == <<noopJob, principal, keyring, wire, issuing, redeeming,
               completions, leaseClock>>

Ticks == 0 .. LeaseClockBound
Never == -1
WholeSecond(tick) == tick - (tick % TicksPerSecond)

-----------------------------------------------------------------------------
(* Claims, keys and tokens (engine/supply/jobs.py).                        *)

Operations == {"noop.complete", "file.import", "connector.execute"}

\* The claims that only some operations bind; the others must be absent.
BoundClaims ==
    ("noop.complete" :> {}) @@
    ("file.import" :> {"source_ref", "lease_generation"}) @@
    ("connector.execute" :>
        {"source_version_ref", "lease_generation", "policy_epoch",
         "idempotency_key", "allowed_source_version_refs",
         "allowed_operations", "service_actor_expires_at"})

ClaimsAreClosed(claims) ==
    /\ claims.operation \in Operations
    /\ claims.expires > claims.issued
    /\ claims.issued = WholeSecond(claims.issued)
    /\ claims.expires = WholeSecond(claims.expires)
    /\ claims.binds = BoundClaims[claims.operation]

KeyringIsValid(ring) ==
    /\ ring.keys # {}
    /\ ring.keys \subseteq 1 .. KeyVersionBound
    /\ ring.active \in ring.keys

\* The header names the key and a version that belongs to one operation.
TokenVersion ==
    ("noop.complete" :> 1) @@ ("file.import" :> 3) @@ ("connector.execute" :> 4)

\* Only the claims of the operation are written into the document.
ClaimsDocument(claims) == [claims EXCEPT !.binds = BoundClaims[claims.operation]]

Token(ring, claims) ==
    [v |-> TokenVersion[claims.operation], kid |-> ring.active,
     document |-> ClaimsDocument(claims)]

CanMint(ring, claims) ==
    /\ KeyringIsValid(ring)
    /\ claims.version = ring.active
    /\ ClaimsAreClosed(claims)

\* A document in canonical form, with all the fields of its version and none
\* besides them.
HasExactFields(token) ==
    \E o \in Operations :
        TokenVersion[o] = token.v /\ token.document.binds = BoundClaims[o]

\* Header, key and signature first, then a document with exactly the fields
\* of the token version, whose operation is the one of that version.
VerifiesSigned(ring, token) ==
    /\ token.v \in {TokenVersion[o] : o \in Operations}
    /\ token.kid \in ring.keys
    /\ token.document.version = token.kid
    /\ TokenVersion[token.document.operation] = token.v
    /\ HasExactFields(token)
    /\ ClaimsAreClosed(token.document)

\* What a receiver of one operation accepts for one job, at its own clock.
Verifies(ring, token, job, operation, now) ==
    /\ VerifiesSigned(ring, token)
    /\ token.document.job = job
    /\ token.document.operation = operation
    /\ token.document.issued <= now
    /\ now < token.document.expires

-----------------------------------------------------------------------------
(* The durable rows (migration 0006).                                      *)

AvailableJob ==
    [state |-> "available", version |-> 0, nonce |-> 0, issued |-> Never,
     expires |-> Never, redeemed |-> Never, effects |-> 0]

\* ck_worker_noop_job_state_consistency
JobRowIsValid(row) ==
    \/ row = AvailableJob
    \/ /\ row.state = "leased"
       /\ row.version > 0 /\ row.nonce > 0
       /\ row.expires > row.issued
       /\ row.redeemed = Never
       /\ row.effects = 0
    \/ /\ row.state = "completed"
       /\ row.version > 0 /\ row.nonce > 0
       /\ row.expires > row.issued
       /\ row.redeemed >= row.issued
       /\ row.effects = 1

\* Row security shows a job and its ServicePrincipal only while it is enabled.
PrincipalAllows == principal = "enabled"

NoIssue == [job |-> "none", at |-> Never, nonce |-> 0]

IdleWorker == [pc |-> "idle", tokens |-> {}, at |-> Never]

\* Nonces are 256 random bits: no two are equal, so a count stands for them.
UsedNonces ==
    {noopJob[j].nonce : j \in NoopJobs} \cup {t.document.nonce : t \in wire}
        \cup {issuing[i].nonce : i \in LeaseIssuers}

FreshNonce == 1 + CHOOSE n \in UsedNonces : \A m \in UsedNonces : m <= n

LeaseInit ==
    /\ noopJob = [j \in NoopJobs |-> AvailableJob]
    /\ principal = "enabled"
    /\ keyring = [active |-> 1, keys |-> {1}]
    /\ wire = {}
    /\ issuing = [i \in LeaseIssuers |-> NoIssue]
    /\ redeeming = [w \in LeaseWorkers |-> IdleWorker]
    /\ completions = {}
    /\ leaseClock = 0

-----------------------------------------------------------------------------
(* Issuance.                                                               *)

\* The transaction begins: its timestamp is fixed, its nonce drawn.
BeginIssue(i, j) ==
    /\ issuing[i] = NoIssue
    /\ issuing' = [issuing EXCEPT ![i] =
                      [job |-> j, at |-> leaseClock, nonce |-> FreshNonce]]
    /\ UNCHANGED <<noopJob, principal, keyring, wire, redeeming, completions,
                   leaseClock>>

\* The row is available, or its lease is over at the issuing time.
Issuable(row, at) ==
    \/ row.state = "available"
    \/ row.state = "leased" /\ row.expires <= at

\* The claims that the issuer signs: times come from the database.
NoopClaims(j, at, nonce) ==
    [operation |-> "noop.complete", job |-> j, version |-> keyring.active,
     nonce |-> nonce, issued |-> at,
     expires |-> at + TokenTtl * TicksPerSecond, binds |-> {}]

FileImportClaims(j, at, nonce) ==
    [operation |-> "file.import", job |-> j, version |-> keyring.active,
     nonce |-> nonce, issued |-> at,
     expires |-> at + TokenTtl * TicksPerSecond,
     binds |-> BoundClaims["file.import"]]

\* context_worker_issue_noop_lease; the token is minted before the commit,
\* and its delivery may fail after it.
IssueNoopLease(i, delivered) ==
    LET j == issuing[i].job
        at == WholeSecond(issuing[i].at)
        claims == NoopClaims(j, at, issuing[i].nonce)
    IN /\ issuing[i] # NoIssue
       /\ issuing' = [issuing EXCEPT ![i] = NoIssue]
       /\ IF /\ Issuable(noopJob[j], at)
             /\ noopJob[j].effects = 0
             /\ PrincipalAllows
             /\ CanMint(keyring, claims)
          THEN /\ noopJob' = [noopJob EXCEPT ![j] =
                     [state |-> "leased", version |-> claims.version,
                      nonce |-> claims.nonce, issued |-> claims.issued,
                      expires |-> claims.expires, redeemed |-> Never,
                      effects |-> 0]]
               /\ wire' = IF delivered THEN wire \cup {Token(keyring, claims)}
                                       ELSE wire
          ELSE UNCHANGED <<noopJob, wire>>
       /\ UNCHANGED <<principal, keyring, redeeming, completions, leaseClock>>

\* A lease of the same keyring for a File import job.
IssueFileImportLease(j) ==
    LET claims == FileImportClaims(j, WholeSecond(leaseClock), FreshNonce)
    IN /\ \A t \in wire : t.document.job # j
       /\ CanMint(keyring, claims)
       /\ wire' = wire \cup {Token(keyring, claims)}
       /\ UNCHANGED <<noopJob, principal, keyring, issuing, redeeming,
                      completions, leaseClock>>

-----------------------------------------------------------------------------
(* Redemption: verify before the database is touched, then one statement.  *)

\* The worker's clock is whole seconds (_utc_now).
VerifyRedemption(w, t, j) ==
    /\ redeeming[w].pc = "idle"
    /\ Verifies(keyring, t, j, "noop.complete", WholeSecond(leaseClock))
    /\ redeeming' = [redeeming EXCEPT ![w] =
                        [pc |-> "verified", tokens |-> {t}, at |-> Never]]
    /\ UNCHANGED <<noopJob, principal, keyring, wire, issuing, completions,
                   leaseClock>>

\* statement_timestamp()
BeginCompletion(w) ==
    /\ redeeming[w].pc = "verified"
    /\ redeeming' = [redeeming EXCEPT ![w] =
                        [@ EXCEPT !.pc = "redeeming", !.at = leaseClock]]
    /\ UNCHANGED <<noopJob, principal, keyring, wire, issuing, completions,
                   leaseClock>>

HoldsSomeLease(row, claims, at) ==
    /\ row.state = "leased"
    /\ row.effects = 0
    /\ at >= row.issued
    /\ at < row.expires

\* The row still carries this very lease, and the statement is inside it.
HoldsLease(row, claims, at) ==
    /\ row.state = "leased"
    /\ row.effects = 0
    /\ row.version = claims.version
    /\ row.nonce = claims.nonce
    /\ row.issued = claims.issued
    /\ row.expires = claims.expires
    /\ at >= row.issued
    /\ at < row.expires

\* context_worker_complete_noop_job
CompletedRow(row, at) ==
    [row EXCEPT !.state = "completed", !.redeemed = at, !.effects = 1]

\* The completing statement, and the receipt that `complete_noop`
\* returns for it; the connection may fail after the commit, and then the
\* caller learns only that the authority is unavailable.
CompleteNoop(w, answered) ==
    LET t == CHOOSE x \in redeeming[w].tokens : TRUE
        j == t.document.job
        at == redeeming[w].at
    IN /\ redeeming[w].pc = "redeeming"
       /\ redeeming' = [redeeming EXCEPT ![w] = IdleWorker]
       /\ IF /\ j \in NoopJobs
             /\ HoldsLease(noopJob[j], t.document, at)
             /\ PrincipalAllows
          THEN /\ noopJob' = [noopJob EXCEPT ![j] = CompletedRow(@, at)]
               /\ completions' = IF answered
                                 THEN completions \cup {[worker |-> w, token |-> t]}
                                 ELSE completions
          ELSE UNCHANGED <<noopJob, completions>>
       /\ UNCHANGED <<principal, keyring, wire, issuing, leaseClock>>

\* The worker process ends; what it had not committed is rolled back.
StopWorker(w) ==
    /\ redeeming[w] # IdleWorker
    /\ redeeming' = [redeeming EXCEPT ![w] = IdleWorker]
    /\ UNCHANGED <<noopJob, principal, keyring, wire, issuing, completions,
                   leaseClock>>

-----------------------------------------------------------------------------
(* The environment: keys, the ServicePrincipal, and time.                  *)

\* A new active key; the key before it is kept or withdrawn.
RotateKey(keep) ==
    /\ keyring.active < KeyVersionBound
    /\ keyring' = [active |-> keyring.active + 1,
                   keys |-> (IF keep THEN keyring.keys ELSE {})
                                \cup {keyring.active + 1}]
    /\ UNCHANGED <<noopJob, principal, wire, issuing, redeeming, completions,
                   leaseClock>>

DisablePrincipal ==
    /\ principal = "enabled"
    /\ principal' = "disabled"
    /\ UNCHANGED <<noopJob, keyring, wire, issuing, redeeming, completions,
                   leaseClock>>

LeaseTick ==
    /\ leaseClock < LeaseClockBound
    /\ leaseClock' = leaseClock + 1
    /\ UNCHANGED <<noopJob, principal, keyring, wire, issuing, redeeming,
                   completions>>

LeaseNext ==
    \/ \E i \in LeaseIssuers :
          \/ \E j \in NoopJobs : BeginIssue(i, j)
          \/ \E delivered \in BOOLEAN : IssueNoopLease(i, delivered)
    \/ \E j \in FileJobs : IssueFileImportLease(j)
    \/ \E w \in LeaseWorkers :
          \/ \E t \in wire, j \in NoopJobs \cup FileJobs :
                VerifyRedemption(w, t, j)
          \/ BeginCompletion(w)
          \/ \E answered \in BOOLEAN : CompleteNoop(w, answered)
          \/ StopWorker(w)
    \/ \E keep \in BOOLEAN : RotateKey(keep)
    \/ DisablePrincipal
    \/ LeaseTick

LeaseSpec == LeaseInit /\ [][LeaseNext]_leaseVars

-----------------------------------------------------------------------------
\* A no-op job has at most one receipt, whichever tokens were kept, sent
\* twice or sent late to whichever worker; that receipt belongs to the lease
\* the job row carries last, a redeeming statement inside the lease's window,
\* and never to a token of another operation.  Every row satisfies the
\* table's own consistency constraint, so no transition is refused by it.  And
\* the windows of two leases of one job never overlap: a lease is replaced
\* only once its whole window lies before the window of its successor, also
\* when the issuing transaction waited for the row.
ReceiptsBelongToTheLastLease ==
    /\ [](/\ \A j \in NoopJobs : JobRowIsValid(noopJob[j])
          /\ \A c, d \in completions :
                c.token.document.job = d.token.document.job => c = d
          /\ \A c \in completions :
                LET claims == c.token.document IN
                /\ claims.operation = "noop.complete"
                /\ claims.job \in NoopJobs
                /\ noopJob[claims.job].state = "completed"
                /\ noopJob[claims.job].nonce = claims.nonce
                /\ noopJob[claims.job].redeemed \in claims.issued .. (claims.expires - 1))
    /\ [][\A j \in NoopJobs :
             noopJob'[j].nonce # noopJob[j].nonce =>
                noopJob'[j].issued >= noopJob[j].expires]_leaseVars
=============================================================================
