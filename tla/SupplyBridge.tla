---------------------------- MODULE SupplyBridge ----------------------------
(* The Supply execution bridge for one connector job: Control issues and    *)
(* preempts leases, runners redeem them, poll their connector from the      *)
(* stored checkpoint and have each page accepted together with the          *)
(* checkpoint it proposes.  A runner can die, lose its lease or be late at  *)
(* any step, and the vault changes underneath it.                           *)
EXTENDS SupplyConnectors, Sequences

CONSTANTS
    Runners,            \* connector runner processes
    Feeds,              \* what a Feishu source may hold
    LeaseTtl,           \* requested_lease_ttl_seconds
    GenerationBound, SupplyEpochBound, SupplyClockBound

ASSUME SupplyAssumption ==
    /\ LeaseTtl \in Nat \ {0}
    /\ {GenerationBound, SupplyEpochBound, SupplyClockBound} \subseteq Nat
    /\ \A feed \in Feeds : DOMAIN feed \subseteq Tokens \cup {NoToken} /\ IsFeed(feed)

VARIABLES
    connector,          \* which adapter the job's source has
    feed,               \* the pages of a Feishu source
    vault,              \* the files of a File source
    connectorJob,       \* row of supply_connector_job
    preemptions,        \* rows of supply_connector_lease_event
    stagedPages,        \* rows of supply_connector_staged_page, by page_ref
    acceptedPages,      \* rows of supply_connector_accepted_page, by ordinal
    storedCheckpoint,   \* row of supply_connector_checkpoint
    supplyEpoch,        \* organization_policy_epoch
    connectorSource,    \* the SourceVersion is active and its actor enabled
    supplyClock,
    runner              \* the execution each process is in

sourceVars == <<connector, feed, vault>>
pageVars == <<stagedPages, acceptedPages, storedCheckpoint>>
worldVars == <<supplyEpoch, connectorSource>>
supplyVars == <<sourceVars, connectorJob, preemptions, pageVars, worldVars, supplyClock, runner>>

ConnectorJobRow ==
    [state : {"available", "leased", "running", "completed"}, generation : Nat,
     epoch : Nat, expires : Nat, redeemed : {"no", "yes"}]

\* A preemption is keyed by the generation it replaced.
PreemptionRows == SUBSET Nat
ChangePage ==
    [ref : Seq(Checkpoint \cup Tokens), documents : SUBSET Envelope,
     deleted : SUBSET DeleteObservation, proposal : Checkpoint, terminal : BOOLEAN]
StagedPageRows == UNION {[R -> ChangePage] : R \in SUBSET Seq(Checkpoint \cup Tokens)}
AcceptedPageRows == Seq(Seq(Checkpoint \cup Tokens))
CheckpointRow == Checkpoint \cup {NoCheckpoint}

Lease == [generation : Nat, epoch : Nat, expires : Nat]
NoLease == [generation |-> 0, epoch |-> 0, expires |-> 0]
NoPage == [ref |-> <<>>]

IdleRunner ==
    [pc |-> "idle", lease |-> NoLease, checkpoint |-> NoCheckpoint, page |-> NoPage,
     pages |-> 0, bytes |-> 0, noProgress |-> 0]

Execution ==
    [pc : {"idle", "leased", "polling", "accepting"}, lease : Lease,
     checkpoint : CheckpointRow, page : ChangePage \cup {NoPage},
     pages : Nat, bytes : Nat, noProgress : Nat]

SupplyInit ==
    /\ \/ connector = "file" /\ feed = <<>> /\ vault \in Vault
       \/ connector = "feishu" /\ feed \in Feeds /\ vault = [p \in Paths |-> Absent]
    /\ connectorJob = [state |-> "available", generation |-> 0, epoch |-> 0,
                       expires |-> 0, redeemed |-> "no"]
    /\ preemptions = {}
    /\ stagedPages = <<>>
    /\ acceptedPages = <<>>
    /\ storedCheckpoint = NoCheckpoint
    /\ supplyEpoch = 1
    /\ connectorSource = "active"
    /\ supplyClock = 1
    /\ runner = [r \in Runners |-> IdleRunner]

-----------------------------------------------------------------------------
(* Leases *)

NextLease ==
    [generation |-> connectorJob.generation + 1, epoch |-> supplyEpoch,
     expires |-> supplyClock + LeaseTtl]

LeasedJob(lease) ==
    [state |-> "leased", generation |-> lease.generation, epoch |-> lease.epoch,
     expires |-> lease.expires, redeemed |-> "no"]

\* Mint the token of the new lease and hand it to an idle process.
HandOver(r) ==
    /\ runner[r].pc = "idle"
    /\ connectorSource = "active"
    /\ connectorJob.generation < GenerationBound
    /\ connectorJob' = LeasedJob(NextLease)
    /\ runner' = [runner EXCEPT ![r] = [IdleRunner EXCEPT !.pc = "leased", !.lease = NextLease]]
    /\ UNCHANGED <<sourceVars, pageVars, worldVars, supplyClock>>

IssueConnectorLease(r) ==
    /\ \/ connectorJob.state = "available"
       \/ connectorJob.state = "running" /\ connectorJob.expires <= supplyClock
    /\ HandOver(r)
    /\ UNCHANGED preemptions

PreemptConnectorLease(r) ==
    /\ connectorJob.state = "running"
    /\ connectorJob.expires > supplyClock
    /\ HandOver(r)
    /\ preemptions' = preemptions \cup {connectorJob.generation}

\* The verification every worker-side function repeats against the job row.
LeaseVerifies(lease) ==
    /\ connectorJob.generation = lease.generation
    /\ connectorJob.epoch = lease.epoch
    /\ connectorJob.expires = lease.expires
    /\ supplyClock < connectorJob.expires
    /\ connectorJob.epoch = supplyEpoch
    /\ connectorSource = "active"

\* _verify_execution reads only the token and the runner's clock.
VerifyExecution(lease) == supplyClock < lease.expires

-----------------------------------------------------------------------------
(* One execution *)

Stop(r) == runner' = [runner EXCEPT ![r] = IdleRunner]

RedeemForExecution(r) ==
    /\ VerifyExecution(runner[r].lease)
    /\ LeaseVerifies(runner[r].lease)
    /\ connectorJob.state = "leased"
    /\ connectorJob.redeemed = "no"
    /\ connectorJob' = [connectorJob EXCEPT !.state = "running", !.redeemed = "yes"]
    /\ runner' = [runner EXCEPT ![r] =
                     [@ EXCEPT !.pc = "polling", !.checkpoint = storedCheckpoint]]

Execute(r) ==
    /\ runner[r].pc = "leased"
    /\ \/ RedeemForExecution(r)
       \/ /\ \/ ~VerifyExecution(runner[r].lease)
             \/ ~LeaseVerifies(runner[r].lease)
             \/ connectorJob.state # "leased"
          /\ Stop(r)
          /\ UNCHANGED connectorJob
    /\ UNCHANGED <<sourceVars, preemptions, pageVars, worldVars, supplyClock>>

ConnectorPage(r) ==
    LET prior == Loaded(connector, runner[r].checkpoint)
        epoch == runner[r].lease.epoch
    IN  IF connector = "file" THEN FilePage(prior, vault, epoch, supplyClock)
        ELSE FeishuPage(prior, feed, epoch)

MadeNoProgress(r, page) ==
    /\ ~page.terminal
    /\ IsEmptyPage(page)
    /\ page.proposal = runner[r].checkpoint

BoundExceeded(r, page) ==
    \/ PageBytes(page) > StagedPageBytes
    \/ runner[r].bytes + PageBytes(page) > CumulativeBytes
    \/ MadeNoProgress(r, page) /\ runner[r].noProgress >= NoProgressLimit

\* A poll starts a process, so no two of them read the same clock.
PollConnector(r) ==
    /\ runner[r].pc = "polling"
    /\ \/ runner[r].pages >= PageLimit /\ Stop(r) /\ UNCHANGED supplyClock
       \/ /\ runner[r].pages < PageLimit
          /\ supplyClock < SupplyClockBound
          /\ supplyClock' = supplyClock + 1
          /\ LET page == ConnectorPage(r)
             IN  IF BoundExceeded(r, page) THEN Stop(r)
                 ELSE runner' = [runner EXCEPT ![r] =
                                    [@ EXCEPT !.pc = "accepting", !.page = page]]
    /\ UNCHANGED <<sourceVars, connectorJob, preemptions, pageVars, worldVars>>

IsAdmissible(lease, page) ==
    /\ IsValidPage(page)
    /\ \A acl \in Observations(page) : IsFreshAcl(acl, lease.epoch, supplyClock)

MayAccept(lease, page) ==
    /\ IsAdmissible(lease, page)
    /\ LeaseVerifies(lease)
    /\ connectorJob.state = "running"
    /\ connectorJob.redeemed = "yes"

\* The page reference is new, or names the same bytes.
StagesCleanly(page) ==
    page.ref \in DOMAIN stagedPages => stagedPages[page.ref] = page

IsAccepted(ref) == \E i \in DOMAIN acceptedPages : acceptedPages[i] = ref

StorePageKeepsRunning(page) ==
    IF IsAccepted(page.ref)
    THEN UNCHANGED <<pageVars, connectorJob>>
    ELSE /\ stagedPages' = [ref \in DOMAIN stagedPages \cup {page.ref} |->
                               IF ref = page.ref THEN page ELSE stagedPages[ref]]
         /\ acceptedPages' = Append(acceptedPages, page.ref)
         /\ storedCheckpoint' = page.proposal
         /\ UNCHANGED connectorJob

StorePage(page) ==
    IF IsAccepted(page.ref)
    THEN UNCHANGED <<pageVars, connectorJob>>
    ELSE /\ stagedPages' = [ref \in DOMAIN stagedPages \cup {page.ref} |->
                               IF ref = page.ref THEN page ELSE stagedPages[ref]]
         /\ acceptedPages' = Append(acceptedPages, page.ref)
         /\ storedCheckpoint' = page.proposal
         /\ connectorJob' = [connectorJob EXCEPT
                               !.state = IF page.terminal THEN "completed" ELSE "running"]

\* Back to the head of the loop, or out of it after the terminal page.
ContinueAfter(r, page) ==
    LET me == runner[r]
    IN  IF page.terminal THEN Stop(r)
        ELSE runner' = [runner EXCEPT ![r] = [me EXCEPT
                !.pc = "polling", !.page = NoPage, !.checkpoint = page.proposal,
                !.pages = me.pages + 1, !.bytes = me.bytes + PageBytes(page),
                !.noProgress = IF MadeNoProgress(r, page) THEN me.noProgress + 1 ELSE 0]]

AcceptChangePage(r) ==
    /\ runner[r].pc = "accepting"
    /\ LET lease == runner[r].lease
           page == runner[r].page
       IN  IF MayAccept(lease, page) /\ StagesCleanly(page)
           THEN StorePage(page) /\ ContinueAfter(r, page)
           ELSE Stop(r) /\ UNCHANGED <<pageVars, connectorJob>>
    /\ UNCHANGED <<sourceVars, preemptions, worldVars, supplyClock>>

\* The connector process fails, times out or answers rubbish, or the runner
\* itself dies: whatever it held is gone.
LoseRunner(r) ==
    /\ runner[r].pc # "idle"
    /\ Stop(r)
    /\ UNCHANGED <<sourceVars, connectorJob, preemptions, pageVars, worldVars, supplyClock>>

-----------------------------------------------------------------------------
(* The world around it *)

ChangeFile(p, c) ==
    /\ connector = "file"
    /\ vault[p] # c
    /\ vault' = [vault EXCEPT ![p] = c]
    /\ UNCHANGED <<connector, feed, connectorJob, preemptions, pageVars, worldVars,
                   supplyClock, runner>>

AdvanceSupplyEpoch ==
    /\ supplyEpoch < SupplyEpochBound
    /\ supplyEpoch' = supplyEpoch + 1
    /\ UNCHANGED <<sourceVars, connectorJob, preemptions, pageVars, connectorSource,
                   supplyClock, runner>>

\* Another version becomes active, the source is offboarded or the actor
\* disabled.
RetireConnectorSource ==
    /\ connectorSource = "active"
    /\ connectorSource' = "retired"
    /\ UNCHANGED <<sourceVars, connectorJob, preemptions, pageVars, supplyEpoch,
                   supplyClock, runner>>

PassTime ==
    /\ supplyClock < SupplyClockBound
    /\ supplyClock' = supplyClock + 1
    /\ UNCHANGED <<sourceVars, connectorJob, preemptions, pageVars, worldVars, runner>>

SupplyNext ==
    \/ \E r \in Runners :
        \/ IssueConnectorLease(r)
        \/ PreemptConnectorLease(r)
        \/ Execute(r)
        \/ PollConnector(r)
        \/ AcceptChangePage(r)
        \/ LoseRunner(r)
    \/ \E p \in Paths, c \in Contents \cup {Absent} : ChangeFile(p, c)
    \/ AdvanceSupplyEpoch
    \/ RetireConnectorSource
    \/ PassTime

SupplySpec == SupplyInit /\ [][SupplyNext]_supplyVars

-----------------------------------------------------------------------------
(* Properties *)

(* Every row and execution has the shape its table or dataclass gives it.   *)
SupplyTypeOK ==
    /\ connectorJob \in ConnectorJobRow
    /\ preemptions \in PreemptionRows
    /\ stagedPages \in StagedPageRows
    /\ acceptedPages \in AcceptedPageRows
    /\ storedCheckpoint \in CheckpointRow
    /\ runner \in [Runners -> Execution]

AcceptedChain == [i \in DOMAIN acceptedPages |-> stagedPages[acceptedPages[i]]]

Stream == INSTANCE SupplyStream WITH
    StreamStarts <- {EmptyCheckpoint("file"), EmptyCheckpoint("feishu")},
    chain <- AcceptedChain,
    cursor <- Loaded(connector, storedCheckpoint)

(* The bridge implements the chain of pages: whatever leases were lost,     *)
(* replaced or late, a page that context_supply_accept_connector_page       *)
(* accepts starts where the last accepted one ended, none is accepted       *)
(* twice and none follows the terminal page.                                *)
AcceptedPagesFormAStream == Stream!StreamSpec

\* The content of a path after the first n accepted pages.
ReplayedContent(p, n) ==
    LET touching == {i \in 1 .. n :
            \/ \E d \in AcceptedChain[i].documents : d.ref = p
            \/ \E d \in AcceptedChain[i].deleted : d.ref = p}
    IN  IF touching = {} THEN Absent
        ELSE LET last == AcceptedChain[CHOOSE i \in touching : \A j \in touching : j <= i]
             IN  IF \E d \in last.deleted : d.ref = p THEN Absent
                 ELSE (CHOOSE d \in last.documents : d.ref = p).content

(* Replaying the accepted pages of a File job gives exactly the entries its *)
(* checkpoint claims: the connector never skips a change it did not emit,   *)
(* whatever it read while the vault moved and however often it restarted.   *)
CheckpointMatchesPages ==
    connector = "file" =>
        \A p \in Paths : ReplayedContent(p, Len(acceptedPages))
                            = Loaded(connector, storedCheckpoint).entries[p]
=============================================================================
