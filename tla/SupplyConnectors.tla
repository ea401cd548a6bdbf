-------------------------- MODULE SupplyConnectors --------------------------
(* The two connectors the Supply bridge can drive, as the pages they make   *)
(* of a checkpoint: the File connector compares the vault with the entries  *)
(* of its checkpoint, the Feishu connector reads the page its token names.  *)
(* A path is a number, in the order of the UTF-8 bytes of its name; the     *)
(* digest of a content is the content.                                      *)
EXTENDS Integers, FiniteSets

CONSTANTS
    Paths,              \* numbered paths of the vault
    Contents,           \* contents of a file
    Absent,             \* no file at this path
    BatchSize,          \* _BATCH_SIZE of the File connector
    FeishuDocuments,    \* Feishu document references
    Tokens,             \* Feishu page tokens
    NoToken,            \* page_token is None
    StagedPageBytes,    \* _MAX_STAGED_PAGE_BYTES
    CumulativeBytes,    \* cumulative_byte_limit
    PageLimit,          \* page_limit
    NoProgressLimit     \* no_progress_page_limit

ASSUME SupplyExecutionConfiguration ==
    /\ Paths \subseteq Nat
    /\ Absent \notin Contents
    /\ NoToken \notin Tokens
    /\ {BatchSize, StagedPageBytes, CumulativeBytes, PageLimit, NoProgressLimit}
            \subseteq Nat \ {0}

Vault == [Paths -> Contents \cup {Absent}]
FileCheckpoint == [entries : Vault]
FeishuCheckpoint == [token : Tokens \cup {NoToken}]
Checkpoint == FileCheckpoint \cup FeishuCheckpoint
NoCheckpoint == [none |-> "none"]

\* build_dummy_checkpoint, and FeishuCheckpoint(None)
EmptyCheckpoint(connector) ==
    IF connector = "file" THEN [entries |-> [p \in Paths |-> Absent]]
    ELSE [token |-> NoToken]

Loaded(connector, opaque) ==
    IF opaque = NoCheckpoint THEN EmptyCheckpoint(connector) ELSE opaque

-----------------------------------------------------------------------------
(* ACL observations *)

SourceAclObservation ==
    [class : {"live", "mirrored", "weak"}, payload : {"none", "some"},
     reason : {"none", "some"}, epoch : Nat, observedAt : Nat]

\* A weak observation says why nothing stronger exists and carries no
\* evidence; the others carry evidence and no excuse.
IsValidAcl(acl) ==
    IF acl.class = "weak" THEN acl.payload = "none" /\ acl.reason = "some"
    ELSE acl.payload = "some" /\ acl.reason = "none"

WeakAcl(epoch, now) ==
    [class |-> "weak", payload |-> "none", reason |-> "some",
     epoch |-> epoch, observedAt |-> now]

MirroredAcl(epoch, at) ==
    [class |-> "mirrored", payload |-> "some", reason |-> "none",
     epoch |-> epoch, observedAt |-> at]

\* Acceptance refuses an observation that claims more than the lease knew.
IsFreshAcl(acl, epoch, now) == acl.epoch <= epoch /\ acl.observedAt <= now

-----------------------------------------------------------------------------
(* Change pages *)

Envelope == [ref : Paths \cup FeishuDocuments, content : Contents \cup FeishuDocuments,
             acl : SourceAclObservation]
DeleteObservation == [ref : Paths \cup FeishuDocuments, acl : SourceAclObservation]

Observations(page) ==
    {d.acl : d \in page.documents} \cup {d.acl : d \in page.deleted}

IsValidPage(page) ==
    /\ \A acl \in Observations(page) : IsValidAcl(acl)
    /\ \A d, e \in page.documents : d.ref = e.ref => d = e
    /\ \A d, e \in page.deleted : d.ref = e.ref => d = e
    /\ \A d \in page.documents, e \in page.deleted : d.ref # e.ref

\* The length of the serialized page, one unit for its frame and for each
\* observation.
PageBytes(page) ==
    1 + Cardinality(page.documents) + Cardinality(page.deleted)

IsEmptyPage(page) == page.documents = {} /\ page.deleted = {}

-----------------------------------------------------------------------------
(* The File connector *)

ChangedPaths(prior, vault) == {p \in Paths : prior[p] # vault[p]}

SelectedPaths(prior, vault) ==
    LET changed == ChangedPaths(prior, vault)
    IN  {p \in changed : Cardinality({q \in changed : q < p}) < BatchSize}

\* Only the paths of this page move in the proposal.
NextEntries(prior, vault) ==
    [p \in Paths |-> IF p \in SelectedPaths(prior, vault) THEN vault[p] ELSE prior[p]]

FilePage(checkpoint, vault, epoch, now) ==
    LET prior == checkpoint.entries
        selected == SelectedPaths(prior, vault)
        proposal == [entries |-> NextEntries(prior, vault)]
    IN  [ref |-> <<checkpoint, proposal>>,
         documents |-> {[ref |-> p, content |-> vault[p], acl |-> WeakAcl(epoch, now)] :
                           p \in {q \in selected : vault[q] # Absent}},
         deleted |-> {[ref |-> p, acl |-> WeakAcl(epoch, now)] :
                           p \in {q \in selected : vault[q] = Absent}},
         proposal |-> proposal,
         terminal |-> selected = {}]

-----------------------------------------------------------------------------
(* The Feishu connector *)

FeishuChangePage ==
    [documents : SUBSET FeishuDocuments, deleted : SUBSET FeishuDocuments,
     next : Tokens \cup {NoToken}, mark : Tokens]

IsFeed(feed) ==
    \A t \in DOMAIN feed : /\ feed[t] \in FeishuChangePage
                           /\ feed[t].documents \cap feed[t].deleted = {}

\* The source dates its own observations; they are older than any lease.
FeishuPage(checkpoint, feed, epoch) ==
    LET source == feed[checkpoint.token]
    IN  [ref |-> <<checkpoint, source.mark>>,
         documents |-> {[ref |-> d, content |-> d, acl |-> MirroredAcl(epoch, 0)] :
                           d \in source.documents},
         deleted |-> {[ref |-> d, acl |-> MirroredAcl(epoch, 0)] : d \in source.deleted},
         proposal |-> [token |-> source.next],
         terminal |-> source.next = NoToken]
=============================================================================
