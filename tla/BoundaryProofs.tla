--------------------------- MODULE BoundaryProofs ---------------------------
(***************************************************************************)
(* Proofs about the edges of the system.  The accepted pages of a connector*)
(* job form a stream and match its checkpoint, for every set of runners,   *)
(* feeds and vaults; a model is called under the one grant of an admitted  *)
(* Package and its answer cites that Package.                              *)
(***************************************************************************)
EXTENDS SupplyBridge, ModelBoundary, FiniteSetTheorems, WellFoundedInduction, TLAPS

-----------------------------------------------------------------------------
(* Numbers.                                                                *)

LEMMA LeastNatural ==
    ASSUME NEW S, S \subseteq Nat, S # {}
    PROVE  \E n \in S : \A m \in S : n <= m
<1>1. PICK x \in S : \A y \in S : ~ (<<y, x>> \in OpToRel(<, Nat))
  BY NatLessThanWellFounded, WFMin, Zenon 
<1>2. \A y \in S : ~ (y < x)
  BY <1>1, Zenon DEF OpToRel
<1> QED
  BY <1>2

LEMMA GreatestNatural ==
    ASSUME NEW S, S \subseteq Nat, S # {}, NEW top \in Nat, \A m \in S : m <= top
    PROVE  \E n \in S : \A m \in S : m <= n
<1> DEFINE D == {x \in Nat : top - x \in S}
<1>1. PICK m \in S : TRUE
  OBVIOUS
<1>2. top - m \in D
  BY <1>1
<1>3. PICK d \in D : \A e \in D : d <= e
  BY <1>2, LeastNatural, Zenon 
<1>4. \A k \in S : top - k \in D
  OBVIOUS
<1> QED
  BY <1>3, <1>4

LEMMA SequenceIsFunction ==
    ASSUME NEW S, NEW s \in Seq(S)
    PROVE  Len(s) \in Nat /\ s \in [1 .. Len(s) -> S]
BY SMT

-----------------------------------------------------------------------------
(* Records.                                                                *)

ExecutionShape(e) ==
    e = [pc |-> e.pc, lease |-> e.lease, checkpoint |-> e.checkpoint, page |-> e.page,
         pages |-> e.pages, bytes |-> e.bytes, noProgress |-> e.noProgress]
JobShape(j) ==
    j = [state |-> j.state, generation |-> j.generation, epoch |-> j.epoch,
         expires |-> j.expires, redeemed |-> j.redeemed]

LeasedTo(e, lease1) == [e EXCEPT !.pc = "leased", !.lease = lease1]
PollingFrom(e, checkpoint1) == [e EXCEPT !.pc = "polling", !.checkpoint = checkpoint1]
Holding(e, page1) == [e EXCEPT !.pc = "accepting", !.page = page1]
Counted(e, pages1, bytes1, noProgress1) ==
    [e EXCEPT !.pages = pages1, !.bytes = bytes1, !.noProgress = noProgress1]
PollingOn(e, checkpoint1) ==
    [e EXCEPT !.pc = "polling", !.page = NoPage, !.checkpoint = checkpoint1]
RedeemedJob(j) == [j EXCEPT !.state = "running", !.redeemed = "yes"]
JobIn(j, state1) == [j EXCEPT !.state = state1]

LEMMA ExecutionParts ==
    ASSUME NEW e, ExecutionShape(e)
    PROVE  e \in [pc : {e.pc}, lease : {e.lease}, checkpoint : {e.checkpoint},
                  page : {e.page}, pages : {e.pages}, bytes : {e.bytes},
                  noProgress : {e.noProgress}]
BY Zenon DEF ExecutionShape

LEMMA JobParts ==
    ASSUME NEW j, JobShape(j)
    PROVE  j \in [state : {j.state}, generation : {j.generation}, epoch : {j.epoch},
                  expires : {j.expires}, redeemed : {j.redeemed}]
BY Zenon DEF JobShape

LEMMA LeaseIsHanded ==
    ASSUME NEW e, ExecutionShape(e), NEW lease1
    PROVE  LET new == LeasedTo(e, lease1)
           IN ExecutionShape(new) /\ new.pc = "leased" /\ new.lease = lease1
<1>0. e \in [pc : {e.pc}, lease : {e.lease}, checkpoint : {e.checkpoint}, page : {e.page},
             pages : {e.pages}, bytes : {e.bytes}, noProgress : {e.noProgress}]
  BY ExecutionParts, Zenon 
<1>1. LeasedTo(e, lease1) \in
         [pc : {"leased"}, lease : {lease1}, checkpoint : {e.checkpoint},
          page : {e.page}, pages : {e.pages}, bytes : {e.bytes}, noProgress : {e.noProgress}]
  BY <1>0, Zenon DEF LeasedTo
<1> QED
  BY <1>1, Zenon DEF ExecutionShape

LEMMA PollingStarts ==
    ASSUME NEW e, ExecutionShape(e), NEW checkpoint1
    PROVE  LET new == PollingFrom(e, checkpoint1)
           IN /\ ExecutionShape(new) /\ new.pc = "polling" /\ new.lease = e.lease
              /\ new.checkpoint = checkpoint1
<1>0. e \in [pc : {e.pc}, lease : {e.lease}, checkpoint : {e.checkpoint}, page : {e.page},
             pages : {e.pages}, bytes : {e.bytes}, noProgress : {e.noProgress}]
  BY ExecutionParts, Zenon 
<1>1. PollingFrom(e, checkpoint1) \in
         [pc : {"polling"}, lease : {e.lease}, checkpoint : {checkpoint1},
          page : {e.page}, pages : {e.pages}, bytes : {e.bytes}, noProgress : {e.noProgress}]
  BY <1>0, Zenon DEF PollingFrom
<1> QED
  BY <1>1, Zenon DEF ExecutionShape

LEMMA PageIsHeld ==
    ASSUME NEW e, ExecutionShape(e), NEW page1
    PROVE  LET new == Holding(e, page1)
           IN /\ ExecutionShape(new) /\ new.pc = "accepting" /\ new.lease = e.lease
              /\ new.checkpoint = e.checkpoint /\ new.page = page1
<1>0. e \in [pc : {e.pc}, lease : {e.lease}, checkpoint : {e.checkpoint}, page : {e.page},
             pages : {e.pages}, bytes : {e.bytes}, noProgress : {e.noProgress}]
  BY ExecutionParts, Zenon 
<1>1. Holding(e, page1) \in
         [pc : {"accepting"}, lease : {e.lease}, checkpoint : {e.checkpoint},
          page : {page1}, pages : {e.pages}, bytes : {e.bytes}, noProgress : {e.noProgress}]
  BY <1>0, Zenon DEF Holding
<1> QED
  BY <1>1, Zenon DEF ExecutionShape

LEMMA PollingIsCounted ==
    ASSUME NEW e, ExecutionShape(e), NEW pages1, NEW bytes1, NEW noProgress1
    PROVE  LET new == Counted(e, pages1, bytes1, noProgress1)
           IN /\ ExecutionShape(new) /\ new.pc = e.pc /\ new.lease = e.lease
              /\ new.checkpoint = e.checkpoint
<1>0. e \in [pc : {e.pc}, lease : {e.lease}, checkpoint : {e.checkpoint}, page : {e.page},
             pages : {e.pages}, bytes : {e.bytes}, noProgress : {e.noProgress}]
  BY ExecutionParts, Zenon 
<1>1. Counted(e, pages1, bytes1, noProgress1) \in
         [pc : {e.pc}, lease : {e.lease}, checkpoint : {e.checkpoint}, page : {e.page},
          pages : {pages1}, bytes : {bytes1}, noProgress : {noProgress1}]
  BY <1>0, Zenon DEF Counted
<1> QED
  BY <1>1, Zenon DEF ExecutionShape

LEMMA PollingGoesOn ==
    ASSUME NEW e, ExecutionShape(e), NEW checkpoint1
    PROVE  LET new == PollingOn(e, checkpoint1)
           IN /\ ExecutionShape(new) /\ new.pc = "polling" /\ new.lease = e.lease
              /\ new.checkpoint = checkpoint1
<1>0. e \in [pc : {e.pc}, lease : {e.lease}, checkpoint : {e.checkpoint}, page : {e.page},
             pages : {e.pages}, bytes : {e.bytes}, noProgress : {e.noProgress}]
  BY ExecutionParts, Zenon 
<1>1. PICK none : none = NoPage
  BY Zenon 
<1>2. PollingOn(e, checkpoint1) \in
         [pc : {"polling"}, lease : {e.lease}, checkpoint : {checkpoint1}, page : {none},
          pages : {e.pages}, bytes : {e.bytes}, noProgress : {e.noProgress}]
  BY <1>1, <1>0, Zenon DEF PollingOn
<1> QED
  BY <1>2, Zenon DEF ExecutionShape

LEMMA JobIsRedeemed ==
    ASSUME NEW j, JobShape(j)
    PROVE  LET new == RedeemedJob(j)
           IN /\ JobShape(new) /\ new.state = "running" /\ new.generation = j.generation
<1>0. j \in [state : {j.state}, generation : {j.generation}, epoch : {j.epoch},
             expires : {j.expires}, redeemed : {j.redeemed}]
  BY JobParts, Zenon 
<1>1. RedeemedJob(j) \in
         [state : {"running"}, generation : {j.generation}, epoch : {j.epoch},
          expires : {j.expires}, redeemed : {"yes"}]
  BY <1>0, Zenon DEF RedeemedJob
<1> QED
  BY <1>1, Zenon DEF JobShape

LEMMA JobMoves ==
    ASSUME NEW j, JobShape(j), NEW state1
    PROVE  LET new == JobIn(j, state1)
           IN /\ JobShape(new) /\ new.state = state1 /\ new.generation = j.generation
<1>0. j \in [state : {j.state}, generation : {j.generation}, epoch : {j.epoch},
             expires : {j.expires}, redeemed : {j.redeemed}]
  BY JobParts, Zenon 
<1>1. JobIn(j, state1) \in
         [state : {state1}, generation : {j.generation}, epoch : {j.epoch},
          expires : {j.expires}, redeemed : {j.redeemed}]
  BY <1>0, Zenon DEF JobIn
<1> QED
  BY <1>1, Zenon DEF JobShape

\* A sequence, whatever its elements.
IsSequence(s) == Len(s) \in Nat /\ s = [i \in 1 .. Len(s) |-> s[i]]

LEMMA SequenceOfParts ==
    ASSUME NEW n \in Nat, NEW s, s = [i \in 1 .. n |-> s[i]]
    PROVE  IsSequence(s) /\ Len(s) = n /\ DOMAIN s = 1 .. n
<1>1. s \in Seq({s[i] : i \in 1 .. n})
  BY DEF Seq
<1> QED
  BY <1>1 DEF IsSequence

LEMMA SequenceAppended ==
    ASSUME NEW s, IsSequence(s), NEW x
    PROVE  LET a == Append(s, x)
           IN /\ IsSequence(a) /\ Len(a) = Len(s) + 1 /\ a[Len(s) + 1] = x
              /\ \A i \in 1 .. Len(s) : a[i] = s[i]
              /\ DOMAIN s = 1 .. Len(s) /\ DOMAIN a = 1 .. (Len(s) + 1)
<1> DEFINE S == {s[i] : i \in 1 .. Len(s)} \cup {x}
<1>1. s \in Seq(S) /\ x \in S
  BY DEF IsSequence
<1>2. Append(s, x) \in Seq(S)
  BY <1>1
<1>3. /\ Len(Append(s, x)) = Len(s) + 1 /\ Append(s, x)[Len(s) + 1] = x
      /\ \A i \in 1 .. Len(s) : Append(s, x)[i] = s[i]
      /\ DOMAIN s = 1 .. Len(s) /\ DOMAIN Append(s, x) = 1 .. (Len(s) + 1)
  BY <1>1
<1>4. IsSequence(Append(s, x))
  <2> HIDE DEF S
  <2>1. PICK a : a = Append(s, x) /\ a \in Seq(S)
    BY <1>2, Zenon 
  <2>2. Len(a) \in Nat /\ a \in [1 .. Len(a) -> S]
    BY <2>1, SequenceIsFunction, Zenon 
  <2>3. a = [i \in 1 .. Len(a) |-> a[i]]
    BY <2>2, Zenon 
  <2> QED
    BY <2>1, <2>2, <2>3, Zenon DEF IsSequence
<1> QED
  BY <1>3, <1>4, Zenon 


-----------------------------------------------------------------------------
(* Pages.                                                                  *)

ObservedTimes(page) == {acl.observedAt : acl \in Observations(page)}
Names(page, p) ==
    (\E d \in page.documents : d.ref = p) \/ (\E d \in page.deleted : d.ref = p)

\* A page of the File connector says what its proposal changes, and only that.
SaysWhatChanges(page, prior) ==
    \A p \in Paths :
        /\ \A d \in page.documents : d.ref = p => /\ d.content = page.proposal.entries[p]
                                                  /\ \A e \in page.deleted : e.ref # p
        /\ \A d \in page.deleted : d.ref = p => page.proposal.entries[p] = Absent
        /\ ~ Names(page, p) => page.proposal.entries[p] = prior.entries[p]

FileMade(page, prior) ==
    /\ page.ref = <<prior, page.proposal>> /\ page.proposal # NoCheckpoint
    /\ page.terminal \in BOOLEAN
    /\ ~ page.terminal => ObservedTimes(page) # {}
    /\ SaysWhatChanges(page, prior)

FeishuRef(checkpoint) == <<checkpoint, feed[checkpoint.token].mark>>
FeishuNext(checkpoint) == [token |-> feed[checkpoint.token].next]

FeishuMade(page, prior, epoch) ==
    /\ page = FeishuPage(prior, feed, epoch)
    /\ page.ref = FeishuRef(prior) /\ page.proposal = FeishuNext(prior)
    /\ page.proposal # NoCheckpoint
    /\ page.terminal \in BOOLEAN

LEMMA FilePageIsMade ==
    ASSUME NEW prior, NEW files, NEW epoch, NEW now, NEW page,
           page = FilePage(prior, files, epoch, now)
    PROVE  FileMade(page, prior) /\ ObservedTimes(page) \subseteq {now}
<1> DEFINE S == SelectedPaths(prior.entries, files)
           E == NextEntries(prior.entries, files)
<1>1. /\ page.ref = <<prior, [entries |-> E]>>
      /\ page.documents = {[ref |-> p, content |-> files[p], acl |-> WeakAcl(epoch, now)] :
                             p \in {q \in S : files[q] # Absent}}
      /\ page.deleted = {[ref |-> p, acl |-> WeakAcl(epoch, now)] :
                             p \in {q \in S : files[q] = Absent}}
      /\ page.proposal = [entries |-> E]
      /\ page.terminal = (S = {})
  BY Zenon DEF FilePage
<1>2. /\ S \subseteq Paths
      /\ \A p \in Paths : E[p] = IF p \in S THEN files[p] ELSE prior.entries[p]
  BY Zenon DEF SelectedPaths, ChangedPaths, NextEntries
<1>3. WeakAcl(epoch, now).observedAt = now
  BY Zenon DEF WeakAcl
<1> HIDE DEF S, E
<1>4. /\ \A d \in page.documents : /\ d.ref \in S /\ d.content = files[d.ref]
                                   /\ files[d.ref] # Absent /\ d.acl = WeakAcl(epoch, now)
      /\ \A d \in page.deleted : /\ d.ref \in S /\ files[d.ref] = Absent
                                 /\ d.acl = WeakAcl(epoch, now)
  BY <1>1
<1>5. \A p \in S : Names(page, p)
  <2> SUFFICES ASSUME NEW p \in S PROVE Names(page, p)
    OBVIOUS
  <2>1. CASE files[p] = Absent
    <3>1. [ref |-> p, acl |-> WeakAcl(epoch, now)] \in page.deleted
      BY <1>1, <2>1, Zenon 
    <3> QED
      BY <3>1, Zenon DEF Names
  <2>2. CASE files[p] # Absent
    <3>1. [ref |-> p, content |-> files[p], acl |-> WeakAcl(epoch, now)] \in page.documents
      BY <1>1, <2>2, Zenon 
    <3> QED
      BY <3>1, Zenon DEF Names
  <2> QED
    BY <2>1, <2>2, Zenon 
<1>6. ObservedTimes(page) \subseteq {now}
  BY <1>3, <1>4 DEF ObservedTimes, Observations
<1>7. page.proposal # NoCheckpoint /\ page.proposal.entries = E
  BY <1>1 DEF NoCheckpoint
<1>8. ~ page.terminal => ObservedTimes(page) # {}
  <2> SUFFICES ASSUME NEW p \in S PROVE ObservedTimes(page) # {}
    BY <1>1, Zenon 
  <2>1. Names(page, p)
    BY <1>5, Zenon 
  <2>2. PICK acl : acl \in Observations(page)
    BY <2>1, Zenon DEF Names, Observations
  <2>3. acl.observedAt \in ObservedTimes(page)
    BY <2>2, Zenon DEF ObservedTimes
  <2> QED
    BY <2>3, Zenon 
<1>9. SaysWhatChanges(page, prior)
  BY <1>2, <1>4, <1>5, <1>7 DEF SaysWhatChanges
<1> QED
  BY <1>1, <1>6, <1>7, <1>8, <1>9, Zenon DEF FileMade

LEMMA FeishuPageIsMade ==
    ASSUME NEW prior, NEW epoch, NEW page, page = FeishuPage(prior, feed, epoch)
    PROVE  FeishuMade(page, prior, epoch)
<1>1. /\ page.ref = FeishuRef(prior) /\ page.proposal = FeishuNext(prior)
      /\ page.terminal = (feed[prior.token].next = NoToken)
  BY Zenon DEF FeishuPage, FeishuRef, FeishuNext
<1>2. page.proposal # NoCheckpoint
  BY <1>1 DEF FeishuNext, NoCheckpoint
<1> QED
  BY <1>1, <1>2, Zenon DEF FeishuMade


-----------------------------------------------------------------------------
(* The inductive invariant.                                                *)

At(e) == Loaded(connector, e.checkpoint)

\* What a process holds: a lease Control has issued, and a page its connector
\* made of the checkpoint the process is at, dated before now.
ExecutionOk(e) ==
    /\ ExecutionShape(e)
    /\ e.pc # "idle" =>
         e.lease.generation \in Nat /\ e.lease.generation <= connectorJob.generation
    /\ e.pc = "accepting" /\ connector = "file" =>
         FileMade(e.page, At(e)) /\ ObservedTimes(e.page) \subseteq 0 .. (supplyClock - 1)
    /\ e.pc = "accepting" /\ connector = "feishu" =>
         FeishuMade(e.page, At(e), e.lease.epoch)

\* The process whose lease is the job's is where the job's checkpoint is; or it
\* goes again through a loop of the feed whose pages are accepted already.
OnTrack(e) ==
    /\ connectorJob.state = "running"
    /\ e.pc \in {"polling", "accepting"}
    /\ e.lease.generation = connectorJob.generation
    => \/ At(e) = Loaded(connector, storedCheckpoint)
       \/ connector = "feishu" /\ IsAccepted(FeishuRef(At(e)))

\* No two processes hold the same lease, or pages of the same poll.
Apart(e, f) ==
    /\ e.pc # "idle" /\ f.pc # "idle" => e.lease.generation # f.lease.generation
    /\ connector = "file" /\ e.pc = "accepting" /\ f.pc = "accepting" =>
         ObservedTimes(e.page) \cap ObservedTimes(f.page) = {}

\* Row i of the accepted pages.
Accepted(i) == stagedPages[acceptedPages[i]]
RowOk(i) ==
    /\ acceptedPages[i] \in DOMAIN stagedPages
    /\ Accepted(i).ref = acceptedPages[i]
    /\ Accepted(i).terminal \in BOOLEAN
    /\ Accepted(i).terminal => connectorJob.state = "completed"
    /\ Accepted(i).proposal # NoCheckpoint
    /\ Accepted(i).proposal = IF i = Len(acceptedPages) THEN storedCheckpoint
                              ELSE acceptedPages[i + 1][1]
    /\ connector = "file" => /\ ObservedTimes(Accepted(i)) \subseteq 0 .. (supplyClock - 1)
                             /\ ~ Accepted(i).terminal => ObservedTimes(Accepted(i)) # {}
    /\ connector = "feishu" => /\ acceptedPages[i] = FeishuRef(acceptedPages[i][1])
                               /\ Accepted(i).proposal = FeishuNext(acceptedPages[i][1])

\* A page that is held was not accepted yet: it is of a later poll.
Unseen(e) ==
    connector = "file" /\ e.pc = "accepting" =>
        \A i \in 1 .. Len(acceptedPages) : ObservedTimes(e.page) \cap ObservedTimes(Accepted(i)) = {}

SupplyInv ==
    /\ connector \in {"file", "feishu"}
    /\ supplyClock \in Nat
    /\ JobShape(connectorJob) /\ connectorJob.generation \in Nat
    /\ runner = [r \in Runners |-> runner[r]]
    /\ \A r \in Runners : ExecutionOk(runner[r]) /\ OnTrack(runner[r]) /\ Unseen(runner[r])
    /\ \A r, q \in Runners : r # q => Apart(runner[r], runner[q])
    /\ IsSequence(acceptedPages)
    /\ \A i \in 1 .. Len(acceptedPages) : RowOk(i)

LEMMA IdleIsOk ==
    /\ ExecutionShape(IdleRunner) /\ IdleRunner.pc = "idle"
    /\ ExecutionOk(IdleRunner) /\ ExecutionOk(IdleRunner)'
    /\ OnTrack(IdleRunner) /\ OnTrack(IdleRunner)'
    /\ Unseen(IdleRunner) /\ Unseen(IdleRunner)'
    /\ \A e : Apart(IdleRunner, e) /\ Apart(IdleRunner, e)'
<1>1. ExecutionShape(IdleRunner) /\ IdleRunner.pc = "idle"
  BY Zenon DEF IdleRunner, ExecutionShape
<1> QED
  BY <1>1, Zenon DEF ExecutionOk, OnTrack, Unseen, Apart

LEMMA ApartIsSymmetric ==
    ASSUME NEW e, NEW f, Apart(e, f)
    PROVE  Apart(f, e)
BY Zenon DEF Apart

\* Nothing a step makes later disturbs what a process holds.
LEMMA HeldStays ==
    ASSUME NEW e, ExecutionOk(e), UNCHANGED <<connector, feed>>,
           supplyClock \in Nat, supplyClock' \in Nat, supplyClock <= supplyClock',
           connectorJob.generation \in Nat, connectorJob'.generation \in Nat,
           connectorJob.generation <= connectorJob'.generation
    PROVE  ExecutionOk(e)'
<1>1. At(e)' = At(e)
  BY Zenon DEF At, Loaded, EmptyCheckpoint
<1>2. FeishuMade(e.page, At(e), e.lease.epoch) => FeishuMade(e.page, At(e), e.lease.epoch)'
  BY <1>1, Zenon DEF FeishuMade, FeishuRef, FeishuNext
<1> QED
  BY <1>1, <1>2 DEF ExecutionOk

LEMMA RowsStay ==
    ASSUME NEW i \in 1 .. Len(acceptedPages), RowOk(i), UNCHANGED <<connector, feed, pageVars>>,
           supplyClock \in Nat, supplyClock' \in Nat, supplyClock <= supplyClock',
           connectorJob.state = "completed" => connectorJob'.state = "completed"
    PROVE  RowOk(i)'
<1>1. Accepted(i)' = Accepted(i) /\ acceptedPages' = acceptedPages
      /\ storedCheckpoint' = storedCheckpoint /\ stagedPages' = stagedPages
  BY Zenon DEF Accepted, pageVars
<1> QED
  BY <1>1 DEF RowOk, FeishuRef, FeishuNext

\* One process moves and no page is accepted.
LEMMA RunnerStep ==
    ASSUME SupplyInv, NEW r \in Runners, NEW new, runner' = [runner EXCEPT ![r] = new],
           UNCHANGED <<connector, feed, pageVars>>,
           supplyClock' \in Nat, supplyClock <= supplyClock',
           JobShape(connectorJob)', connectorJob'.generation \in Nat,
           connectorJob.generation <= connectorJob'.generation,
           connectorJob.state = "completed" => connectorJob'.state = "completed",
           ExecutionOk(new)', OnTrack(new)', Unseen(new)',
           \A q \in Runners \ {r} : OnTrack(runner[q])' /\ Apart(new, runner[q])'
    PROVE  SupplyInv'
<1>1. /\ runner'[r] = new /\ \A q \in Runners \ {r} : runner'[q] = runner[q]
      /\ runner' = [q \in Runners |-> runner'[q]]
  BY Zenon DEF SupplyInv
<1>2. \A i \in 1 .. Len(acceptedPages) : RowOk(i)'
  BY RowsStay, Zenon DEF SupplyInv
<1>3. acceptedPages' = acceptedPages /\ \A i : Accepted(i)' = Accepted(i)
  BY Zenon DEF pageVars, Accepted
<1>4. ASSUME NEW q \in Runners \ {r}
      PROVE  ExecutionOk(runner[q])' /\ OnTrack(runner[q])' /\ Unseen(runner[q])'
  <2>1. PICK e : e = runner[q] /\ e = runner'[q] /\ ExecutionOk(e) /\ Unseen(e)
    BY <1>1, Zenon DEF SupplyInv
  <2>2. ExecutionOk(e)'
    BY <2>1, HeldStays, Zenon DEF SupplyInv
  <2>3. Unseen(e)'
    BY <1>3, <2>1, Zenon DEF Unseen
  <2> QED
    BY <2>1, <2>2, <2>3, Zenon DEF ExecutionOk, Unseen, At
<1>5. ASSUME NEW p \in Runners, NEW q \in Runners, p # q
      PROVE  Apart(runner[p], runner[q])'
  <2>1. CASE p = r
    BY <1>1, <1>5, <2>1, Zenon 
  <2>2. CASE q = r
    <3>1. Apart(new, runner[p])'
      BY <1>5, <2>2, Zenon 
    <3>2. Apart(runner[p], new)'
      BY <3>1, Zenon DEF Apart
    <3> QED
      BY <1>1, <2>2, <3>2, Zenon 
  <2>3. CASE p # r /\ q # r
    <3>1. Apart(runner[p], runner[q]) /\ runner'[p] = runner[p] /\ runner'[q] = runner[q]
      BY <1>1, <1>5, <2>3, Zenon DEF SupplyInv
    <3> QED
      BY <3>1, Zenon DEF Apart
  <2> QED
    BY <2>1, <2>2, <2>3, Zenon 
<1>6. ExecutionOk(runner[r])' /\ OnTrack(runner[r])' /\ Unseen(runner[r])'
  BY <1>1, Zenon 
<1>7. \A q \in Runners : ExecutionOk(runner[q])' /\ OnTrack(runner[q])' /\ Unseen(runner[q])'
  BY <1>4, <1>6, Zenon 
<1>8. IsSequence(acceptedPages)' /\ connector' \in {"file", "feishu"}
  BY <1>3, Zenon DEF SupplyInv
<1> QED
  BY <1>1, <1>2, <1>3, <1>5, <1>7, <1>8, Zenon DEF SupplyInv


-----------------------------------------------------------------------------
(* Steps that accept no page.                                              *)

\* A process that others do not move stays on track while the job does.
LEMMA TrackStays ==
    ASSUME NEW e, OnTrack(e),
           UNCHANGED <<connector, feed, pageVars, connectorJob>>
    PROVE  OnTrack(e)'
BY Zenon DEF OnTrack, At, pageVars, IsAccepted, FeishuRef, Loaded, EmptyCheckpoint

LEMMA StopStep ==
    ASSUME SupplyInv, NEW r \in Runners, Stop(r),
           UNCHANGED <<connector, feed, pageVars, connectorJob>>,
           supplyClock' \in Nat, supplyClock <= supplyClock'
    PROVE  SupplyInv'
<1>1. PICK new : new = IdleRunner
  BY Zenon 
<1>2. runner' = [runner EXCEPT ![r] = new]
  BY <1>1, Zenon DEF Stop
<1>3. /\ ExecutionOk(new)' /\ OnTrack(new)' /\ Unseen(new)' /\ new.pc = "idle"
  BY <1>1, IdleIsOk, Zenon 
<1>4. JobShape(connectorJob)' /\ connectorJob.generation \in Nat
  BY Zenon DEF SupplyInv, JobShape
<1>5. ASSUME NEW q \in Runners \ {r}
      PROVE  OnTrack(runner[q])' /\ Apart(new, runner[q])'
  <2>1. PICK e : e = runner[q] /\ e = runner'[q] /\ OnTrack(e)
    BY <1>2, Zenon DEF SupplyInv
  <2>2. OnTrack(e)' /\ Apart(new, e)'
    BY <1>3, <2>1, TrackStays, Zenon DEF Apart
  <2> QED
    BY <2>1, <2>2, Zenon DEF OnTrack, At, Apart
<1>6. /\ connectorJob'.generation \in Nat /\ connectorJob.generation <= connectorJob'.generation
      /\ connectorJob.state = "completed" => connectorJob'.state = "completed"
      /\ UNCHANGED <<connector, feed, pageVars>>
  BY <1>4
<1> QED
  BY <1>2, <1>3, <1>4, <1>5, <1>6, RunnerStep, ZenonT(60) 

LEMMA HandOverStep ==
    ASSUME SupplyInv, NEW r \in Runners, HandOver(r), connectorJob.state # "completed"
    PROVE  SupplyInv'
<1>1. PICK lease : lease = NextLease
  BY Zenon 
<1>2. PICK new : new = LeasedTo(IdleRunner, lease)
  BY Zenon 
<1>3. runner' = [runner EXCEPT ![r] = new]
  BY <1>1, <1>2, Zenon DEF HandOver, LeasedTo
<1>4. ExecutionShape(new) /\ new.pc = "leased" /\ new.lease = lease
  BY <1>2, IdleIsOk, LeaseIsHanded, Zenon 
<1>5. lease.generation = connectorJob.generation + 1 /\ connectorJob.generation \in Nat
  BY <1>1, Zenon DEF NextLease, SupplyInv
<1>6. /\ connectorJob'.state = "leased" /\ connectorJob'.generation = lease.generation
      /\ JobShape(connectorJob)'
  BY <1>1, Zenon DEF HandOver, LeasedJob, JobShape
<1>7. UNCHANGED <<connector, feed, pageVars>> /\ supplyClock' = supplyClock
      /\ supplyClock \in Nat
  BY Zenon DEF HandOver, sourceVars, SupplyInv
<1>8. ExecutionOk(new)' /\ OnTrack(new)' /\ Unseen(new)'
  BY <1>4, <1>5, <1>6 DEF ExecutionOk, OnTrack, Unseen
<1>9. ASSUME NEW q \in Runners \ {r}
      PROVE  OnTrack(runner[q])' /\ Apart(new, runner[q])'
  <2>1. PICK e : e = runner[q] /\ e = runner'[q] /\ ExecutionOk(e)
    BY <1>3, Zenon DEF SupplyInv
  <2>2. Apart(new, e)'
    BY <1>4, <1>5, <2>1 DEF Apart, ExecutionOk
  <2>3. Apart(new, runner[q])'
    BY <2>1, <2>2, Zenon DEF Apart
  <2> QED
    BY <1>6, <2>3, Zenon DEF OnTrack
<1>10. connectorJob'.generation \in Nat /\ connectorJob.generation <= connectorJob'.generation
       /\ supplyClock <= supplyClock' /\ supplyClock' \in Nat
  BY <1>5, <1>6, <1>7
<1> QED
  BY <1>3, <1>6, <1>7, <1>8, <1>9, <1>10, RunnerStep, Zenon 

LEMMA ExecuteStep ==
    ASSUME SupplyInv, NEW r \in Runners, Execute(r)
    PROVE  SupplyInv'
<1>0. UNCHANGED <<connector, feed, pageVars>> /\ supplyClock' = supplyClock
      /\ supplyClock \in Nat /\ supplyClock' \in Nat /\ supplyClock <= supplyClock'
      /\ runner[r].pc = "leased"
  BY DEF Execute, sourceVars, SupplyInv
<1>1. CASE Stop(r) /\ UNCHANGED connectorJob
  BY <1>0, <1>1, StopStep, Zenon 
<1>2. CASE RedeemForExecution(r)
  <2>1. PICK e, at : e = runner[r] /\ at = storedCheckpoint
    BY Zenon 
  <2>2. PICK new : new = PollingFrom(e, at)
    BY Zenon 
  <2>3. runner' = [runner EXCEPT ![r] = new]
    BY <1>2, <2>1, <2>2, Zenon DEF RedeemForExecution, PollingFrom
  <2>4. PICK job : job = connectorJob /\ JobShape(job)
    BY Zenon DEF SupplyInv
  <2>5. connectorJob' = RedeemedJob(job)
    BY <1>2, <2>4, ZenonT(60) DEF RedeemForExecution, RedeemedJob
  <2>6. /\ JobShape(connectorJob)' /\ connectorJob'.state = "running"
        /\ connectorJob'.generation = connectorJob.generation
        /\ connectorJob.generation \in Nat
    BY <2>4, <2>5, JobIsRedeemed, Zenon DEF JobShape, SupplyInv
  <2>7. ExecutionOk(e) /\ ExecutionShape(e) /\ e.pc = "leased"
    BY <1>0, <2>1, Zenon DEF ExecutionOk, SupplyInv
  <2>8. ExecutionShape(new) /\ new.pc = "polling" /\ new.lease = e.lease /\ new.checkpoint = at
    BY <2>2, <2>7, PollingStarts
  <2>9. e.lease.generation = connectorJob.generation /\ connectorJob.state = "leased"
    BY <1>2, <2>1, Zenon DEF RedeemForExecution, LeaseVerifies
  <2>10. storedCheckpoint' = at
    BY <1>0, <2>1, Zenon DEF pageVars
  <2>11. ExecutionOk(new)' /\ OnTrack(new)' /\ Unseen(new)'
    BY <2>6, <2>7, <2>8, <2>9, <2>10, Zenon DEF ExecutionOk, OnTrack, Unseen, At
  <2>12. ASSUME NEW q \in Runners \ {r}
         PROVE  OnTrack(runner[q])' /\ Apart(new, runner[q])'
    <3>1. PICK f : f = runner[q] /\ f = runner'[q] /\ Apart(e, f)
      BY <2>1, <2>3, Zenon DEF SupplyInv
    <3>2. Apart(new, f)'
      BY <2>7, <2>8, <3>1, Zenon DEF Apart
    <3>3. f.pc # "idle" => f.lease.generation # connectorJob'.generation
      BY <2>6, <2>7, <2>9, <3>1, Zenon DEF Apart
    <3>4. OnTrack(f)'
      BY <3>3, Zenon DEF OnTrack
    <3> QED
      BY <3>1, <3>2, <3>4, Zenon DEF Apart, OnTrack, At
  <2>13. /\ connectorJob'.generation \in Nat /\ connectorJob.generation <= connectorJob'.generation
         /\ connectorJob.state = "completed" => connectorJob'.state = "completed"
    BY <2>6, <2>9
  <2> QED
    BY <1>0, <2>3, <2>6, <2>11, <2>12, <2>13, RunnerStep, Zenon 
<1> QED
  BY <1>1, <1>2, Zenon DEF Execute

LEMMA PollStep ==
    ASSUME SupplyInv, NEW r \in Runners, PollConnector(r)
    PROVE  SupplyInv'
<1>0. /\ UNCHANGED <<connector, feed, pageVars, connectorJob>> /\ supplyClock \in Nat
      /\ runner[r].pc = "polling" /\ supplyClock' \in {supplyClock, supplyClock + 1}
      /\ supplyClock' \in Nat /\ supplyClock <= supplyClock'
      /\ connectorJob.generation \in Nat /\ JobShape(connectorJob)'
  BY DEF PollConnector, sourceVars, SupplyInv, JobShape
<1>1. CASE Stop(r)
  BY <1>0, <1>1, StopStep, Zenon 
<1>2. ASSUME NEW page, page = ConnectorPage(r), supplyClock' = supplyClock + 1,
             runner' = [runner EXCEPT ![r] = [runner[r] EXCEPT !.pc = "accepting", !.page = page]]
      PROVE  SupplyInv'
  <2>1. PICK e, now : e = runner[r] /\ now = supplyClock /\ ExecutionOk(e) /\ OnTrack(e)
    BY Zenon DEF SupplyInv
  <2>2. PICK new : new = Holding(e, page)
    BY Zenon 
  <2>3. runner' = [runner EXCEPT ![r] = new]
    BY <1>2, <2>1, <2>2, Zenon DEF Holding
  <2>4. /\ ExecutionShape(new) /\ new.pc = "accepting" /\ new.lease = e.lease
        /\ new.checkpoint = e.checkpoint /\ new.page = page
    BY <2>1, <2>2, PageIsHeld DEF ExecutionOk
  <2>5. PICK prior : prior = At(e) /\ prior = At(new) /\ prior = At(new)'
    BY <1>0, <2>4, Zenon DEF At, Loaded, EmptyCheckpoint
  <2>6. connector = "file" => FileMade(page, prior) /\ ObservedTimes(page) \subseteq {now}
    <3>1. PICK files, epoch : files = vault /\ epoch = e.lease.epoch
      BY Zenon 
    <3>2. connector = "file" => page = FilePage(prior, files, epoch, now)
      BY <1>2, <2>1, <2>5, <3>1, Zenon DEF ConnectorPage, At
    <3> QED
      BY <3>2, FilePageIsMade, Zenon 
  <2>7. connector = "feishu" => FeishuMade(page, prior, e.lease.epoch)
    <3>1. PICK epoch : epoch = e.lease.epoch
      BY Zenon 
    <3>2. connector = "feishu" => page = FeishuPage(prior, feed, epoch)
      BY <1>2, <2>1, <2>5, <3>1, Zenon DEF ConnectorPage, At
    <3> QED
      BY <3>1, <3>2, FeishuPageIsMade, Zenon 
  <2>8. ExecutionOk(new)'
    <3>1. connector = "feishu" => FeishuMade(page, prior, e.lease.epoch)'
      BY <1>0, <2>7, Zenon DEF FeishuMade, FeishuRef, FeishuNext
    <3>2. connector = "file" => ObservedTimes(page) \subseteq 0 .. (supplyClock' - 1)
      BY <1>0, <1>2, <2>1, <2>6, SMTT(60) 
    <3> QED
      BY <1>0, <2>1, <2>4, <2>5, <2>6, <3>1, <3>2, Zenon DEF ExecutionOk
  <2>9. OnTrack(new)'
    <3>1. OnTrack(new)
      BY <1>0, <2>1, <2>4, <2>5, ZenonT(60) DEF OnTrack
    <3> QED
      BY <1>0, <3>1, TrackStays, Zenon 
  <2>10. Unseen(new)'
    <3>1. \A i \in 1 .. Len(acceptedPages) :
             connector = "file" => ObservedTimes(Accepted(i)) \subseteq 0 .. (now - 1)
      BY <2>1, Zenon DEF SupplyInv, RowOk
    <3>2. acceptedPages' = acceptedPages /\ \A i : Accepted(i)' = Accepted(i)
      BY <1>0, Zenon DEF pageVars, Accepted
    <3>3. \A i \in 1 .. Len(acceptedPages) :
             connector = "file" => ObservedTimes(page) \cap ObservedTimes(Accepted(i)) = {}
      BY <1>0, <2>1, <2>6, <3>1, SMTT(60) 
    <3> QED
      BY <1>0, <2>4, <3>2, <3>3, Zenon DEF Unseen
  <2>11. ASSUME NEW q \in Runners \ {r}
         PROVE  OnTrack(runner[q])' /\ Apart(new, runner[q])'
    <3>1. PICK f : /\ f = runner[q] /\ f = runner'[q] /\ Apart(e, f) /\ ExecutionOk(f)
                   /\ OnTrack(f)
      BY <2>1, <2>3, Zenon DEF SupplyInv
    <3>2. connector = "file" /\ f.pc = "accepting" => ObservedTimes(page) \cap ObservedTimes(f.page) = {}
      BY <1>0, <2>1, <2>6, <3>1, SMTT(60) DEF ExecutionOk
    <3>3. Apart(new, f)'
      BY <1>0, <2>1, <2>4, <3>1, <3>2, Zenon DEF Apart
    <3>4. OnTrack(f)'
      BY <1>0, <3>1, TrackStays, ZenonT(60) 
    <3> QED
      BY <3>1, <3>3, <3>4, Zenon DEF Apart, OnTrack, At
  <2>12. /\ connectorJob'.generation \in Nat /\ connectorJob.generation <= connectorJob'.generation
         /\ connectorJob.state = "completed" => connectorJob'.state = "completed"
         /\ UNCHANGED <<connector, feed, pageVars>>
    BY <1>0
  <2> QED
    BY <1>0, <2>3, <2>8, <2>9, <2>10, <2>11, <2>12, RunnerStep, Zenon 
<1>3. PICK page : page = ConnectorPage(r)
  BY Zenon 
<1> QED
  BY <1>1, <1>2, <1>3, Zenon DEF PollConnector


-----------------------------------------------------------------------------
(* Acceptance.                                                             *)

LEMMA ContinuedRow ==
    ASSUME NEW r \in Runners, NEW e, e = runner[r], ExecutionShape(e), NEW page,
           ContinueAfter(r, page)
    PROVE  \E new : /\ runner' = [runner EXCEPT ![r] = new] /\ ExecutionShape(new)
                    /\ page.terminal => new = IdleRunner
                    /\ ~ page.terminal => /\ new.pc = "polling" /\ new.lease = e.lease
                                          /\ new.checkpoint = page.proposal
<1>1. CASE page.terminal
  BY <1>1, IdleIsOk, Zenon DEF ContinueAfter, Stop
<1>2. CASE ~ page.terminal
  <2>1. PICK proposal, pages1, bytes1, noProgress1 :
           /\ proposal = page.proposal /\ pages1 = e.pages + 1
           /\ bytes1 = e.bytes + PageBytes(page)
           /\ noProgress1 = IF MadeNoProgress(r, page) THEN e.noProgress + 1 ELSE 0
    BY Zenon 
  <2>2. PICK mid : mid = PollingOn(e, proposal)
    BY Zenon 
  <2>3. PICK new : new = Counted(mid, pages1, bytes1, noProgress1)
    BY Zenon 
  <2>4. runner' = [runner EXCEPT ![r] = new]
    BY <1>2, <2>1, <2>2, <2>3, Zenon DEF ContinueAfter, PollingOn, Counted
  <2>5. /\ ExecutionShape(mid) /\ mid.pc = "polling" /\ mid.lease = e.lease
        /\ mid.checkpoint = proposal
    BY <2>2, PollingGoesOn, Zenon 
  <2>6. /\ ExecutionShape(new) /\ new.pc = mid.pc /\ new.lease = mid.lease
        /\ new.checkpoint = mid.checkpoint
    BY <2>3, <2>5, PollingIsCounted, SMTT(60) 
  <2> QED
    BY <1>2, <2>1, <2>4, <2>5, <2>6, Zenon 
<1> QED
  BY <1>1, <1>2, Zenon 

\* What the row of the lease's holder says when its page is accepted.
LEMMA AtAcceptance ==
    ASSUME SupplyInv, NEW r \in Runners, NEW e, e = runner[r], e.pc = "accepting",
           NEW page, page = e.page, MayAccept(e.lease, page)
    PROVE  /\ connectorJob.state = "running"
           /\ e.lease.generation = connectorJob.generation
           /\ page.ref[1] = At(e) /\ page.proposal # NoCheckpoint
           /\ page.terminal \in BOOLEAN
           /\ connector = "file" => FileMade(page, At(e))
           /\ connector = "feishu" => FeishuMade(page, At(e), e.lease.epoch)
           /\ \/ At(e) = Loaded(connector, storedCheckpoint)
              \/ connector = "feishu" /\ IsAccepted(page.ref)
           /\ \A i \in 1 .. Len(acceptedPages) : ~ Accepted(i).terminal
<1>1. ExecutionOk(e) /\ OnTrack(e) /\ connector \in {"file", "feishu"}
  BY Zenon DEF SupplyInv
<1>2. connectorJob.state = "running" /\ e.lease.generation = connectorJob.generation
  BY Zenon DEF MayAccept, LeaseVerifies
<1>3. /\ connector = "file" => FileMade(page, At(e))
      /\ connector = "feishu" => FeishuMade(page, At(e), e.lease.epoch)
  BY <1>1, Zenon DEF ExecutionOk
<1>4. page.ref[1] = At(e) /\ page.proposal # NoCheckpoint /\ page.terminal \in BOOLEAN
  BY <1>1, <1>3, SMTT(60) DEF FileMade, FeishuMade, FeishuRef
<1>5. \/ At(e) = Loaded(connector, storedCheckpoint)
      \/ connector = "feishu" /\ IsAccepted(page.ref)
  BY <1>1, <1>2, <1>3, Zenon DEF OnTrack, FeishuMade
<1>6. \A i \in 1 .. Len(acceptedPages) : ~ Accepted(i).terminal
  BY <1>2, Zenon DEF SupplyInv, RowOk
<1> QED
  BY <1>2, <1>3, <1>4, <1>5, <1>6, Zenon 

\* A page that was accepted before: the holder goes on, and is in a loop of the
\* feed that is accepted already.
LEMMA SeenPageStep ==
    ASSUME SupplyInv, NEW r \in Runners, NEW e, e = runner[r], e.pc = "accepting",
           NEW page, page = e.page, MayAccept(e.lease, page), StagesCleanly(page),
           IsAccepted(page.ref), ContinueAfter(r, page),
           UNCHANGED <<connector, feed, pageVars, connectorJob, supplyClock>>
    PROVE  SupplyInv'
<1>1. ExecutionOk(e) /\ Unseen(e) /\ ExecutionShape(e)
  BY Zenon DEF SupplyInv, ExecutionOk
<1>2. PICK i \in 1 .. Len(acceptedPages) : acceptedPages[i] = page.ref
  BY Zenon DEF IsAccepted, SupplyInv, IsSequence
<1>3. Accepted(i) = page /\ RowOk(i)
  BY <1>2, Zenon DEF Accepted, RowOk, StagesCleanly, SupplyInv
<1>4. ~ page.terminal /\ connectorJob.state = "running"
  BY <1>3, AtAcceptance, Zenon 
<1>5. connector = "feishu"
  <2>1. CASE connector = "file"
    <3>1. ObservedTimes(page) # {}
      BY <1>4, <2>1, AtAcceptance, Zenon DEF FileMade
    <3>2. ObservedTimes(page) \cap ObservedTimes(page) = {}
      BY <1>1, <1>3, <2>1, Zenon DEF Unseen
    <3> QED
      BY <3>1, <3>2, Zenon 
  <2> QED
    BY <2>1, Zenon DEF SupplyInv
<1>6. \/ page.proposal = storedCheckpoint
      \/ IsAccepted(FeishuRef(page.proposal))
  <2>1. CASE i = Len(acceptedPages)
    BY <1>3, <2>1, Zenon DEF RowOk
  <2>2. CASE i # Len(acceptedPages)
    <3>1. i + 1 \in 1 .. Len(acceptedPages) /\ Len(acceptedPages) \in Nat
      BY <2>2 DEF SupplyInv, IsSequence
    <3>2. RowOk(i + 1) /\ DOMAIN acceptedPages = 1 .. Len(acceptedPages)
      BY <3>1, Zenon DEF SupplyInv, IsSequence
    <3>3. page.proposal = acceptedPages[i + 1][1]
      BY <1>3, <2>2, Zenon DEF RowOk
    <3>4. acceptedPages[i + 1] = FeishuRef(page.proposal)
      BY <1>5, <3>2, <3>3, ZenonT(60) DEF RowOk
    <3> QED
      BY <3>1, <3>2, <3>4, Zenon DEF IsAccepted
  <2> QED
    BY <2>1, <2>2, Zenon 
<1>7. PICK new : /\ runner' = [runner EXCEPT ![r] = new] /\ ExecutionShape(new)
                 /\ new.pc = "polling" /\ new.lease = e.lease
                 /\ new.checkpoint = page.proposal
  BY <1>1, <1>4, ContinuedRow, SMTT(60) 
<1>8. page.proposal # NoCheckpoint
  BY AtAcceptance, Zenon 
<1>9. OnTrack(new)'
  <2>1. OnTrack(new)
    BY <1>5, <1>6, <1>7, <1>8, Zenon DEF OnTrack, At, Loaded
  <2> QED
    BY <2>1, TrackStays, Zenon 
<1>10. ExecutionOk(new)' /\ Unseen(new)'
  BY <1>1, <1>7, Zenon DEF ExecutionOk, Unseen
<1>11. ASSUME NEW q \in Runners \ {r}
       PROVE  OnTrack(runner[q])' /\ Apart(new, runner[q])'
  <2>1. PICK f : f = runner[q] /\ f = runner'[q] /\ Apart(e, f) /\ OnTrack(f)
    BY <1>7, Zenon DEF SupplyInv
  <2>2. OnTrack(f)' /\ Apart(new, f)'
    BY <1>7, <2>1, TrackStays, ZenonT(60) DEF Apart
  <2> QED
    BY <2>1, <2>2, Zenon DEF OnTrack, At, Apart
<1>12. /\ connectorJob'.generation \in Nat /\ connectorJob.generation <= connectorJob'.generation
       /\ connectorJob.state = "completed" => connectorJob'.state = "completed"
       /\ UNCHANGED <<connector, feed, pageVars>> /\ JobShape(connectorJob)'
       /\ supplyClock' \in Nat /\ supplyClock <= supplyClock'
  BY SMTT(60) DEF SupplyInv, JobShape
<1> QED
  BY <1>7, <1>9, <1>10, <1>11, <1>12, RunnerStep, Zenon 


\* What acceptance of a new page leaves of the tables.
LEMMA NewPageRows ==
    ASSUME SupplyInv, NEW n, n = Len(acceptedPages), NEW page, ~ IsAccepted(page.ref), StorePage(page)
    PROVE  /\ IsSequence(acceptedPages)' /\ n \in Nat /\ Len(acceptedPages') = n + 1
           /\ acceptedPages'[n + 1] = page.ref
           /\ Accepted(n + 1)' = page
           /\ DOMAIN acceptedPages = 1 .. n
           /\ DOMAIN acceptedPages' = 1 .. (n + 1)
           /\ \A i \in 1 .. n :
                 /\ acceptedPages'[i] = acceptedPages[i] /\ acceptedPages[i] # page.ref
                 /\ Accepted(i)' = Accepted(i)
                 /\ acceptedPages[i] \in DOMAIN stagedPages'
           /\ page.ref \in DOMAIN stagedPages'
           /\ storedCheckpoint' = page.proposal
           /\ connectorJob' = JobIn(connectorJob, IF page.terminal THEN "completed" ELSE "running")
<1>1. /\ stagedPages' = [ref \in DOMAIN stagedPages \cup {page.ref} |->
                            IF ref = page.ref THEN page ELSE stagedPages[ref]]
      /\ acceptedPages' = Append(acceptedPages, page.ref)
      /\ storedCheckpoint' = page.proposal
      /\ connectorJob' = JobIn(connectorJob, IF page.terminal THEN "completed" ELSE "running")
  BY Zenon DEF StorePage, JobIn
<1>2. PICK ref : ref = page.ref
  BY Zenon 
<1>3. IsSequence(acceptedPages) /\ acceptedPages' = Append(acceptedPages, ref)
      /\ Len(acceptedPages) \in Nat
  BY <1>1, <1>2, Zenon DEF SupplyInv, IsSequence
<1>4. PICK a : a = acceptedPages
  BY Zenon 
<1>5. /\ IsSequence(Append(a, ref)) /\ Len(Append(a, ref)) = Len(a) + 1
      /\ Append(a, ref)[Len(a) + 1] = ref
      /\ \A i \in 1 .. Len(a) : Append(a, ref)[i] = a[i]
      /\ DOMAIN a = 1 .. Len(a) /\ DOMAIN Append(a, ref) = 1 .. (Len(a) + 1)
  BY <1>3, <1>4, SequenceAppended
<1>6. /\ IsSequence(acceptedPages)' /\ Len(acceptedPages') = n + 1
      /\ acceptedPages'[n + 1] = page.ref
      /\ \A i \in 1 .. n : acceptedPages'[i] = acceptedPages[i]
      /\ DOMAIN acceptedPages = 1 .. n
      /\ DOMAIN acceptedPages' = 1 .. (n + 1)
  BY <1>2, <1>3, <1>4, <1>5, Zenon DEF IsSequence
<1>7. \A i \in 1 .. n :
         acceptedPages[i] # page.ref /\ acceptedPages[i] \in DOMAIN stagedPages
  BY <1>6, Zenon DEF IsAccepted, SupplyInv, RowOk
<1>8. /\ \A i \in 1 .. n : /\ Accepted(i)' = Accepted(i)
                                            /\ acceptedPages[i] \in DOMAIN stagedPages'
      /\ Accepted(n + 1)' = page /\ page.ref \in DOMAIN stagedPages'
  BY <1>1, <1>6, <1>7, SMTT(60) DEF Accepted
<1> QED
  BY <1>1, <1>3, <1>6, <1>7, <1>8, Zenon 

LEMMA NewPageStep ==
    ASSUME SupplyInv, NEW r \in Runners, NEW e, e = runner[r], e.pc = "accepting",
           NEW page, page = e.page, MayAccept(e.lease, page),
           ~ IsAccepted(page.ref), StorePage(page), ContinueAfter(r, page),
           UNCHANGED <<connector, feed, supplyClock>>
    PROVE  SupplyInv'
<1>0. PICK n : n = Len(acceptedPages)
  BY Zenon 
<1>1. /\ ExecutionOk(e) /\ Unseen(e) /\ ExecutionShape(e) /\ connector \in {"file", "feishu"}
      /\ connectorJob.generation \in Nat /\ supplyClock \in Nat /\ JobShape(connectorJob)
  BY Zenon DEF SupplyInv, ExecutionOk
<1>2. PICK prior : prior = At(e)
  BY ZenonT(60) 
<1>3. /\ connectorJob.state = "running" /\ e.lease.generation = connectorJob.generation
      /\ page.ref[1] = prior /\ page.proposal # NoCheckpoint /\ page.terminal \in BOOLEAN
      /\ connector = "file" => FileMade(page, prior)
      /\ connector = "feishu" => FeishuMade(page, prior, e.lease.epoch)
      /\ prior = Loaded(connector, storedCheckpoint)
      /\ \A i \in 1 .. n : ~ Accepted(i).terminal
  BY <1>0, <1>2, AtAcceptance, Zenon 
<1>4. /\ IsSequence(acceptedPages)' /\ n \in Nat /\ Len(acceptedPages') = n + 1
      /\ acceptedPages'[n + 1] = page.ref /\ Accepted(n + 1)' = page
      /\ DOMAIN acceptedPages' = 1 .. (n + 1)
      /\ \A i \in 1 .. n : /\ acceptedPages'[i] = acceptedPages[i]
                           /\ Accepted(i)' = Accepted(i)
                           /\ acceptedPages[i] \in DOMAIN stagedPages'
      /\ page.ref \in DOMAIN stagedPages' /\ storedCheckpoint' = page.proposal
      /\ connectorJob' = JobIn(connectorJob, IF page.terminal THEN "completed" ELSE "running")
  BY <1>0, NewPageRows, Zenon 
<1>5. PICK job, state : /\ job = connectorJob /\ JobShape(job)
                        /\ state = IF page.terminal THEN "completed" ELSE "running"
  BY <1>1, Zenon 
<1>6. /\ JobShape(connectorJob)' /\ connectorJob'.generation = connectorJob.generation
      /\ connectorJob'.state = state
  BY <1>4, <1>5, JobMoves, SMTT(60) DEF JobShape
<1>7. ASSUME NEW i \in 1 .. n
      PROVE  RowOk(i)'
  <2>1. RowOk(i) /\ ~ Accepted(i).terminal
    BY <1>0, <1>3, Zenon DEF SupplyInv
  <2>2. Accepted(i).proposal = IF i = n THEN page.ref[1] ELSE acceptedPages'[i + 1][1]
    <3>1. CASE i = n
      BY <1>0, <1>3, <2>1, <3>1, Zenon DEF RowOk, Loaded
    <3>2. CASE i # n
      <4>1. i + 1 \in 1 .. n
        BY <1>4, <3>2
      <4> QED
        BY <1>0, <1>4, <2>1, <3>2, <4>1, Zenon DEF RowOk
    <3> QED
      BY <3>1, <3>2, ZenonT(60) 
  <2>3. i # n + 1 /\ Accepted(i).proposal = acceptedPages'[i + 1][1]
    BY <1>4, <2>2, SMTT(60) 
  <2> QED
    BY <1>4, <2>1, <2>3, Zenon DEF RowOk, FeishuRef, FeishuNext
<1>8. RowOk(n + 1)'
  <2>1. connector = "feishu" => /\ page.ref = FeishuRef(page.ref[1])
                                /\ page.proposal = FeishuNext(page.ref[1])
    BY <1>3, Zenon DEF FeishuMade
  <2>2. connector = "file" => /\ ObservedTimes(page) \subseteq 0 .. (supplyClock - 1)
                              /\ ~ page.terminal => ObservedTimes(page) # {}
                              /\ page.ref = <<prior, page.proposal>>
    BY <1>1, <1>3, ZenonT(60) DEF ExecutionOk, FileMade
  <2>3. Accepted(n + 1)'.ref = acceptedPages'[n + 1]
    BY <1>4, ZenonT(60) 
  <2> QED
    BY <1>1, <1>3, <1>4, <1>5, <1>6, <2>1, <2>2, <2>3, ZenonT(60) DEF RowOk, FeishuRef, FeishuNext
<1>9. \A i \in 1 .. Len(acceptedPages') : RowOk(i)'
  BY <1>4, <1>7, <1>8, SMTT(60) 
<1>10. PICK new : /\ runner' = [runner EXCEPT ![r] = new] /\ ExecutionShape(new)
                  /\ page.terminal => new = IdleRunner
                  /\ ~ page.terminal => /\ new.pc = "polling" /\ new.lease = e.lease
                                        /\ new.checkpoint = page.proposal
  BY <1>1, ContinuedRow, SMTT(60) 
<1>11. /\ runner'[r] = new /\ \A q \in Runners \ {r} : runner'[q] = runner[q]
       /\ runner' = [q \in Runners |-> runner'[q]]
  BY <1>10, Zenon DEF SupplyInv
<1>12. ExecutionOk(new)' /\ OnTrack(new)' /\ Unseen(new)'
  <2>1. CASE page.terminal
    BY <1>10, <2>1, IdleIsOk, ZenonT(60) 
  <2>2. CASE ~ page.terminal
    <3>1. At(new)' = Loaded(connector, storedCheckpoint)'
      BY <1>4, <1>10, <2>2, ZenonT(60) DEF At
    <3> QED
      BY <1>1, <1>6, <1>10, <2>2, <3>1, ZenonT(60) DEF ExecutionOk, OnTrack, Unseen
  <2> QED
    BY <2>1, <2>2, Zenon 
<1>13. ASSUME NEW q \in Runners \ {r}
       PROVE  /\ ExecutionOk(runner[q])' /\ OnTrack(runner[q])' /\ Unseen(runner[q])'
              /\ Apart(new, runner[q])'
  <2>1. PICK f : /\ f = runner[q] /\ f = runner'[q] /\ Apart(e, f) /\ ExecutionOk(f)
                 /\ Unseen(f)
    BY <1>11, Zenon DEF SupplyInv
  <2>2. ExecutionOk(f)'
    BY <1>1, <1>6, <2>1, HeldStays, SMTT(60) 
  <2>3. OnTrack(f)'
    BY <1>3, <1>6, <2>1, ZenonT(60) DEF OnTrack, Apart
  <2>4. Unseen(f)'
    <3>1. connector = "file" /\ f.pc = "accepting" => ObservedTimes(f.page) \cap ObservedTimes(page) = {}
      BY <2>1, ZenonT(60) DEF Apart
    <3>2. ASSUME connector = "file", f.pc = "accepting", NEW i \in 1 .. (n + 1)
          PROVE  ObservedTimes(f.page) \cap ObservedTimes(Accepted(i)') = {}
      <4>1. CASE i = n + 1
        BY <1>4, <3>1, <3>2, <4>1, Zenon 
      <4>2. CASE i \in 1 .. n
        BY <1>0, <1>4, <2>1, <3>2, <4>2, Zenon DEF Unseen
      <4> QED
        BY <1>4, <4>1, <4>2, SMTT(60) 
    <3> QED
      BY <1>4, <3>2, ZenonT(60) DEF Unseen, Accepted
  <2>5. Apart(new, f)'
    <3>1. CASE page.terminal
      BY <1>10, <3>1, IdleIsOk, ZenonT(60) DEF Apart
    <3>2. CASE ~ page.terminal
      BY <1>10, <2>1, <3>2, ZenonT(60) DEF Apart
    <3> QED
      BY <3>1, <3>2, Zenon 
  <2> QED
    BY <2>1, <2>2, <2>3, <2>4, <2>5, ZenonT(60) DEF ExecutionOk, OnTrack, Unseen, Apart, At
<1>14. ASSUME NEW p \in Runners, NEW q \in Runners, p # q
       PROVE  Apart(runner[p], runner[q])'
  <2>1. CASE p = r
    BY <1>11, <1>13, <1>14, <2>1, Zenon 
  <2>2. CASE q = r
    <3>1. Apart(new, runner[p])'
      BY <1>13, <1>14, <2>2, ZenonT(60) 
    <3>2. Apart(runner[p], new)'
      BY <3>1, ZenonT(60) DEF Apart
    <3> QED
      BY <1>11, <2>2, <3>2, Zenon 
  <2>3. CASE p # r /\ q # r
    <3>1. Apart(runner[p], runner[q]) /\ runner'[p] = runner[p] /\ runner'[q] = runner[q]
      BY <1>11, <1>14, <2>3, Zenon DEF SupplyInv
    <3> QED
      BY <3>1, Zenon DEF Apart
  <2> QED
    BY <2>1, <2>2, <2>3, Zenon 
<1>15. \A q \in Runners : ExecutionOk(runner[q])' /\ OnTrack(runner[q])' /\ Unseen(runner[q])'
  BY <1>11, <1>12, <1>13, Zenon 
<1> QED
  BY <1>1, <1>4, <1>6, <1>9, <1>11, <1>14, <1>15, Zenon DEF SupplyInv


LEMMA AcceptStep ==
    ASSUME SupplyInv, NEW r \in Runners, AcceptChangePage(r)
    PROVE  SupplyInv'
<1>0. /\ UNCHANGED <<connector, feed, supplyClock>> /\ runner[r].pc = "accepting"
      /\ supplyClock' \in Nat /\ supplyClock <= supplyClock'
  BY DEF AcceptChangePage, sourceVars, SupplyInv
<1>1. PICK e, page : e = runner[r] /\ page = e.page
  BY Zenon 
<1>2. CASE Stop(r) /\ UNCHANGED <<pageVars, connectorJob>>
  BY <1>0, <1>2, StopStep, Zenon 
<1>3. CASE /\ MayAccept(e.lease, page) /\ StagesCleanly(page)
           /\ StorePage(page) /\ ContinueAfter(r, page)
  <2>1. CASE IsAccepted(page.ref)
    <3>1. UNCHANGED <<pageVars, connectorJob>>
      BY <1>3, <2>1, Zenon DEF StorePage
    <3>2. UNCHANGED <<connector, feed, pageVars, connectorJob, supplyClock>>
      BY <1>0, <3>1, Zenon 
    <3> QED
      BY <1>0, <1>1, <1>3, <2>1, <3>2, SeenPageStep, Zenon 
  <2>2. CASE ~ IsAccepted(page.ref)
    BY <1>0, <1>1, <1>3, <2>2, NewPageStep, Zenon 
  <2> QED
    BY <2>1, <2>2, Zenon 
<1> QED
  BY <1>1, <1>2, <1>3, Zenon DEF AcceptChangePage

\* What else happens moves the vault, the epoch, the source or the clock.
LEMMA WorldStep ==
    ASSUME SupplyInv, UNCHANGED <<connector, feed, pageVars, connectorJob, runner>>,
           supplyClock' \in Nat, supplyClock <= supplyClock'
    PROVE  SupplyInv'
<1>1. ASSUME NEW r \in Runners
      PROVE  ExecutionOk(runner[r])' /\ OnTrack(runner[r])' /\ Unseen(runner[r])'
  <2>1. PICK e : e = runner[r] /\ e = runner'[r] /\ ExecutionOk(e) /\ OnTrack(e) /\ Unseen(e)
    BY Zenon DEF SupplyInv
  <2>2. ExecutionOk(e)'
    BY <2>1, HeldStays DEF SupplyInv
  <2>3. OnTrack(e)'
    BY <2>1, TrackStays, Zenon 
  <2>4. Unseen(e)'
    BY <2>1, Zenon DEF Unseen, Accepted, pageVars
  <2> QED
    BY <2>1, <2>2, <2>3, <2>4, Zenon DEF ExecutionOk, OnTrack, Unseen, At
<1>2. \A i \in 1 .. Len(acceptedPages) : RowOk(i)'
  BY RowsStay, Zenon DEF SupplyInv
<1>3. acceptedPages' = acceptedPages
  BY Zenon DEF pageVars
<1>4. \A r, q \in Runners : r # q => Apart(runner[r], runner[q])'
  BY Zenon DEF SupplyInv, Apart
<1>5. /\ connector' \in {"file", "feishu"} /\ JobShape(connectorJob)'
      /\ connectorJob'.generation \in Nat /\ runner' = [r \in Runners |-> runner'[r]]
      /\ IsSequence(acceptedPages)'
  BY <1>3, Zenon DEF SupplyInv, JobShape, IsSequence
<1> QED
  BY <1>1, <1>2, <1>3, <1>4, <1>5, Zenon DEF SupplyInv

LEMMA SupplyStep ==
    ASSUME SupplyInv, [SupplyNext]_supplyVars
    PROVE  SupplyInv'
<1>0. supplyClock \in Nat
  BY Zenon DEF SupplyInv
<1>1. ASSUME NEW r \in Runners, IssueConnectorLease(r) \/ PreemptConnectorLease(r)
      PROVE  SupplyInv'
  <2>1. HandOver(r) /\ connectorJob.state # "completed"
    BY <1>1, Zenon DEF IssueConnectorLease, PreemptConnectorLease
  <2> QED
    BY <2>1, HandOverStep, Zenon 
<1>2. ASSUME NEW r \in Runners, LoseRunner(r)
      PROVE  SupplyInv'
  <2>1. Stop(r) /\ UNCHANGED <<connector, feed, pageVars, connectorJob>>
        /\ supplyClock' \in Nat /\ supplyClock <= supplyClock'
    BY <1>0, <1>2 DEF LoseRunner, sourceVars
  <2> QED
    BY <2>1, StopStep, Zenon 
<1>3. CASE \/ \E p \in Paths, c \in Contents \cup {Absent} : ChangeFile(p, c)
           \/ AdvanceSupplyEpoch \/ RetireConnectorSource \/ PassTime
           \/ UNCHANGED supplyVars
  <2>1. /\ UNCHANGED <<connector, feed, pageVars, connectorJob, runner>>
        /\ supplyClock' \in Nat /\ supplyClock <= supplyClock'
    BY <1>0, <1>3, SMTT(60) DEF ChangeFile, AdvanceSupplyEpoch, RetireConnectorSource, PassTime,
                      supplyVars, sourceVars
  <2> QED
    BY <2>1, WorldStep, Zenon 
<1> QED
  BY <1>1, <1>2, <1>3, ExecuteStep, PollStep, AcceptStep, Zenon DEF SupplyNext

LEMMA SupplyStarts == SupplyInit => SupplyInv
<1> SUFFICES ASSUME SupplyInit PROVE SupplyInv
  OBVIOUS
<1>1. PICK idle : idle = IdleRunner
  BY Zenon 
<1>2. /\ ExecutionOk(idle) /\ OnTrack(idle) /\ Unseen(idle)
      /\ \A e : Apart(idle, e)
  BY <1>1, IdleIsOk, Zenon 
<1>3. runner = [r \in Runners |-> idle]
  BY <1>1, Zenon DEF SupplyInit
<1>4. Len(acceptedPages) = 0 /\ IsSequence(acceptedPages)
  BY DEF SupplyInit, IsSequence
<1>5. JobShape(connectorJob) /\ connectorJob.generation \in Nat
      /\ connector \in {"file", "feishu"} /\ supplyClock \in Nat
  BY Zenon DEF SupplyInit, JobShape
<1>6. \A r \in Runners : runner[r] = idle
  BY <1>3, Zenon 
<1>7. runner = [r \in Runners |-> runner[r]]
  BY <1>3, Zenon 
<1> QED
  BY <1>2, <1>4, <1>5, <1>6, <1>7 DEF SupplyInv

\* Only acceptance of a new page by the holder of the lease changes the tables.
LEMMA ChangeOfPages ==
    ASSUME SupplyInv, [SupplyNext]_supplyVars
    PROVE  /\ connector' = connector
           /\ \/ pageVars' = pageVars
              \/ \E r \in Runners :
                    /\ runner[r].pc = "accepting"
                    /\ MayAccept(runner[r].lease, runner[r].page)
                    /\ ~ IsAccepted(runner[r].page.ref) /\ StorePage(runner[r].page)
<1>1. ASSUME NEW r \in Runners, AcceptChangePage(r)
      PROVE  \/ pageVars' = pageVars
             \/ /\ runner[r].pc = "accepting"
                /\ MayAccept(runner[r].lease, runner[r].page)
                /\ ~ IsAccepted(runner[r].page.ref) /\ StorePage(runner[r].page)
  BY <1>1, Zenon DEF AcceptChangePage, StorePage, pageVars
<1>2. connector' = connector
  BY ZenonT(60) DEF SupplyNext, IssueConnectorLease, PreemptConnectorLease, HandOver, Execute,
         PollConnector, AcceptChangePage, LoseRunner, ChangeFile, AdvanceSupplyEpoch,
         RetireConnectorSource, PassTime, supplyVars, sourceVars
<1>3. \/ \E r \in Runners : AcceptChangePage(r)
      \/ pageVars' = pageVars
  BY Zenon DEF SupplyNext, IssueConnectorLease, PreemptConnectorLease, HandOver, Execute,
         PollConnector, LoseRunner, ChangeFile, AdvanceSupplyEpoch,
         RetireConnectorSource, PassTime, supplyVars
<1> QED
  BY <1>1, <1>2, <1>3, Zenon 

-----------------------------------------------------------------------------
(* The chain of pages.                                                     *)

\* The Supply bridge implements the chain of pages (SupplyStream), for every
\* number of runners, every feed, every vault and every bound: each page that
\* context_supply_accept_connector_page accepts starts where the last one ended,
\* none comes twice and none follows the terminal page.
THEOREM BridgeImplementsStream == SupplySpec => AcceptedPagesFormAStream
<1>1. SupplyInit => Stream!StreamInit
  <2> SUFFICES ASSUME SupplyInit PROVE Stream!StreamInit
    OBVIOUS
  <2>1. acceptedPages = <<>> /\ storedCheckpoint = NoCheckpoint
        /\ connector \in {"file", "feishu"}
    BY Zenon DEF SupplyInit
  <2>2. AcceptedChain = <<>>
    BY <2>1 DEF AcceptedChain
  <2>3. Loaded(connector, storedCheckpoint) \in
            {EmptyCheckpoint("file"), EmptyCheckpoint("feishu")}
    BY <2>1, Zenon DEF Loaded
  <2> QED
    BY <2>2, <2>3, Zenon DEF Stream!StreamInit
<1>2. ASSUME SupplyInv, [SupplyNext]_supplyVars
      PROVE  [Stream!StreamNext]_(Stream!streamVars)
  <2>1. CASE pageVars' = pageVars
    <3>1. UNCHANGED <<acceptedPages, stagedPages, storedCheckpoint, connector>>
      BY <1>2, <2>1, ChangeOfPages, Zenon DEF pageVars
    <3>2. AcceptedChain' = AcceptedChain
          /\ Loaded(connector, storedCheckpoint)' = Loaded(connector, storedCheckpoint)
      BY <3>1, Zenon DEF AcceptedChain, Loaded, EmptyCheckpoint
    <3> QED
      BY <3>2, Zenon DEF Stream!streamVars
  <2>2. ASSUME NEW r \in Runners, runner[r].pc = "accepting",
               MayAccept(runner[r].lease, runner[r].page),
               ~ IsAccepted(runner[r].page.ref), StorePage(runner[r].page)
        PROVE  Stream!StreamNext
    <3>1. PICK e, page, n : e = runner[r] /\ page = e.page /\ n = Len(acceptedPages)
      BY ZenonT(60) 
    <3>2. /\ page.ref[1] = Loaded(connector, storedCheckpoint)
          /\ page.proposal # NoCheckpoint
          /\ \A i \in 1 .. n : ~ Accepted(i).terminal
      BY <1>2, <2>2, <3>1, AtAcceptance, Zenon 
    <3>3. /\ n \in Nat /\ Accepted(n + 1)' = page
          /\ DOMAIN acceptedPages = 1 .. n /\ DOMAIN acceptedPages' = 1 .. (n + 1)
          /\ \A i \in 1 .. n : Accepted(i)' = Accepted(i) /\ acceptedPages[i] # page.ref
          /\ storedCheckpoint' = page.proposal
      BY <1>2, <2>2, <3>1, NewPageRows, Zenon 
    <3>4. PICK c, d : c = AcceptedChain /\ d = AcceptedChain'
      BY ZenonT(60) 
    <3>5. /\ c = [i \in 1 .. n |-> c[i]] /\ \A i \in 1 .. n : c[i] = Accepted(i)
          /\ d = [i \in 1 .. (n + 1) |-> d[i]] /\ \A i \in 1 .. (n + 1) : d[i] = Accepted(i)'
      BY <3>3, <3>4, Zenon DEF AcceptedChain, Accepted
    <3>6. /\ IsSequence(c) /\ Len(c) = n /\ DOMAIN c = 1 .. n
          /\ IsSequence(d) /\ Len(d) = n + 1 /\ n + 1 \in Nat
      <4>1. n + 1 \in Nat
        BY <3>3
      <4> QED
        BY <3>3, <3>5, <4>1, SequenceOfParts, Zenon 
    <3>7. d = Append(c, page)
      <4>1. PICK a : a = Append(c, page)
        BY Zenon 
      <4>2. /\ IsSequence(a) /\ Len(a) = n + 1 /\ a[n + 1] = page
            /\ \A i \in 1 .. n : a[i] = c[i]
        BY <3>6, <4>1, SequenceAppended
      <4>3. \A i \in 1 .. (n + 1) : a[i] = d[i]
        <5> SUFFICES ASSUME NEW i \in 1 .. (n + 1) PROVE a[i] = d[i]
          OBVIOUS
        <5>1. CASE i = n + 1
          BY <3>3, <3>5, <4>2, <5>1, Zenon 
        <5>2. CASE i \in 1 .. n
          BY <3>3, <3>5, <4>2, <5>2, Zenon 
        <5> QED
          BY <3>3, <5>1, <5>2
      <4> QED
        BY <3>5, <4>1, <4>2, <4>3, Zenon DEF IsSequence
    <3>8. d # <<>> /\ d[Len(d)] = page
      BY <3>3, <3>5, <3>6
    <3>9. c = <<>> \/ ~ c[Len(c)].terminal
      BY <3>2, <3>3, <3>5, <3>6, SMTT(60) 
    <3>10. \A i \in DOMAIN c : c[i].ref # page.ref
      BY <1>2, <3>1, <3>3, <3>5, <3>6, SMTT(60) DEF SupplyInv, RowOk
    <3>11. Loaded(connector, storedCheckpoint)' = page.proposal
      BY <3>2, <3>3, Zenon DEF Loaded
    <3> QED
      BY <3>2, <3>4, <3>7, <3>8, <3>9, <3>10, <3>11, Zenon
         DEF Stream!StreamNext, Stream!Extend, Stream!IsOpen
  <2> QED
    BY <1>2, <2>1, <2>2, ChangeOfPages, Zenon 
<1> QED
  BY <1>1, <1>2, SupplyStarts, SupplyStep, PTL
     DEF SupplySpec, AcceptedPagesFormAStream, Stream!StreamSpec


-----------------------------------------------------------------------------
(* What the pages of a File job say.                                       *)

Touching(p, n, chain) == {i \in 1 .. n : Names(chain[i], p)}
LastTouching(p, n, chain) ==
    CHOOSE i \in Touching(p, n, chain) : \A j \in Touching(p, n, chain) : j <= i
ContentIn(page, p) ==
    IF \E d \in page.deleted : d.ref = p THEN Absent
    ELSE (CHOOSE d \in page.documents : d.ref = p).content
ContentAfter(p, n, chain) ==
    IF Touching(p, n, chain) = {} THEN Absent
    ELSE ContentIn(chain[LastTouching(p, n, chain)], p)

LEMMA ReplayedIsContent ==
    ASSUME NEW p, NEW n
    PROVE  /\ ReplayedContent(p, n) = ContentAfter(p, n, AcceptedChain)
           /\ ReplayedContent(p, n)' = ContentAfter(p, n, AcceptedChain')
BY Zenon DEF ReplayedContent, ContentAfter, LastTouching, Touching, ContentIn, Names

LEMMA LastTouches ==
    ASSUME NEW p, NEW n \in Nat, NEW chain, Touching(p, n, chain) # {}
    PROVE  /\ LastTouching(p, n, chain) \in Touching(p, n, chain)
           /\ \A j \in Touching(p, n, chain) : j <= LastTouching(p, n, chain)
<1>1. /\ Touching(p, n, chain) \subseteq Nat
      /\ \A m \in Touching(p, n, chain) : m <= n
  BY DEF Touching
<1>2. PICK T : T = Touching(p, n, chain)
  BY Zenon 
<1>3. \E i \in T : \A j \in T : j <= i
  BY <1>1, <1>2, GreatestNatural, Zenon 
<1> QED
  BY <1>2, <1>3, Zenon DEF LastTouching

OneMore(p, n, c, d, page, prior) ==
    /\ \A i \in 1 .. n : d[i] = c[i]
    /\ d[n + 1] = page
    /\ SaysWhatChanges(page, prior)
    /\ ContentAfter(p, n, c) = prior.entries[p]

\* One page more changes the content of the paths it names, to what it says.
LEMMA ContentOfOneMore ==
    ASSUME NEW p \in Paths, NEW n \in Nat, NEW c, NEW d, NEW page, NEW prior,
           OneMore(p, n, c, d, page, prior)
    PROVE  ContentAfter(p, n + 1, d) = page.proposal.entries[p]
<1>0. /\ \A i \in 1 .. n : d[i] = c[i]
      /\ d[n + 1] = page /\ SaysWhatChanges(page, prior)
      /\ ContentAfter(p, n, c) = prior.entries[p]
  BY Zenon DEF OneMore
<1>1. CASE Names(page, p)
  <2>1. n + 1 \in Touching(p, n + 1, d)
    BY <1>0, <1>1 DEF Touching
  <2>2. PICK k : k = LastTouching(p, n + 1, d)
    BY Zenon 
  <2>3. k \in Touching(p, n + 1, d) /\ n + 1 <= k
    BY <2>1, <2>2, LastTouches
  <2>4. k = n + 1
    BY <2>3 DEF Touching
  <2>5. ContentAfter(p, n + 1, d) = ContentIn(page, p)
    BY <1>0, <2>1, <2>2, <2>4, Zenon DEF ContentAfter
  <2>6. CASE \E e \in page.deleted : e.ref = p
    BY <1>0, <2>5, <2>6, Zenon DEF ContentIn, SaysWhatChanges
  <2>7. CASE ~ \E e \in page.deleted : e.ref = p
    <3>1. \E e \in page.documents : e.ref = p
      BY <1>1, <2>7, Zenon DEF Names
    <3>2. PICK e : e = CHOOSE x \in page.documents : x.ref = p
      BY Zenon 
    <3>3. e \in page.documents /\ e.ref = p
      BY <3>1, <3>2, Zenon 
    <3>4. ContentIn(page, p) = e.content
      BY <2>7, <3>2, ZenonT(60) DEF ContentIn
    <3> QED
      BY <1>0, <2>5, <3>3, <3>4, Zenon DEF SaysWhatChanges
  <2> QED
    BY <2>6, <2>7, Zenon 
<1>2. CASE ~ Names(page, p)
  <2>1. Touching(p, n + 1, d) = Touching(p, n, c)
    BY <1>0, <1>2 DEF Touching
  <2>2. LastTouching(p, n + 1, d) = LastTouching(p, n, c)
    BY <2>1, ZenonT(60) DEF LastTouching
  <2>3. Touching(p, n, c) # {} => d[LastTouching(p, n, c)] = c[LastTouching(p, n, c)]
    BY <1>0, LastTouches, Zenon DEF Touching
  <2>4. ContentAfter(p, n + 1, d) = ContentAfter(p, n, c)
    BY <2>1, <2>2, <2>3, Zenon DEF ContentAfter
  <2> QED
    BY <1>0, <1>2, <2>4, Zenon DEF SaysWhatChanges
<1> QED
  BY <1>1, <1>2, Zenon 

\* Replaying the accepted pages of a File job gives the entries of its
\* checkpoint, for every vault and batch size, every number of runners and every
\* order of polls, deaths, preemptions and late acceptances: no change of the
\* vault is lost between the pages and the checkpoint.
THEOREM PagesMatchCheckpoint == SupplySpec => []CheckpointMatchesPages
<1>1. SupplyInit => CheckpointMatchesPages
  <2> SUFFICES ASSUME SupplyInit, connector = "file", NEW p \in Paths
               PROVE  ReplayedContent(p, Len(acceptedPages))
                        = Loaded(connector, storedCheckpoint).entries[p]
    BY Zenon DEF CheckpointMatchesPages
  <2>1. Len(acceptedPages) = 0 /\ storedCheckpoint = NoCheckpoint
    BY Zenon DEF SupplyInit
  <2>2. Loaded(connector, storedCheckpoint).entries[p] = Absent
    BY <2>1, Zenon DEF Loaded, EmptyCheckpoint
  <2>3. ReplayedContent(p, Len(acceptedPages)) = Absent
    BY <2>1, SMTT(60) DEF ReplayedContent
  <2> QED
    BY <2>2, <2>3, Zenon 
<1>2. ASSUME SupplyInv, CheckpointMatchesPages, [SupplyNext]_supplyVars
      PROVE  CheckpointMatchesPages'
  <2>1. CASE pageVars' = pageVars
    <3>1. UNCHANGED <<acceptedPages, stagedPages, storedCheckpoint, connector>>
      BY <1>2, <2>1, ChangeOfPages, Zenon DEF pageVars
    <3>2. AcceptedChain' = AcceptedChain /\ Loaded(connector, storedCheckpoint)'
                                            = Loaded(connector, storedCheckpoint)
      BY <3>1, Zenon DEF AcceptedChain, Loaded, EmptyCheckpoint
    <3>3. ASSUME NEW p \in Paths, NEW n
          PROVE  ReplayedContent(p, n)' = ReplayedContent(p, n)
      BY <3>2, ReplayedIsContent, Zenon 
    <3>4. PICK n : n = Len(acceptedPages) /\ n = Len(acceptedPages')
      BY <3>1, Zenon 
    <3> QED
      BY <1>2, <3>1, <3>2, <3>3, <3>4, Zenon DEF CheckpointMatchesPages
  <2>2. ASSUME NEW r \in Runners, runner[r].pc = "accepting",
               MayAccept(runner[r].lease, runner[r].page),
               ~ IsAccepted(runner[r].page.ref), StorePage(runner[r].page),
               connector = "file", connector' = connector
        PROVE  CheckpointMatchesPages'
    <3>1. PICK e, page, n : e = runner[r] /\ page = e.page /\ n = Len(acceptedPages)
      BY Zenon 
    <3>2. PICK prior : prior = Loaded(connector, storedCheckpoint)
      BY Zenon 
    <3>3. page.proposal # NoCheckpoint /\ SaysWhatChanges(page, prior)
      BY <1>2, <2>2, <3>1, <3>2, AtAcceptance, ZenonT(60) DEF FileMade
    <3>4. /\ n \in Nat /\ Accepted(n + 1)' = page /\ Len(acceptedPages') = n + 1
          /\ DOMAIN acceptedPages = 1 .. n /\ DOMAIN acceptedPages' = 1 .. (n + 1)
          /\ \A i \in 1 .. n : Accepted(i)' = Accepted(i)
          /\ storedCheckpoint' = page.proposal
      BY <1>2, <2>2, <3>1, NewPageRows, ZenonT(60) 
    <3>5. PICK c, d : c = AcceptedChain /\ d = AcceptedChain'
      BY Zenon 
    <3>6. /\ \A i \in 1 .. n : d[i] = c[i]
          /\ d[n + 1] = page
      BY <3>4, <3>5 DEF AcceptedChain, Accepted
    <3>7. ASSUME NEW p \in Paths
          PROVE  ReplayedContent(p, n + 1)' = page.proposal.entries[p]
      <4>1. ReplayedContent(p, n) = ContentAfter(p, n, c)
        BY <3>5, ReplayedIsContent, Zenon 
      <4>2. PICK m : m = n + 1
        BY Zenon 
      <4>3. ReplayedContent(p, m)' = ContentAfter(p, m, d)
        BY <3>5, ReplayedIsContent, Zenon 
      <4>4. ContentAfter(p, n, c) = prior.entries[p]
        BY <1>2, <2>2, <3>1, <3>2, <4>1, Zenon DEF CheckpointMatchesPages
      <4>5. ContentAfter(p, n + 1, d) = page.proposal.entries[p]
        <5>1. n \in Nat /\ OneMore(p, n, c, d, page, prior)
          BY <3>3, <3>4, <3>6, <4>4, Zenon DEF OneMore
        <5> QED
          BY <5>1, ContentOfOneMore, Zenon 
      <4> QED
        BY <4>2, <4>3, <4>5, Zenon 
    <3>8. Loaded(connector, storedCheckpoint)' = page.proposal
      BY <3>3, <3>4, Zenon DEF Loaded
    <3> QED
      BY <3>4, <3>7, <3>8, Zenon DEF CheckpointMatchesPages
  <2>3. CASE connector # "file"
    BY <1>2, <2>3, ChangeOfPages, Zenon DEF CheckpointMatchesPages
  <2> QED
    BY <1>2, <2>1, <2>2, <2>3, ChangeOfPages, Zenon 
<1> QED
  BY <1>1, <1>2, SupplyStarts, SupplyStep, PTL DEF SupplySpec

-----------------------------------------------------------------------------
(* The model boundary.                                                     *)

-----------------------------------------------------------------------------
(* The Packages.                                                           *)

EvidenceRow == [ref : STRING, lineage : {"package", "other"},
                acl : [kind : {"mirrored", "live", "weak"}, checked : Int, span : Int]]
BlockRow == [ref : STRING, cites : STRING]

LEMMA DocumentParts ==
    ASSUME NEW doc \in DocumentShape
    PROVE  doc.evidence \in Seq(EvidenceRow) /\ doc.blocks \in Seq(BlockRow)
BY Zenon DEF DocumentShape, EvidenceRow, BlockRow

\* As many references as rows: no two rows share one.
LEMMA UniqueRefsDiffer ==
    ASSUME NEW Row, NEW s \in Seq(Row), UniqueRefs(s)
    PROVE  \A i, j \in DOMAIN s : s[i].ref = s[j].ref => i = j
<1>1. PICK f : f = [i \in DOMAIN s |-> s[i].ref]
  BY Zenon 
<1>2. DOMAIN s = 1 .. Len(s) /\ Len(s) \in Nat
  OBVIOUS
<1>3. IsFiniteSet(DOMAIN s) /\ Cardinality(DOMAIN s) = Len(s)
  BY <1>2, FS_Interval, SMTT(60) 
<1>4. f \in Surjection(DOMAIN s, RefsOf(s))
  BY <1>1, Zenon DEF Surjection, RefsOf
<1>5. Cardinality(DOMAIN s) = Cardinality(RefsOf(s))
  BY <1>3, Zenon DEF UniqueRefs
<1>6. f \in Injection(DOMAIN s, RefsOf(s))
  BY <1>3, <1>4, <1>5, FS_SurjSameCardinalityImpliesInj, Zenon 
<1>7. \A i, j \in DOMAIN s : f[i] = f[j] => i = j
  BY <1>6, Zenon DEF Injection, IsInjective
<1>8. \A i \in DOMAIN s : f[i] = s[i].ref
  BY <1>1, Zenon 
<1> QED
  BY <1>7, <1>8, Zenon 

\* What requirePackage checks of Evidence and blocks makes the document closed.
LEMMA AdmittedIsClosed ==
    ASSUME NEW doc \in DocumentShape, EvidenceIsOfPackage(doc), BlocksClose(doc)
    PROVE  IsClosed(doc)
<1>1. PICK evidence, blocks :
         /\ evidence = doc.evidence /\ blocks = doc.blocks
         /\ evidence \in Seq(EvidenceRow) /\ blocks \in Seq(BlockRow)
  BY DocumentParts, Zenon 
<1>2. /\ UniqueRefs(evidence) /\ UniqueRefs(blocks)
      /\ \A i \in DOMAIN blocks : /\ blocks[i].cites \in RefsOf(evidence)
                                  /\ blocks[i].ref = blocks[i].cites
      /\ {blocks[i].cites : i \in DOMAIN blocks} = RefsOf(evidence)
  BY <1>1, Zenon DEF EvidenceIsOfPackage, BlocksClose
<1>3. RefsOf(blocks) = RefsOf(evidence)
  <2>1. RefsOf(blocks) = {blocks[i].cites : i \in DOMAIN blocks}
    BY <1>2, Zenon DEF RefsOf
  <2> QED
    BY <1>2, <2>1, Zenon 
<1>4. Len(blocks) = Len(evidence)
  BY <1>2, <1>3, Zenon DEF UniqueRefs
<1>5. \A i \in DOMAIN blocks : \E j \in DOMAIN evidence : blocks[i].cites = evidence[j].ref
  BY <1>2, Zenon DEF RefsOf
<1>6. PICK f : f = [i \in DOMAIN blocks |->
                      CHOOSE j \in DOMAIN evidence : blocks[i].cites = evidence[j].ref]
  BY Zenon 
<1>7. /\ f \in [DOMAIN blocks -> DOMAIN evidence]
      /\ \A i \in DOMAIN blocks : blocks[i].cites = evidence[f[i]].ref
  BY <1>5, <1>6, Zenon 
<1>8. \A i, j \in DOMAIN blocks : blocks[i].ref = blocks[j].ref => i = j
  BY <1>1, <1>2, UniqueRefsDiffer, Zenon 
<1>9. ASSUME NEW i \in DOMAIN blocks, NEW j \in DOMAIN blocks, f[i] = f[j]
      PROVE  i = j
  <2>1. blocks[i].cites = blocks[j].cites
    BY <1>7, <1>9, Zenon 
  <2> QED
    BY <1>2, <1>8, <2>1, Zenon 
<1> QED
  BY <1>1, <1>4, <1>7, <1>9, Zenon DEF IsClosed

-----------------------------------------------------------------------------
(* The rows of the egress table and of the calls.                          *)

Outcomes == {"none", "generated", "output_rejected", "provider_unavailable"}
GrantRow == [doc : DocumentShape, issued : Nat, epoch : Nat, state : {"issued", "consumed"},
             requests : Nat, outcome : Outcomes, citations : Seq(STRING)]
CallStages == {"idle", "redeem", "invoke", "record", "generated", "refused"}
CallRow == [stage : CallStages, grant : Nat, output : OutputShape \cup {NoOutput}]
GatewayRow == [now : Nat, epoch : Nat, life : Nat, boundary : {"open", "closed"}]

WithState(g, state1) == [g EXCEPT !.state = state1]
WithRequests(g, requests1) == [g EXCEPT !.requests = requests1]
WithOutcome(g, outcome1, citations1) ==
    [g EXCEPT !.outcome = outcome1, !.citations = citations1]
CallAt(call, stage1) == [call EXCEPT !.stage = stage1]
CallOf(call, stage1, grant1) == [call EXCEPT !.stage = stage1, !.grant = grant1]
CallSaid(call, stage1, output1) == [call EXCEPT !.stage = stage1, !.output = output1]

LEMMA StateMoves ==
    ASSUME NEW g \in GrantRow, NEW state1 \in {"issued", "consumed"}
    PROVE  LET new == WithState(g, state1)
           IN  /\ new \in GrantRow /\ new.state = state1 /\ new.doc = g.doc
               /\ new.epoch = g.epoch /\ new.requests = g.requests
               /\ new.outcome = g.outcome /\ new.citations = g.citations
<1>0. g \in [doc : {g.doc}, issued : {g.issued}, epoch : {g.epoch}, state : {g.state},
             requests : {g.requests}, outcome : {g.outcome}, citations : {g.citations}]
  BY Zenon DEF GrantRow
<1>1. WithState(g, state1) \in
            [doc : {g.doc}, issued : {g.issued}, epoch : {g.epoch}, state : {state1},
             requests : {g.requests}, outcome : {g.outcome}, citations : {g.citations}]
  BY <1>0, Zenon DEF WithState
<1> QED
  BY <1>1, Zenon DEF GrantRow

LEMMA RequestsMove ==
    ASSUME NEW g \in GrantRow, NEW requests1 \in Nat
    PROVE  LET new == WithRequests(g, requests1)
           IN  /\ new \in GrantRow /\ new.state = g.state /\ new.doc = g.doc
               /\ new.epoch = g.epoch /\ new.requests = requests1
               /\ new.outcome = g.outcome /\ new.citations = g.citations
<1>0. g \in [doc : {g.doc}, issued : {g.issued}, epoch : {g.epoch}, state : {g.state},
             requests : {g.requests}, outcome : {g.outcome}, citations : {g.citations}]
  BY Zenon DEF GrantRow
<1>1. WithRequests(g, requests1) \in
            [doc : {g.doc}, issued : {g.issued}, epoch : {g.epoch}, state : {g.state},
             requests : {requests1}, outcome : {g.outcome}, citations : {g.citations}]
  BY <1>0, Zenon DEF WithRequests
<1> QED
  BY <1>1, Zenon DEF GrantRow

LEMMA OutcomeMoves ==
    ASSUME NEW g \in GrantRow, NEW outcome1 \in Outcomes, NEW citations1 \in Seq(STRING)
    PROVE  LET new == WithOutcome(g, outcome1, citations1)
           IN  /\ new \in GrantRow /\ new.state = g.state /\ new.doc = g.doc
               /\ new.epoch = g.epoch /\ new.requests = g.requests
               /\ new.outcome = outcome1 /\ new.citations = citations1
<1>0. g \in [doc : {g.doc}, issued : {g.issued}, epoch : {g.epoch}, state : {g.state},
             requests : {g.requests}, outcome : {g.outcome}, citations : {g.citations}]
  BY Zenon DEF GrantRow
<1>1. WithOutcome(g, outcome1, citations1) \in
            [doc : {g.doc}, issued : {g.issued}, epoch : {g.epoch}, state : {g.state},
             requests : {g.requests}, outcome : {outcome1}, citations : {citations1}]
  BY <1>0, Zenon DEF WithOutcome
<1> QED
  BY <1>1, Zenon DEF GrantRow

LEMMA CallAtMoves ==
    ASSUME NEW call \in CallRow, NEW stage1 \in CallStages
    PROVE  LET new == CallAt(call, stage1)
           IN  /\ new \in CallRow /\ new.stage = stage1 /\ new.grant = call.grant
               /\ new.output = call.output
<1>0. call \in [stage : {call.stage}, grant : {call.grant}, output : {call.output}]
  BY Zenon DEF CallRow
<1>1. CallAt(call, stage1) \in [stage : {stage1}, grant : {call.grant}, output : {call.output}]
  BY <1>0, Zenon DEF CallAt
<1> QED
  BY <1>1, Zenon DEF CallRow

LEMMA CallOfMoves ==
    ASSUME NEW call \in CallRow, NEW stage1 \in CallStages, NEW grant1 \in Nat
    PROVE  LET new == CallOf(call, stage1, grant1)
           IN  new \in CallRow /\ new.stage = stage1 /\ new.grant = grant1
<1>0. call \in [stage : {call.stage}, grant : {call.grant}, output : {call.output}]
  BY Zenon DEF CallRow
<1>1. CallOf(call, stage1, grant1) \in
         [stage : {stage1}, grant : {grant1}, output : {call.output}]
  BY <1>0, Zenon DEF CallOf
<1> QED
  BY <1>1, Zenon DEF CallRow

LEMMA CallSaidMoves ==
    ASSUME NEW call \in CallRow, NEW stage1 \in CallStages,
           NEW output1 \in OutputShape \cup {NoOutput}
    PROVE  LET new == CallSaid(call, stage1, output1)
           IN  new \in CallRow /\ new.stage = stage1 /\ new.grant = call.grant
<1>0. call \in [stage : {call.stage}, grant : {call.grant}, output : {call.output}]
  BY Zenon DEF CallRow
<1>1. CallSaid(call, stage1, output1) \in
         [stage : {stage1}, grant : {call.grant}, output : {output1}]
  BY <1>0, Zenon DEF CallSaid
<1> QED
  BY <1>1, Zenon DEF CallRow

-----------------------------------------------------------------------------
(* The inductive invariant.                                                *)

\* What prepareAuthorizedModelInput leaves established for good: the Package
\* of a grant never changes.
Admitted(g) ==
    /\ g.epoch = Binding("context.answer").epoch
    /\ g.doc.audience = "asker" /\ g.doc.purpose = "context.answer"
    /\ EvidenceIsOfPackage(g.doc) /\ BlocksClose(g.doc)

GrantIsSound(g) ==
    /\ g.state = "issued" => g.requests = 0 /\ g.outcome = "none"
    /\ g.requests <= 1
    /\ g.requests = 1 => g.state = "consumed" /\ Admitted(g)

\* A call between the redemption of its grant and the recorded outcome.
Holds(call) == call.stage \in {"invoke", "record"}

CallIsSound(call) ==
    /\ call.stage \in {"redeem", "invoke", "record"} =>
          call.grant \in 1 .. Len(egress) /\ Admitted(egress[call.grant])
    /\ Holds(call) => egress[call.grant].state = "consumed"
    /\ call.stage = "invoke" => egress[call.grant].requests = 0
    /\ call.stage = "record" => egress[call.grant].requests = 1

GrantsAreSound ==
    egress \in Seq(GrantRow) /\ \A k \in 1 .. Len(egress) : GrantIsSound(egress[k])

DeskIsSound ==
    /\ desk = [stage |-> desk.stage, grant |-> desk.grant]
    /\ desk.grant \in 0 .. Len(egress)
    /\ desk.stage \in {"reply", "authorized"} => desk.grant \in 1 .. Len(egress)
    /\ desk.stage = "authorized" => Admitted(egress[desk.grant])

CallsAreSound ==
    /\ calls \in [GenerateCalls -> CallRow]
    /\ \A c \in GenerateCalls : CallIsSound(calls[c])
    /\ \A c, d \in GenerateCalls :
          Holds(calls[c]) /\ Holds(calls[d]) /\ calls[c].grant = calls[d].grant => c = d

AnswerIsBacked(a) ==
    /\ a.grant \in 1 .. Len(egress)
    /\ egress[a.grant].requests = 1 /\ egress[a.grant].outcome = "generated"
    /\ egress[a.grant].citations = a.citations
    /\ Cardinality({a.citations[i] : i \in DOMAIN a.citations}) = Len(a.citations)
    /\ \A i \in DOMAIN a.citations :
          a.citations[i] \in RefsOf(egress[a.grant].doc.evidence) \cap Openable

AnswersAreBacked == \A a \in outbox : AnswerIsBacked(a)

BoundaryInv ==
    gateway \in GatewayRow /\ GrantsAreSound /\ DeskIsSound /\ CallsAreSound /\ AnswersAreBacked

LEMMA BoundaryInvariantIsEnough ==
    ASSUME BoundaryInv
    PROVE  ModelCallsAreGranted /\ AnswersCiteTheirPackage
<1>1. ASSUME NEW k \in DOMAIN egress
      PROVE  LET g == egress[k]
             IN  /\ g.requests <= 1
                 /\ g.requests = 1 =>
                      /\ g.state = "consumed" /\ g.epoch = Binding("context.answer").epoch
                      /\ g.doc.audience = "asker" /\ g.doc.purpose = "context.answer"
                      /\ IsClosed(g.doc)
  <2>1. PICK g : g = egress[k] /\ g \in GrantRow /\ GrantIsSound(g)
    BY DEF BoundaryInv, GrantsAreSound
  <2>2. g.doc \in DocumentShape
    BY <2>1, Zenon DEF GrantRow
  <2>3. g.requests = 1 => IsClosed(g.doc)
    BY <2>1, <2>2, AdmittedIsClosed, Zenon DEF GrantIsSound, Admitted
  <2> QED
    BY <2>1, <2>3, Zenon DEF GrantIsSound, Admitted
<1>2. ModelCallsAreGranted
  BY <1>1, Zenon DEF ModelCallsAreGranted
<1>3. AnswersCiteTheirPackage
  BY Zenon DEF BoundaryInv, AnswersAreBacked, AnswerIsBacked, AnswersCiteTheirPackage
<1> QED
  BY <1>2, <1>3, Zenon 

-----------------------------------------------------------------------------
(* Steps that leave the egress table alone.                                *)

LEMMA AnswersStay ==
    ASSUME BoundaryInv, UNCHANGED <<egress, outbox>>
    PROVE  GrantsAreSound' /\ AnswersAreBacked'
<1>1. GrantsAreSound'
  BY Zenon DEF BoundaryInv, GrantsAreSound
<1>2. AnswersAreBacked'
  BY Zenon DEF BoundaryInv, AnswersAreBacked, AnswerIsBacked
<1> QED
  BY <1>1, <1>2, Zenon 

LEMMA DeskStays ==
    ASSUME DeskIsSound, UNCHANGED <<egress, desk>>
    PROVE  DeskIsSound'
BY Zenon DEF DeskIsSound

LEMMA CallsStay ==
    ASSUME CallsAreSound, UNCHANGED <<egress, calls>>
    PROVE  CallsAreSound'
BY Zenon DEF CallsAreSound, CallIsSound, Holds

LEMMA CallStep ==
    ASSUME CallsAreSound, egress' = egress, NEW c \in GenerateCalls, NEW call \in CallRow,
           calls' = [calls EXCEPT ![c] = call], CallIsSound(call), ~ Holds(call)
    PROVE  CallsAreSound'
<1>1. /\ calls' \in [GenerateCalls -> CallRow] /\ calls'[c] = call
      /\ \A d \in GenerateCalls \ {c} : calls'[d] = calls[d]
  BY Zenon DEF CallsAreSound
<1>2. ASSUME NEW d \in GenerateCalls
      PROVE  CallIsSound(calls'[d])
  BY <1>1, Zenon DEF CallsAreSound
<1>3. \A d \in GenerateCalls : CallIsSound(calls[d])'
  BY <1>2, Zenon DEF CallIsSound
<1>4. \A d, e \in GenerateCalls :
         Holds(calls'[d]) /\ Holds(calls'[e]) /\ calls'[d].grant = calls'[e].grant => d = e
  BY <1>1, Zenon DEF CallsAreSound
<1> QED
  BY <1>1, <1>3, <1>4, Zenon DEF CallsAreSound, Holds

\* A call that is over claims nothing.
LEMMA OverIsSound ==
    ASSUME NEW call, call.stage \in {"idle", "refused", "generated"}
    PROVE  CallIsSound(call) /\ ~ Holds(call)
BY Zenon DEF CallIsSound, Holds

LEMMA IdleIsRow == IdleCall \in CallRow /\ IdleCall.stage = "idle"
BY Zenon DEF IdleCall, CallRow, CallStages

LEMMA RefusedIsRow ==
    ASSUME NEW c, EndCall(c)
    PROVE  \E call \in CallRow : /\ calls' = [calls EXCEPT ![c] = call]
                                 /\ call.stage = "refused"
<1>1. PICK idle \in CallRow : idle = IdleCall
  BY IdleIsRow, Zenon 
<1>2. PICK call : call = CallAt(idle, "refused")
  BY Zenon 
<1>3. call \in CallRow /\ call.stage = "refused"
  <2>1. "refused" \in CallStages
    BY Zenon DEF CallStages
  <2> QED
    BY <1>2, <2>1, CallAtMoves, Zenon 
<1>4. calls' = [calls EXCEPT ![c] = call]
  BY <1>1, <1>2, Zenon DEF EndCall, CallAt
<1> QED
  BY <1>3, <1>4, Zenon 

LEMMA QuietStep ==
    ASSUME BoundaryInv, UNCHANGED <<egress, outbox>>, gateway' \in GatewayRow, DeskIsSound',
           CallsAreSound'
    PROVE  BoundaryInv'
BY AnswersStay, Zenon DEF BoundaryInv

LEMMA ClockSteps ==
    ASSUME BoundaryInv, GatewayTick \/ AdvanceGatewayEpoch \/ CloseBoundary
    PROVE  BoundaryInv'
<1>1. UNCHANGED <<egress, outbox, desk, calls>>
  BY Zenon DEF GatewayTick, AdvanceGatewayEpoch, CloseBoundary
<1>2. gateway' \in GatewayRow
  BY DEF GatewayTick, AdvanceGatewayEpoch, CloseBoundary, GatewayRow, BoundaryInv
<1> QED
  BY <1>1, <1>2, QuietStep, DeskStays, CallsStay, Zenon DEF BoundaryInv

LEMMA AllIdle ==
    ASSUME calls' = [c \in GenerateCalls |-> IdleCall]
    PROVE  CallsAreSound'
<1>1. PICK idle \in CallRow : idle = IdleCall /\ idle.stage = "idle"
  BY IdleIsRow, Zenon 
<1>2. calls' = [c \in GenerateCalls |-> idle]
  BY <1>1, Zenon 
<1> QED
  BY <1>1, <1>2, Zenon DEF CallsAreSound, CallIsSound, Holds

LEMMA DeskIdles ==
    ASSUME GrantsAreSound, egress' = egress, desk' = IdleDesk
    PROVE  DeskIsSound'
BY DEF IdleDesk, DeskIsSound, GrantsAreSound

Restarted(gw, life1) == [gw EXCEPT !.life = life1, !.boundary = "open"]

LEMMA RestartStep ==
    ASSUME BoundaryInv, RestartBot
    PROVE  BoundaryInv'
<1>1. PICK gw \in GatewayRow : gw = gateway
  BY Zenon DEF BoundaryInv
<1>2. gateway' = Restarted(gw, gw.life + 1)
  BY <1>1, Zenon DEF RestartBot, Restarted
<1>3. gw \in [now : {gw.now}, epoch : {gw.epoch}, life : {gw.life}, boundary : {gw.boundary}]
  BY Zenon DEF GatewayRow
<1>4. PICK life1 \in Nat : life1 = gw.life + 1
  BY DEF GatewayRow
<1>5. Restarted(gw, life1) \in [now : {gw.now}, epoch : {gw.epoch}, life : {life1},
                                boundary : {"open"}]
  BY <1>3, Zenon DEF Restarted
<1>6. gateway' \in GatewayRow
  BY <1>2, <1>4, <1>5, Zenon DEF GatewayRow
<1>7. UNCHANGED <<egress, outbox>> /\ desk' = IdleDesk /\ calls' = [c \in GenerateCalls |-> IdleCall]
  BY Zenon DEF RestartBot
<1> QED
  BY <1>6, <1>7, QuietStep, DeskIdles, AllIdle, Zenon DEF BoundaryInv

LEMMA FinishStep ==
    ASSUME BoundaryInv, FinishAnswer
    PROVE  BoundaryInv'
<1>1. /\ UNCHANGED <<gateway, egress, outbox>> /\ desk' = IdleDesk
      /\ calls' = [c \in GenerateCalls |-> IdleCall]
  BY Zenon DEF FinishAnswer
<1> QED
  BY <1>1, QuietStep, DeskIdles, AllIdle, Zenon DEF BoundaryInv

\* The events and the opening of a citation touch neither grants nor calls.
LEMMA DeskSteps ==
    ASSUME BoundaryInv,
           \/ \E e \in ProviderEvents : AnswerFeishuEvent(e) \/ OpenFeishuCitationEvent(e)
           \/ \E doc \in CitationDocuments : ResolveCitation(doc)
           \/ ResolveFails \/ PrepareAuthorizedModelInput \/ OpenCitation \/ CitationNotAvailable
           \/ UNCHANGED boundaryVars
    PROVE  BoundaryInv'
<1>0. UNCHANGED <<gateway, egress, outbox, calls>>
  BY Zenon DEF AnswerFeishuEvent, OpenFeishuCitationEvent, ResolveCitation, ResolveFails,
         PrepareAuthorizedModelInput, OpenCitation, CitationNotAvailable, boundaryVars
<1>1. CASE \E e \in ProviderEvents : AnswerFeishuEvent(e)
  <2>1. desk' = IF desk.stage = "idle" THEN [desk EXCEPT !.stage = "resolve"] ELSE desk
    BY <1>1, Zenon DEF AnswerFeishuEvent
  <2>2. DeskIsSound'
    BY <1>0, <2>1, Zenon DEF BoundaryInv, DeskIsSound
  <2> QED
    BY <1>0, <2>2, QuietStep, CallsStay, Zenon DEF BoundaryInv
<1>2. CASE PrepareAuthorizedModelInput
  <2>1. PICK t : desk' = IF Authorizes(egress[desk.grant], t)
                         THEN [desk EXCEPT !.stage = "authorized"] ELSE IdleDesk
    BY <1>2, Zenon DEF PrepareAuthorizedModelInput
  <2>2. CASE Authorizes(egress[desk.grant], t)
    <3>1. Admitted(egress[desk.grant])
      BY <2>2, Zenon DEF Authorizes, ExactCurrentPackage, RequirePackage, Binding, Admitted
    <3>2. desk.stage = "reply" /\ desk' = [desk EXCEPT !.stage = "authorized"]
      BY <1>2, <2>1, <2>2, Zenon DEF PrepareAuthorizedModelInput
    <3>3. DeskIsSound'
      BY <1>0, <3>1, <3>2, Zenon DEF BoundaryInv, DeskIsSound
    <3> QED
      BY <1>0, <3>3, QuietStep, CallsStay, Zenon DEF BoundaryInv
  <2>3. CASE ~ Authorizes(egress[desk.grant], t)
    BY <1>0, <2>1, <2>3, QuietStep, CallsStay, DeskIdles, Zenon DEF BoundaryInv
  <2> QED
    BY <2>2, <2>3, Zenon 
<1>3. CASE ResolveFails
  BY <1>0, <1>3, QuietStep, CallsStay, DeskIdles, Zenon DEF BoundaryInv, ResolveFails
<1>4. CASE UNCHANGED desk
  BY <1>0, <1>4, QuietStep, CallsStay, DeskStays, Zenon DEF BoundaryInv
<1> QED
  BY <1>1, <1>2, <1>3, <1>4, Zenon
     DEF OpenFeishuCitationEvent, ResolveCitation, OpenCitation, CitationNotAvailable, boundaryVars

LEMMA GenerateStep ==
    ASSUME BoundaryInv, NEW c \in GenerateCalls, Generate(c)
    PROVE  BoundaryInv'
<1>0. UNCHANGED <<gateway, desk, egress, outbox>> /\ desk.stage = "authorized"
  BY Zenon DEF Generate
<1>1. \/ EndCall(c)
      \/ calls' = [calls EXCEPT ![c] = [@ EXCEPT !.stage = "redeem", !.grant = desk.grant]]
  BY Zenon DEF Generate
<1>2. CASE EndCall(c)
  <2>1. PICK call \in CallRow : calls' = [calls EXCEPT ![c] = call] /\ call.stage = "refused"
    BY <1>2, RefusedIsRow, Zenon 
  <2>2. CallsAreSound'
    <3>1. CallIsSound(call) /\ ~ Holds(call)
      BY <2>1, OverIsSound
    <3> QED
      BY <1>0, <2>1, <3>1, CallStep, Zenon DEF BoundaryInv
  <2> QED
    BY <1>0, <2>2, QuietStep, DeskStays, Zenon DEF BoundaryInv
<1>3. CASE calls' = [calls EXCEPT ![c] = [@ EXCEPT !.stage = "redeem", !.grant = desk.grant]]
  <2>1. PICK old, k, call : old = calls[c] /\ k = desk.grant /\ call = CallOf(old, "redeem", k)
    BY Zenon 
  <2>2. calls' = [calls EXCEPT ![c] = call]
    BY <1>3, <2>1, Zenon DEF CallOf
  <2>3. old \in CallRow /\ k \in 1 .. Len(egress) /\ k \in Nat /\ Admitted(egress[k])
    BY <1>0, <2>1 DEF BoundaryInv, CallsAreSound, DeskIsSound, GrantsAreSound
  <2>4. call \in CallRow /\ call.stage = "redeem" /\ call.grant = k
    <3>1. "redeem" \in CallStages
      BY Zenon DEF CallStages
    <3> QED
      BY <2>1, <2>3, <3>1, CallOfMoves
  <2>5. CallIsSound(call) /\ ~ Holds(call)
    BY <2>3, <2>4, Zenon DEF CallIsSound, Holds
  <2>6. CallsAreSound'
    BY <1>0, <2>2, <2>4, <2>5, CallStep, Zenon DEF BoundaryInv
  <2> QED
    BY <1>0, <2>6, QuietStep, DeskStays, Zenon DEF BoundaryInv
<1> QED
  BY <1>1, <1>2, <1>3, Zenon 


-----------------------------------------------------------------------------
(* Steps of the egress table.                                              *)

LEMMA ResolveStep ==
    ASSUME BoundaryInv, ResolveQuestion
    PROVE  BoundaryInv'
<1>1. PICK n \in Nat : n = Len(egress)
  BY DEF BoundaryInv, GrantsAreSound
<1>2. PICK doc \in Documents[n + 1] :
         egress' = Append(egress, [doc |-> doc, issued |-> gateway.now, epoch |-> gateway.epoch,
                                   state |-> "issued", requests |-> 0,
                                   outcome |-> "none", citations |-> <<>>])
  BY <1>1, Zenon DEF ResolveQuestion
<1>3. doc \in DocumentShape
  <2>1. n + 1 \in DOMAIN Documents
    BY <1>1, BoundaryAssumption DEF ResolveQuestion
  <2> QED
    BY <1>2, <2>1, BoundaryAssumption
<1>4. PICK row : row = [doc |-> doc, issued |-> gateway.now, epoch |-> gateway.epoch,
                        state |-> "issued", requests |-> 0,
                        outcome |-> "none", citations |-> <<>>]
  BY Zenon 
<1>5. row \in GrantRow /\ row.state = "issued" /\ row.requests = 0 /\ row.outcome = "none"
  BY <1>3, <1>4 DEF GrantRow, Outcomes, BoundaryInv, GatewayRow
<1>6. /\ egress \in Seq(GrantRow) /\ egress' \in Seq(GrantRow) /\ Len(egress') = n + 1
      /\ egress'[n + 1] = row /\ \A k \in 1 .. n : egress'[k] = egress[k]
  BY <1>1, <1>2, <1>4, <1>5, SMTT(60) DEF BoundaryInv, GrantsAreSound
<1>7. UNCHANGED <<gateway, calls, outbox>> /\ desk' = [stage |-> "reply", grant |-> n + 1]
  BY <1>1, Zenon DEF ResolveQuestion
<1>8. GrantsAreSound'
  <2>1. GrantIsSound(row)
    BY <1>5 DEF GrantIsSound
  <2>2. ASSUME NEW k \in 1 .. n + 1
        PROVE  GrantIsSound(egress'[k])
    BY <1>1, <1>6, <2>1 DEF BoundaryInv, GrantsAreSound
  <2> QED
    BY <1>6, <2>2, Zenon DEF GrantsAreSound
<1>9. DeskIsSound'
  BY <1>1, <1>6, <1>7, SMTT(60) DEF DeskIsSound
<1>10. CallsAreSound'
  <2>1. ASSUME NEW c \in GenerateCalls
        PROVE  CallIsSound(calls[c])'
    <3>1. CallIsSound(calls[c]) /\ calls'[c] = calls[c]
      BY <1>7, Zenon DEF BoundaryInv, CallsAreSound
    <3> QED
      BY <1>1, <1>6, <3>1, SMTT(60) DEF CallIsSound, Holds
  <2> QED
    BY <1>7, <2>1, Zenon DEF BoundaryInv, CallsAreSound, Holds
<1>11. AnswersAreBacked'
  <2>1. ASSUME NEW a \in outbox
        PROVE  AnswerIsBacked(a)'
    <3>1. AnswerIsBacked(a)
      BY Zenon DEF BoundaryInv, AnswersAreBacked
    <3>2. a.grant \in 1 .. n /\ a.grant \in 1 .. Len(egress') /\ egress'[a.grant] = egress[a.grant]
      BY <1>1, <1>6, <3>1 DEF AnswerIsBacked
    <3> QED
      BY <3>1, <3>2, Zenon DEF AnswerIsBacked
  <2> QED
    BY <1>7, <2>1, Zenon DEF AnswersAreBacked
<1> QED
  BY <1>7, <1>8, <1>9, <1>10, <1>11, Zenon DEF BoundaryInv

\* One row moves and keeps its Package; with it moves the one call that may
\* be between the row's redemption and its outcome.
LEMMA GrantStep ==
    ASSUME BoundaryInv, NEW c \in GenerateCalls, NEW k \in 1 .. Len(egress),
           NEW row \in GrantRow, NEW call \in CallRow,
           egress' = [egress EXCEPT ![k] = row], calls' = [calls EXCEPT ![c] = call],
           row.doc = egress[k].doc, row.epoch = egress[k].epoch,
           GrantIsSound(row), CallIsSound(call)', Holds(call) => call.grant = k,
           \A d \in GenerateCalls \ {c} : Holds(calls[d]) => calls[d].grant # k,
           AnswersAreBacked', UNCHANGED <<gateway, desk>>
    PROVE  BoundaryInv'
<1>1. /\ egress \in Seq(GrantRow) /\ egress' \in Seq(GrantRow) /\ Len(egress') = Len(egress)
      /\ egress'[k] = row /\ \A l \in 1 .. Len(egress) : l # k => egress'[l] = egress[l]
  BY DEF BoundaryInv, GrantsAreSound
<1>2. GrantsAreSound'
  <2>1. ASSUME NEW l \in 1 .. Len(egress)
        PROVE  GrantIsSound(egress'[l])
    BY <1>1, Zenon DEF BoundaryInv, GrantsAreSound
  <2> QED
    BY <1>1, <2>1, Zenon DEF GrantsAreSound
<1>3. \A l \in 1 .. Len(egress) : Admitted(egress[l]) => Admitted(egress'[l])
  <2>1. Admitted(egress[k]) => Admitted(row)
    BY Zenon DEF Admitted
  <2> QED
    BY <1>1, <2>1, Zenon 
<1>4. DeskIsSound'
  BY <1>1, <1>3, Zenon DEF BoundaryInv, DeskIsSound
<1>5. /\ calls' \in [GenerateCalls -> CallRow] /\ calls'[c] = call
      /\ \A d \in GenerateCalls \ {c} : calls'[d] = calls[d]
  BY Zenon DEF BoundaryInv, CallsAreSound
<1>6. ASSUME NEW d \in GenerateCalls \ {c}
      PROVE  CallIsSound(calls[d])'
  <2>1. PICK other : /\ other = calls[d] /\ other = calls'[d] /\ CallIsSound(other)
                     /\ Holds(other) => other.grant # k
    BY <1>5, Zenon DEF BoundaryInv, CallsAreSound
  <2>2. Holds(other) => egress'[other.grant] = egress[other.grant]
    BY <1>1, <2>1, Zenon DEF CallIsSound, Holds
  <2>3. CallIsSound(other)'
    BY <1>1, <1>3, <2>1, <2>2, Zenon DEF CallIsSound, Holds
  <2> QED
    BY <2>1, <2>3, Zenon 
<1>7. \A d, e \in GenerateCalls :
         Holds(calls'[d]) /\ Holds(calls'[e]) /\ calls'[d].grant = calls'[e].grant => d = e
  BY <1>5 DEF BoundaryInv, CallsAreSound
<1>8. CallsAreSound'
  BY <1>5, <1>6, <1>7, Zenon DEF CallsAreSound, Holds
<1> QED
  BY <1>2, <1>4, <1>8, Zenon DEF BoundaryInv

\* The answers given are of other grants than the one that moves.
LEMMA AnswersOfOthers ==
    ASSUME BoundaryInv, NEW k \in 1 .. Len(egress), NEW row,
           egress' = [egress EXCEPT ![k] = row],
           egress[k].requests # 1 \/ egress[k].outcome # "generated"
    PROVE  \A a \in outbox : AnswerIsBacked(a)'
<1>1. /\ egress \in Seq(GrantRow) /\ Len(egress') = Len(egress)
      /\ \A l \in 1 .. Len(egress) : l # k => egress'[l] = egress[l]
  BY SMTT(60) DEF BoundaryInv, GrantsAreSound
<1>2. ASSUME NEW a \in outbox
      PROVE  AnswerIsBacked(a)'
  <2>1. AnswerIsBacked(a)
    BY Zenon DEF BoundaryInv, AnswersAreBacked
  <2>2. a.grant \in 1 .. Len(egress') /\ egress'[a.grant] = egress[a.grant]
    BY <1>1, <2>1, Zenon DEF AnswerIsBacked
  <2> QED
    BY <2>1, <2>2, Zenon DEF AnswerIsBacked
<1> QED
  BY <1>2, Zenon 

LEMMA GrantOfCall ==
    ASSUME BoundaryInv, NEW c \in GenerateCalls, calls[c].stage \in {"redeem", "invoke", "record"}
    PROVE  /\ calls[c] \in CallRow /\ CallIsSound(calls[c])
           /\ calls[c].grant \in 1 .. Len(egress) /\ egress[calls[c].grant] \in GrantRow
           /\ GrantIsSound(egress[calls[c].grant]) /\ Admitted(egress[calls[c].grant])
BY DEF BoundaryInv, CallsAreSound, CallIsSound, GrantsAreSound

LEMMA RedeemStep ==
    ASSUME BoundaryInv, NEW c \in GenerateCalls, RedeemModelGrant(c)
    PROVE  BoundaryInv'
<1>0. UNCHANGED <<gateway, desk, outbox>> /\ calls[c].stage = "redeem"
  BY Zenon DEF RedeemModelGrant
<1>1. PICK old, k, g : old = calls[c] /\ k = old.grant /\ g = egress[k]
  BY ZenonT(60) 
<1>2. /\ old \in CallRow /\ k \in 1 .. Len(egress) /\ g \in GrantRow /\ GrantIsSound(g)
      /\ Admitted(g)
  BY <1>0, <1>1, GrantOfCall, Zenon 
<1>3. CASE EndCall(c) /\ UNCHANGED egress
  <2>1. PICK call \in CallRow : calls' = [calls EXCEPT ![c] = call] /\ call.stage = "refused"
    BY <1>3, RefusedIsRow, Zenon 
  <2>2. CallIsSound(call) /\ ~ Holds(call)
    BY <2>1, OverIsSound
  <2>3. CallsAreSound'
    BY <1>3, <2>1, <2>2, CallStep, Zenon DEF BoundaryInv
  <2> QED
    BY <1>0, <1>3, <2>3, QuietStep, DeskStays, Zenon DEF BoundaryInv
<1>4. CASE /\ Redeems(egress[calls[c].grant])
           /\ egress' = [egress EXCEPT ![calls[c].grant] = [@ EXCEPT !.state = "consumed"]]
           /\ \/ calls' = [calls EXCEPT ![c] = [@ EXCEPT !.stage = "invoke"]]
              \/ EndCall(c)
  <2>1. PICK row : row = WithState(g, "consumed")
    BY Zenon 
  <2>2. egress' = [egress EXCEPT ![k] = row]
    BY <1>1, <1>4, <2>1, Zenon DEF WithState
  <2>3. /\ row \in GrantRow /\ row.state = "consumed" /\ row.doc = g.doc /\ row.epoch = g.epoch
        /\ row.requests = g.requests /\ row.outcome = g.outcome
    <3>1. "consumed" \in {"issued", "consumed"}
      OBVIOUS
    <3> QED
      BY <1>2, <2>1, <3>1, StateMoves, Zenon 
  <2>4. g.state = "issued" /\ g.requests = 0
    BY <1>1, <1>2, <1>4, Zenon DEF Redeems, GrantIsSound
  <2>5. GrantIsSound(row) /\ Admitted(row)
    BY <1>2, <2>3, <2>4, Zenon DEF GrantIsSound, Admitted
  <2>6. \A d \in GenerateCalls \ {c} : Holds(calls[d]) => calls[d].grant # k
    BY <1>1, <2>4, Zenon DEF BoundaryInv, CallsAreSound, CallIsSound
  <2>7. AnswersAreBacked'
    <3>1. egress[k].requests # 1
      BY <1>1, <2>4
    <3>2. \A a \in outbox : AnswerIsBacked(a)'
      BY <1>2, <2>2, <3>1, AnswersOfOthers, Zenon 
    <3> QED
      BY <1>0, <3>2, Zenon DEF AnswersAreBacked
  <2>8. egress'[k] = row /\ Len(egress') = Len(egress)
    BY <1>2, <2>2 DEF BoundaryInv, GrantsAreSound
  <2>9. \E call \in CallRow : /\ calls' = [calls EXCEPT ![c] = call] /\ CallIsSound(call)'
                              /\ Holds(call) => call.grant = k
    <3>1. CASE EndCall(c)
      <4>1. PICK call \in CallRow : calls' = [calls EXCEPT ![c] = call] /\ call.stage = "refused"
        BY <3>1, RefusedIsRow, Zenon 
      <4> QED
        BY <4>1, Zenon DEF CallIsSound, Holds
    <3>2. CASE calls' = [calls EXCEPT ![c] = [@ EXCEPT !.stage = "invoke"]]
      <4>1. PICK call : call = CallAt(old, "invoke")
        BY Zenon 
      <4>2. "invoke" \in CallStages
        BY Zenon DEF CallStages
      <4>3. call \in CallRow /\ call.stage = "invoke" /\ call.grant = k
        BY <1>1, <1>2, <4>1, <4>2, CallAtMoves, Zenon 
      <4>4. CallIsSound(call)'
        BY <1>2, <2>3, <2>4, <2>5, <2>8, <4>3, Zenon DEF CallIsSound, Holds
      <4>5. calls' = [calls EXCEPT ![c] = call]
        BY <1>1, <3>2, <4>1, ZenonT(60) DEF CallAt
      <4> QED
        BY <4>3, <4>4, <4>5, Zenon 
    <3> QED
      BY <1>4, <3>1, <3>2, Zenon 
  <2> QED
    BY <1>0, <1>1, <1>2, <2>2, <2>3, <2>5, <2>6, <2>7, <2>9, GrantStep, ZenonT(60) 
<1> QED
  BY <1>3, <1>4, Zenon DEF RedeemModelGrant

LEMMA InvokeStep ==
    ASSUME BoundaryInv, NEW c \in GenerateCalls, NEW output \in ProviderOutputs \cup {NoOutput},
           InvokeModel(c, output)
    PROVE  BoundaryInv'
<1>0. UNCHANGED <<gateway, desk, outbox>> /\ calls[c].stage = "invoke"
  BY Zenon DEF InvokeModel
<1>1. PICK old, k, g : old = calls[c] /\ k = old.grant /\ g = egress[k]
  BY Zenon 
<1>2. /\ old \in CallRow /\ k \in 1 .. Len(egress) /\ g \in GrantRow /\ GrantIsSound(g)
      /\ Admitted(g) /\ g.state = "consumed" /\ g.requests = 0
  BY <1>0, <1>1, GrantOfCall, Zenon DEF CallIsSound, Holds
<1>3. PICK row, call : row = WithRequests(g, 1) /\ call = CallSaid(old, "record", output)
  BY Zenon 
<1>4. egress' = [egress EXCEPT ![k] = row]
  <2>1. egress' = [egress EXCEPT ![k] = WithRequests(g, g.requests + 1)]
    BY <1>1, Zenon DEF InvokeModel, WithRequests
  <2>2. g.requests + 1 = 1
    BY <1>2
  <2> QED
    BY <1>3, <2>1, <2>2, Zenon 
<1>5. calls' = [calls EXCEPT ![c] = call]
  BY <1>1, <1>3, Zenon DEF InvokeModel, CallSaid
<1>6. /\ row \in GrantRow /\ row.state = g.state /\ row.doc = g.doc /\ row.epoch = g.epoch
      /\ row.requests = 1
  <2>1. 1 \in Nat
    OBVIOUS
  <2> QED
    BY <1>2, <1>3, <2>1, RequestsMove, Zenon 
<1>7. call \in CallRow /\ call.stage = "record" /\ call.grant = k
  <2>1. "record" \in CallStages /\ output \in OutputShape \cup {NoOutput}
    BY BoundaryAssumption, Zenon DEF CallStages
  <2> QED
    BY <1>1, <1>2, <1>3, <2>1, CallSaidMoves
<1>8. GrantIsSound(row) /\ Admitted(row)
  BY <1>2, <1>6, SMTT(60) DEF GrantIsSound, Admitted
<1>9. \A d \in GenerateCalls \ {c} : Holds(calls[d]) => calls[d].grant # k
  BY <1>0, <1>1, Zenon DEF BoundaryInv, CallsAreSound, Holds
<1>10. AnswersAreBacked'
  <2>1. egress[k].requests # 1
    BY <1>1, <1>2
  <2>2. \A a \in outbox : AnswerIsBacked(a)'
    BY <1>2, <1>4, <2>1, AnswersOfOthers, Zenon 
  <2> QED
    BY <1>0, <2>2, Zenon DEF AnswersAreBacked
<1>11. CallIsSound(call)'
  <2>1. egress'[k] = row /\ Len(egress') = Len(egress)
    BY <1>2, <1>4 DEF BoundaryInv, GrantsAreSound
  <2> QED
    BY <1>2, <1>6, <1>7, <1>8, <2>1, Zenon DEF CallIsSound, Holds
<1> QED
  BY <1>0, <1>1, <1>2, <1>4, <1>5, <1>6, <1>7, <1>8, <1>9, <1>10, <1>11, GrantStep, Zenon 


\* What generate validates of an output it calls "generated".
LEMMA GeneratedIsValid ==
    ASSUME NEW doc, NEW output \in OutputShape \cup {NoOutput},
           OutcomeCategory(doc, output) = "generated"
    PROVE  /\ output.citations \in Seq(STRING)
           /\ \A i \in DOMAIN output.citations :
                 output.citations[i] \in RefsOf(doc.evidence) \cap Openable
           /\ Cardinality({output.citations[i] : i \in DOMAIN output.citations})
                 = Len(output.citations)
<1>1. output.text # "none" /\ ValidOutput(doc, output) /\ IsAnswerPayload(output)
  BY Zenon DEF OutcomeCategory
<1>2. output \in OutputShape
  BY <1>1 DEF NoOutput
<1> QED
  BY <1>1, <1>2, Zenon DEF OutputShape, ValidOutput, CitationsAreValid, IsAnswerPayload

LEMMA RecordStep ==
    ASSUME BoundaryInv, NEW c \in GenerateCalls, RecordModelOutcome(c)
    PROVE  BoundaryInv'
<1>0. UNCHANGED <<gateway, desk>> /\ calls[c].stage = "record"
  BY Zenon DEF RecordModelOutcome
<1>1. PICK old, k, g, output, category, citations :
         /\ old = calls[c] /\ k = old.grant /\ g = egress[k] /\ output = old.output
         /\ category = OutcomeCategory(g.doc, output)
         /\ citations = IF category = "generated" THEN output.citations ELSE <<>>
  BY ZenonT(60) 
<1>2. /\ old \in CallRow /\ k \in 1 .. Len(egress) /\ g \in GrantRow /\ GrantIsSound(g)
      /\ Admitted(g) /\ g.state = "consumed" /\ g.requests = 1
      /\ output \in OutputShape \cup {NoOutput}
  BY <1>0, <1>1, GrantOfCall, Zenon DEF CallIsSound, Holds, CallRow
<1>3. category \in Outcomes
  BY <1>1, Zenon DEF OutcomeCategory, Outcomes
<1>4. citations \in Seq(STRING)
  <2>1. CASE category = "generated"
    <3>1. output.citations \in Seq(STRING)
      BY <1>1, <1>2, <2>1, GeneratedIsValid, Zenon 
    <3> QED
      BY <1>1, <2>1, <3>1, Zenon 
  <2>2. CASE category # "generated"
    BY <1>1, <2>2
  <2> QED
    BY <2>1, <2>2, Zenon 
<1>5. PICK stored \in BOOLEAN, recorded \in BOOLEAN :
         /\ stored => MayRecord(egress[k])
         /\ recorded => stored
         /\ egress' = IF stored
                      THEN [egress EXCEPT ![k] = [@ EXCEPT !.outcome = category,
                                                           !.citations = citations]]
                      ELSE egress
         /\ IF ReturnsAnswer(category, recorded)
            THEN /\ calls' = [calls EXCEPT ![c] = [@ EXCEPT !.stage = "generated"]]
                 /\ outbox' = outbox \cup {[grant |-> k, citations |-> citations]}
            ELSE EndCall(c) /\ UNCHANGED outbox
  BY <1>1, Zenon DEF RecordModelOutcome
<1>6. \E call \in CallRow : /\ calls' = [calls EXCEPT ![c] = call]
                            /\ call.stage \in {"refused", "generated"}
  <2>1. CASE ReturnsAnswer(category, recorded)
    <3>1. PICK call : call = CallAt(old, "generated")
      BY Zenon 
    <3>2. "generated" \in CallStages
      BY Zenon DEF CallStages
    <3>3. call \in CallRow /\ call.stage = "generated"
      BY <1>2, <3>1, <3>2, CallAtMoves, Zenon 
    <3>4. calls' = [calls EXCEPT ![c] = call]
      BY <1>1, <1>5, <2>1, <3>1, Zenon DEF CallAt
    <3> QED
      BY <3>3, <3>4, Zenon 
  <2>2. CASE ~ ReturnsAnswer(category, recorded)
    BY <1>5, <2>2, RefusedIsRow, Zenon 
  <2> QED
    BY <2>1, <2>2, Zenon 
<1>7. PICK call \in CallRow : /\ calls' = [calls EXCEPT ![c] = call]
                              /\ call.stage \in {"refused", "generated"}
  BY <1>6, Zenon 
<1>8. CallIsSound(call) /\ ~ Holds(call) /\ CallIsSound(call)'
  BY <1>7, Zenon DEF CallIsSound, Holds
<1>9. CASE ~ stored
  <2>1. egress' = egress /\ outbox' = outbox
    BY <1>5, <1>9, Zenon DEF ReturnsAnswer
  <2>2. CallsAreSound'
    BY <1>7, <1>8, <2>1, CallStep, Zenon DEF BoundaryInv
  <2> QED
    BY <1>0, <2>1, <2>2, QuietStep, DeskStays, Zenon DEF BoundaryInv
<1>10. CASE stored
  <2>1. PICK row : row = WithOutcome(g, category, citations)
    BY Zenon 
  <2>2. egress' = [egress EXCEPT ![k] = row]
    BY <1>1, <1>5, <1>10, <2>1, Zenon DEF WithOutcome
  <2>3. /\ row \in GrantRow /\ row.state = g.state /\ row.doc = g.doc /\ row.epoch = g.epoch
        /\ row.requests = g.requests /\ row.outcome = category /\ row.citations = citations
    BY <1>2, <1>3, <1>4, <2>1, OutcomeMoves
  <2>4. GrantIsSound(row)
    BY <1>2, <2>3, Zenon DEF GrantIsSound, Admitted
  <2>5. \A d \in GenerateCalls \ {c} : Holds(calls[d]) => calls[d].grant # k
    BY <1>0, <1>1, Zenon DEF BoundaryInv, CallsAreSound, Holds
  <2>6. egress'[k] = row /\ k \in 1 .. Len(egress')
    BY <1>2, <2>2, SMTT(60) DEF BoundaryInv, GrantsAreSound
  <2>7. \A a \in outbox : AnswerIsBacked(a)'
    <3>1. egress[k].outcome # "generated"
      BY <1>5, <1>10, Zenon DEF MayRecord
    <3> QED
      BY <1>2, <2>2, <3>1, AnswersOfOthers, Zenon 
  <2>8. AnswersAreBacked'
    <3>1. CASE ReturnsAnswer(category, recorded)
      <4>1. PICK a : a = [grant |-> k, citations |-> citations]
        BY Zenon 
      <4>2. a.grant = k /\ a.citations = citations /\ outbox' = outbox \cup {a}
        BY <1>5, <3>1, <4>1, Zenon 
      <4>3. category = "generated" /\ citations = output.citations
        BY <1>1, <3>1, Zenon DEF ReturnsAnswer
      <4>4. /\ \A i \in DOMAIN citations : citations[i] \in RefsOf(g.doc.evidence) \cap Openable
            /\ Cardinality({citations[i] : i \in DOMAIN citations}) = Len(citations)
        BY <1>1, <1>2, <4>3, GeneratedIsValid, ZenonT(60) 
      <4>5. AnswerIsBacked(a)'
        BY <1>2, <2>3, <2>6, <4>2, <4>3, <4>4, Zenon DEF AnswerIsBacked
      <4> QED
        BY <2>7, <4>2, <4>5, Zenon DEF AnswersAreBacked
    <3>2. CASE ~ ReturnsAnswer(category, recorded)
      BY <1>5, <2>7, <3>2, Zenon DEF AnswersAreBacked
    <3> QED
      BY <3>1, <3>2, Zenon 
  <2> QED
    BY <1>0, <1>1, <1>2, <1>7, <1>8, <2>2, <2>3, <2>4, <2>5, <2>8, GrantStep, ZenonT(60) 
<1> QED
  BY <1>9, <1>10, Zenon 

-----------------------------------------------------------------------------
(* The theorems.                                                           *)

LEMMA BoundaryInitially == BoundaryInit => BoundaryInv
<1> SUFFICES ASSUME BoundaryInit
             PROVE  BoundaryInv
  OBVIOUS
<1>1. gateway \in GatewayRow /\ GrantsAreSound /\ AnswersAreBacked
  BY DEF BoundaryInit, GatewayRow, GrantsAreSound, AnswersAreBacked
<1>2. DeskIsSound
  BY DEF BoundaryInit, IdleDesk, DeskIsSound
<1>3. CallsAreSound
  <2>1. PICK idle \in CallRow : idle = IdleCall /\ idle.stage = "idle"
    BY IdleIsRow, Zenon 
  <2>2. calls = [c \in GenerateCalls |-> idle]
    BY <2>1, Zenon DEF BoundaryInit
  <2> QED
    BY <2>1, <2>2, Zenon DEF CallsAreSound, CallIsSound, Holds
<1> QED
  BY <1>1, <1>2, <1>3, Zenon DEF BoundaryInv

\* Between its redemption and its outcome a grant has one call, of an
\* admitted Package; every answer given is backed by the row of its grant.
THEOREM BoundaryInvariant == BoundarySpec => []BoundaryInv
<1>1. BoundaryInit => BoundaryInv
  BY BoundaryInitially, Zenon 
<1>2. BoundaryInv /\ [BoundaryNext]_boundaryVars => BoundaryInv'
  <2> SUFFICES ASSUME BoundaryInv, [BoundaryNext]_boundaryVars
               PROVE  BoundaryInv'
    OBVIOUS
  <2>1. CASE GatewayTick \/ AdvanceGatewayEpoch \/ CloseBoundary
    BY <2>1, ClockSteps, Zenon 
  <2>2. CASE RestartBot
    BY <2>2, RestartStep, Zenon 
  <2>3. CASE ResolveQuestion
    BY <2>3, ResolveStep, Zenon 
  <2>4. CASE \E c \in GenerateCalls : ModelCallStep(c)
    BY <2>4, GenerateStep, RedeemStep, InvokeStep, RecordStep, Zenon DEF ModelCallStep
  <2>5. CASE FinishAnswer
    BY <2>5, FinishStep, Zenon 
  <2>6. CASE \/ \E e \in ProviderEvents : AnswerFeishuEvent(e) \/ OpenFeishuCitationEvent(e)
             \/ \E doc \in CitationDocuments : ResolveCitation(doc)
             \/ ResolveFails \/ PrepareAuthorizedModelInput \/ OpenCitation \/ CitationNotAvailable
             \/ UNCHANGED boundaryVars
    BY <2>6, DeskSteps, Zenon 
  <2> QED
    BY <2>1, <2>2, <2>3, <2>4, <2>5, <2>6, Zenon DEF BoundaryNext
<1> QED
  BY <1>1, <1>2, PTL DEF BoundarySpec

\* A grant lets at most one request through to the model, of a Package for
\* the asker whose blocks and Evidence match one to one, for any number of
\* concurrent calls, restarts, clocks and Packages
\* (requirePackage, ModelGenerationBoundary.generate).
THEOREM ModelCallsHoldTheirGrant == BoundarySpec => []ModelCallsAreGranted
<1>1. BoundaryInv => ModelCallsAreGranted
  BY BoundaryInvariantIsEnough, Zenon 
<1> QED
  BY <1>1, BoundaryInvariant, PTL

\* An answer leaves the boundary only with its stored outcome, and cites
\* only Evidence of the Package sent, each once
\* (the citation loop and #recordOutcome of generate).
THEOREM AnswersAreCited == BoundarySpec => []AnswersCiteTheirPackage
<1>1. BoundaryInv => AnswersCiteTheirPackage
  BY BoundaryInvariantIsEnough, Zenon 
<1> QED
  BY <1>1, BoundaryInvariant, PTL
=============================================================================
