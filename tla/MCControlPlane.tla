-------------------------- MODULE MCControlPlane --------------------------
(* What operators and connectors do to Articles, Sources and Releases, for  *)
(* TLC.  A behaviour is one of Article policies (AccessPolicy), of bulk     *)
(* changes to them (BulkPolicyChange), of the progress of a File source     *)
(* (SourceProgress) or of Release promotions (Releases), which share no     *)
(* state beyond the policies; `part` says which.                            *)
EXTENDS BulkPolicyChange, SourceProgress, Releases, TLC

VARIABLE part

-----------------------------------------------------------------------------
(* AccessPolicy: a File Article and a Feishu Article, two readers, a group  *)
(* with one of them in it and an empty group.                               *)

CONSTANTS r1, r2, g1, g2, file, doc

GroupOne == [kind |-> "groups", groups |-> {g1}]
GroupTwo == [kind |-> "groups", groups |-> {g2}]
MCGroupsOf == (r1 :> {g1}) @@ (r2 :> {})
MCTargetPolicies == {Organization, GroupOne}
MCBulkTargets == {Private, GroupOne}
MCDefaultPolicies == {None}
MCSourcePolicies == {Private, Organization, GroupTwo}

\* The policies alone are explored for one epoch less than the bulk changes.
SinglePolicyEpochs == 3
MCPolicyNext == PolicyNext /\ epoch' <= SinglePolicyEpochs

-----------------------------------------------------------------------------
(* BulkPolicyChange: the two Articles published, the document twice.        *)

PublishedArticles ==
    /\ epoch = 2 /\ now = 2
    /\ article = [a \in Articles |-> [state |-> "live", revision |-> 1]]
    /\ source = [lifecycle |-> "active", version |-> 1]
    /\ policy = (file :> [version |-> 1, local |-> Private, effective |-> Private,
                          status |-> "resolved", srcVersion |-> 1, asOf |-> 1,
                          aged |-> "no", fixedAt |-> 1])
             @@ (doc :> [version |-> 2, local |-> Private,
                         effective |-> Private, status |-> "resolved",
                         srcVersion |-> 1, asOf |-> 1, aged |-> "yes",
                         fixedAt |-> 2])
    /\ obs = (file :> [status |-> "resolved", policy |-> Private, observedAt |-> 1])
          @@ (doc :> [status |-> "resolved", policy |-> Organization, observedAt |-> 1])
    /\ access = (file :> [r \in Readers |-> IF r = r1 THEN "allowed" ELSE "none"])
             @@ (doc :> [r \in Readers |-> "none"])
    /\ fieldRight = (file :> {r1}) @@ (doc :> Readers)
    /\ member = Readers
    /\ defaults = [d \in Defaults |-> Private]

-----------------------------------------------------------------------------
(* SourceProgress: time may end the trusted calls made before the first     *)
(* checkpoint, and with them the behaviour.                                 *)

MCProgressNext ==
    /\ ProgressNext
    /\ controlClock' # controlClock => \A k \in Keys : log[k] = <<>>
    /\ controlClock > 0 => UNCHANGED sourceTables

-----------------------------------------------------------------------------
(* Releases: the operators are interchangeable, so the first one starts.    *)

CONSTANTS o1, o2

MCGatesOf == [e \in EvidenceFiles |->
                 IF e = "reviewed" THEN Gate ELSE Gate \ {"quality"}]

MCReleaseNext ==
    ReleaseNext /\ (operator[o1] = IdleRun => operator'[o2] = operator[o2])

-----------------------------------------------------------------------------
MCInit ==
    /\ part \in {"policy", "bulk", "progress", "releases"}
    /\ IF part = "policy" THEN PolicyInit ELSE PublishedArticles
    /\ pubShared = {} /\ fieldShared = {}
    /\ BulkInit /\ ProgressInit /\ ReleaseInit

MCNext ==
    \/ /\ part = "policy" /\ MCPolicyNext
       /\ UNCHANGED <<lockVars, shown, commits, progressVars, releaseVars>>
    \/ part = "bulk" /\ BulkNext /\ UNCHANGED <<progressVars, releaseVars>>
    \/ part = "progress" /\ MCProgressNext /\ UNCHANGED <<bulkVars, releaseVars>>
    \/ part = "releases" /\ MCReleaseNext /\ UNCHANGED <<bulkVars, progressVars>>

MCSpec ==
    MCInit /\ [][MCNext /\ UNCHANGED part]_<<part, bulkVars, progressVars, releaseVars>>
=============================================================================
