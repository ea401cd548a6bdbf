-------------------------- MODULE BulkPolicyChange --------------------------
(***************************************************************************)
(* A bulk change of Article policies as the operator lives it, beside every *)
(* other writer of AccessPolicy.                                           *)
(*                                                                         *)
(* preview-bulk-article-policy prints what a change would touch and a      *)
(* digest of it.  The operator reads it and, later and in another process, *)
(* runs commit-bulk-article-policy with the same arguments and the digest. *)
(* That command previews again in one transaction, compares, and changes   *)
(* in a second one, which only compares policy versions.  Its reply may be *)
(* lost, and then the operator does not know and confirms again.           *)
(*                                                                         *)
(* A digest is the preview it digests.  The resolution rung of an item only *)
(* changes together with its policy version and is left out.               *)
(***************************************************************************)
EXTENDS AccessPolicy

CONSTANTS
    Editors,      \* the operators who preview and confirm
    BulkTargets   \* the policies they ask for

ASSUME BulkAssumption == BulkTargets \subseteq Policies

VARIABLES
    shown,     \* the preview an operator was shown
    commits    \* bulk changes committed for an operator's preview

bulkVars == <<epoch, now, article, source, policy, obs, access, fieldRight, member,
              defaults, pubShared, fieldShared, shown, commits>>

\* A selection is not empty and an item has a policy row.
Selections == (SUBSET Articles) \ {{}}
PreviewItem ==
    [version : Nat, current : PolicyOrNone, target : Policies]
NoPreview == [items |-> <<>>, stage |-> "none"]

BulkInit ==
    /\ shown = [b \in Editors |-> NoPreview]
    /\ commits = [b \in Editors |-> 0]

\* The items of a selection, with what is published now and what would be.
Previewed(S, target) ==
    [a \in S |-> [version |-> policy[a].version,
                  current |-> policy[a].effective,
                  target |-> target]]

\* The rows found are exactly the selection.
IsAdministrable(S) == \A a \in S : policy[a].version > 0

\* A new preview starts a new change; a selection without rows is refused.
PreviewBulkChange(b, S, target) ==
    /\ shown[b].stage = "none"
    /\ IsAdministrable(S)
    /\ shown' = [shown EXCEPT ![b] = [items |-> Previewed(S, target),
                                      stage |-> "shown"]]
    /\ commits' = [commits EXCEPT ![b] = 0]
    /\ UNCHANGED <<policyVars, lockVars>>

\* commit_bulk_article_policy_change up to its commit capability: the preview
\* is read again and must be the one confirmed, arguments included.
ConfirmPreview(b, S, target) ==
    /\ shown[b].stage = "shown"
    /\ IsAdministrable(S)
    /\ Previewed(S, target) = shown[b].items
    /\ shown' = [shown EXCEPT ![b].stage = "confirmed"]
    /\ UNCHANGED <<policyVars, lockVars, commits>>

\* A change that relies on the comparison made before its transaction.
ExpectsAnyVersion(b) == TRUE

\* context_control_bulk_change_article_policy: the versions are the expected
\* ones, under the row locks.
ExpectsVersions(b) ==
    \A a \in DOMAIN shown[b].items : policy[a].version = shown[b].items[a].version

\* The target of a preview is that of each of its items.
TargetOf(b) ==
    (CHOOSE item \in {shown[b].items[a] : a \in DOMAIN shown[b].items} : TRUE).target

\* The second transaction.  Without a reply the operator keeps the digest.
CommitBulkChange(b, answered) ==
    /\ shown[b].stage = "confirmed"
    /\ ExpectsVersions(b)
    /\ ConfirmBulkChange(DOMAIN shown[b].items, TargetOf(b))
    /\ shown' = [shown EXCEPT ![b].stage = IF answered THEN "done" ELSE "shown"]
    /\ commits' = [commits EXCEPT ![b] = @ + 1]
    /\ UNCHANGED lockVars

\* A refusal, an error or a dead process before the second transaction
\* commits: the sealed commit is gone and the digest is still in hand.
FailBulkChange(b) ==
    /\ shown[b].stage = "confirmed"
    /\ shown' = [shown EXCEPT ![b].stage = "shown"]
    /\ UNCHANGED <<policyVars, lockVars, commits>>

\* The operator is done with a preview, or gives it up.
ForgetPreview(b) ==
    /\ shown[b].stage \in {"shown", "done"}
    /\ shown' = [shown EXCEPT ![b] = NoPreview]
    /\ UNCHANGED <<policyVars, lockVars, commits>>

BulkNext ==
    \/ \E b \in Editors :
          \/ \E S \in Selections, p \in BulkTargets :
                PreviewBulkChange(b, S, p) \/ ConfirmPreview(b, S, p)
          \/ CommitBulkChange(b, TRUE) \/ CommitBulkChange(b, FALSE)
          \/ FailBulkChange(b) \/ ForgetPreview(b)
    \/ PolicyNext /\ UNCHANGED <<pubShared, fieldShared, shown, commits>>

BulkSpec ==
    /\ PolicyInit /\ BulkInit /\ pubShared = {} /\ fieldShared = {}
    /\ [][BulkNext]_bulkVars

-----------------------------------------------------------------------------
(* Properties.                                                             *)

BulkTypeOK ==
    \A b \in Editors :
        /\ shown[b].stage \in {"none", "shown", "confirmed", "done"}
        /\ DOMAIN shown[b].items \subseteq Articles
        /\ \A a \in DOMAIN shown[b].items : shown[b].items[a] \in PreviewItem
        /\ commits[b] \in Nat

\* A bulk change touches only what its operator was shown: at the moment it
\* commits every selected Article still has the policy version and the
\* published policy of the preview the operator read, however long ago, and
\* one preview is committed at most once, a lost reply and a second
\* confirmation included (commit_bulk_article_policy_change,
\* context_control_bulk_change_article_policy).
BulkChangesWereShown ==
    [][\A b \in Editors :
         commits'[b] > commits[b] =>
           /\ commits[b] = 0
           /\ \A a \in DOMAIN shown[b].items :
                 /\ policy[a].version = shown[b].items[a].version
                 /\ policy[a].effective = shown[b].items[a].current
                 /\ policy'[a].effective = shown[b].items[a].target]_bulkVars
=============================================================================
