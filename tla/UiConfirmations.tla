--------------------------- MODULE UiConfirmations ---------------------------
(***************************************************************************)
(* The minimal UI (adapters/http/ui_api.py): what a person confirms in a   *)
(* browser after a preview.  A preview changes nothing; it hands out a     *)
(* signed token with everything the confirmation needs.  The token may be  *)
(* confirmed late, twice, in two tabs, or again after a lost reply, while  *)
(* the file, the Article's policy, the Source and the person's Membership  *)
(* change.  A confirmation is two transactions: the token and the          *)
(* Membership are verified, and then the Control function decides.         *)
(*                                                                         *)
(* A token is the document it signs: two previews of the same thing in the *)
(* same second are the same token.  The policies of other Articles, and    *)
(* every other writer of this one, are module AccessPolicy; here they only *)
(* move the policy and the Policy Epoch.                                   *)
(***************************************************************************)
EXTENDS Integers, FiniteSets

CONSTANTS
    Tabs,            \* browser tabs of one person
    UiContents,      \* contents of the file at the path that is imported
    RichContents,    \* ... those the exact import hands over to a scan
    UiPolicies,      \* policies an Article may be given
    PreviewTtl,      \* _PREVIEW_TTL
    UiClockBound, UiEpochBound, UiMemberBound   \* bounds

ASSUME UiAssumption ==
    /\ RichContents \subseteq UiContents
    /\ PreviewTtl \in Nat \ {0}
    /\ UiClockBound \in Nat /\ UiEpochBound \in Nat /\ UiMemberBound \in Nat

VARIABLES
    uiNow,           \* the clock, in whole seconds
    uiMember,        \* membership_version that is current; 0 when there is none
    uiLogin,         \* the membership_version the session was opened with
    uiSource,        \* declarationVersion of the active version; 0: not active
    uiFile,          \* the file at the path
    uiArticle,       \* the Article: policy, policy version and Policy Epoch
    tab,             \* the token and the request of each tab
    uiAcquisitions,  \* file_acquisition rows of confirmed imports, with the job
    uiRevision,      \* the token whose import published the active Revision
    uiFeedback,      \* context_feedback rows of one run
    policyChanges    \* history: what the UI changed, and what was there

uiVars == <<uiNow, uiMember, uiLogin, uiSource, uiFile, uiArticle, tab,
            uiAcquisitions, uiRevision, uiFeedback, policyChanges>>
uiSurroundings == <<uiNow, uiMember, uiLogin, uiSource, uiFile>>
uiEffects == <<uiArticle, uiAcquisitions, uiRevision, uiFeedback, policyChanges>>

Unconfirmed == [kind |-> "none", actor |-> 0, issued |-> 0, payload |-> <<>>]
NewTab == [pc |-> "idle", token |-> Unconfirmed, shown |-> <<>>]

UiInit ==
    /\ uiNow = 0 /\ uiMember = 1 /\ uiLogin = 1
    /\ uiSource \in {1, 2}
    /\ uiFile \in UiContents
    /\ uiArticle \in [policy : UiPolicies, version : {1}, epoch : {1}, live : {TRUE}]
    /\ tab = [b \in Tabs |-> NewTab]
    /\ uiAcquisitions = {} /\ uiRevision = Unconfirmed
    /\ uiFeedback = {} /\ policyChanges = {}

\* _verified: the Membership of the session is current.
MemberIsCurrent == uiMember = uiLogin

-----------------------------------------------------------------------------
(* Previews.                                                               *)

\* _PreviewCodec.issue
IssueToken(b, kind, payload, shown) ==
    tab' = [tab EXCEPT ![b] =
              [pc |-> "idle", shown |-> shown,
               token |-> [kind |-> kind, actor |-> uiLogin, issued |-> uiNow,
                          payload |-> payload]]]

\* preview_import: the file of an active Source is read and compiled.  Rich
\* Markdown is handed over to a scan and gets no token.
PreviewImport(b) ==
    /\ tab[b].pc = "idle"
    /\ MemberIsCurrent
    /\ uiSource # 0
    /\ uiFile \notin RichContents
    /\ IssueToken(b, "file_import", <<uiFile>>, <<uiFile>>)
    /\ UNCHANGED <<uiSurroundings, uiEffects>>

\* preview_article_policy: the Article is read in one statement.
PreviewArticlePolicy(b, target) ==
    /\ tab[b].pc = "idle"
    /\ MemberIsCurrent
    /\ uiArticle.live
    /\ IssueToken(b, "article_policy", <<uiArticle.version, uiArticle.epoch, target>>,
                  <<uiArticle.policy>>)
    /\ UNCHANGED <<uiSurroundings, uiEffects>>

\* A token is copied to another tab, or the page is sent twice.
CopyToken(b, c) ==
    /\ tab[b].token # Unconfirmed /\ tab[c].pc = "idle"
    /\ tab' = [tab EXCEPT ![c] = [tab[b] EXCEPT !.pc = "idle"]]
    /\ UNCHANGED <<uiSurroundings, uiEffects>>

-----------------------------------------------------------------------------
(* Confirmations.                                                          *)

\* _PreviewCodec.verify, then the transaction of _verified, which is closed
\* before Control takes its locks.
VerifyToken(b) ==
    LET token == tab[b].token
    IN  /\ tab[b].pc = "idle" /\ token # Unconfirmed
        /\ token.actor = uiLogin
        /\ token.issued <= uiNow /\ uiNow < token.issued + PreviewTtl
        /\ MemberIsCurrent
        /\ tab' = [tab EXCEPT ![b].pc = "verified"]
        /\ UNCHANGED <<uiSurroundings, uiEffects>>

\* The reply arrives and the token is put away, or it is lost.
Replied(b) ==
    \/ tab' = [tab EXCEPT ![b] = NewTab]
    \/ tab' = [tab EXCEPT ![b].pc = "idle"]

\* Mutant: the file of the moment is expected, not the file that was shown.
MutantExpectedContent(token) == uiFile

ExpectedContent(token) == token.payload[1]

\* context_control_prepare_exact_file_import: versions 1 and 2 of an active
\* Source, version 1 becoming 2; one acquisition per token and one job per
\* acquisition, however often it is called.
PrepareExactFileImport(b) ==
    LET token == tab[b].token
    IN  /\ tab[b].pc = "verified" /\ token.kind = "file_import"
        /\ IF uiMember = token.actor /\ uiSource \in {1, 2}
           THEN /\ uiSource' = 2
                /\ uiAcquisitions' =
                     IF \E a \in uiAcquisitions : a.token = token THEN uiAcquisitions
                     ELSE uiAcquisitions \cup
                            {[token |-> token, expected |-> ExpectedContent(token),
                              state |-> "available"]}
           ELSE UNCHANGED <<uiSource, uiAcquisitions>>
        /\ Replied(b)
        /\ UNCHANGED <<uiNow, uiMember, uiLogin, uiFile, uiArticle, uiRevision,
                       uiFeedback, policyChanges>>

\* The Article is there, with the policy version and Policy Epoch of the preview.
StandsAsPreviewed(token) ==
    /\ uiArticle.live
    /\ uiArticle.version = token.payload[1] /\ uiArticle.epoch = token.payload[2]

\* context_control_change_article_policy
ChangeArticlePolicyByUi(b) ==
    LET token == tab[b].token
    IN  /\ tab[b].pc = "verified" /\ token.kind = "article_policy"
        /\ IF /\ uiMember = token.actor /\ StandsAsPreviewed(token)
              /\ uiArticle.epoch < UiEpochBound
           THEN /\ uiArticle' = [uiArticle EXCEPT !.policy = token.payload[3],
                                 !.version = @ + 1, !.epoch = @ + 1]
                /\ policyChanges' = policyChanges \cup
                     {[token |-> token, shown |-> tab[b].shown, from |-> uiArticle]}
           ELSE UNCHANGED <<uiArticle, policyChanges>>
        /\ Replied(b)
        /\ UNCHANGED <<uiSurroundings, uiAcquisitions, uiRevision, uiFeedback>>

\* The request dies between its two transactions.
DropRequest(b) ==
    /\ tab[b].pc = "verified"
    /\ tab' = [tab EXCEPT ![b].pc = "idle"]
    /\ UNCHANGED <<uiSurroundings, uiEffects>>

\* The File import job of a confirmation, from claim to its end (module
\* FilePublication): it publishes the file it reads when that is the expected
\* one, or fails, for this or another reason.
RunExactImport(a) ==
    /\ a.state = "available"
    /\ \E end \in {"failed"} \cup {"published" : e \in {a.expected} \cap {uiFile}} :
          /\ uiAcquisitions' = (uiAcquisitions \ {a}) \cup {[a EXCEPT !.state = end]}
          /\ uiRevision' = IF end = "published" THEN [a.token EXCEPT !.payload = <<uiFile>>]
                           ELSE uiRevision
    /\ UNCHANGED <<uiSurroundings, tab, uiArticle, uiFeedback, policyChanges>>

\* uq_context_feedback_actor_run, under the row policies of the capture.
FeedbackOf(member) == {f \in uiFeedback : f.member = member}

\* context_runtime_capture_context_feedback, for the run the first Membership
\* version of this person made: one row, and a repetition is answered with it.
CaptureFeedback(b, rating) ==
    /\ tab[b].pc = "idle"
    /\ MemberIsCurrent /\ uiLogin = 1
    /\ uiFeedback' = IF FeedbackOf(uiLogin) # {} THEN uiFeedback
                     ELSE uiFeedback \cup {[member |-> uiLogin, rating |-> rating]}
    /\ UNCHANGED <<uiSurroundings, tab, uiArticle, uiAcquisitions, uiRevision, policyChanges>>

-----------------------------------------------------------------------------
(* The surroundings.                                                       *)

UiTick ==
    /\ uiNow < UiClockBound
    /\ uiNow' = uiNow + 1
    /\ UNCHANGED <<uiMember, uiLogin, uiSource, uiFile, tab, uiEffects>>

\* The Membership ends, or is replaced by a new version.
ChangeMembership ==
    /\ uiMember \in 1 .. UiMemberBound - 1
    /\ uiMember' \in {0, uiMember + 1}
    /\ UNCHANGED <<uiNow, uiLogin, uiSource, uiFile, tab, uiEffects>>

\* The person signs in again; the tabs keep their tokens.
SignIn ==
    /\ uiMember # 0
    /\ uiLogin' = uiMember
    /\ UNCHANGED <<uiNow, uiMember, uiSource, uiFile, tab, uiEffects>>

EditUiFile ==
    /\ uiFile' \in UiContents \ {uiFile}
    /\ UNCHANGED <<uiNow, uiMember, uiLogin, uiSource, tab, uiEffects>>

\* A change feed is activated (version 3), or the Source is offboarded.
ChangeSource ==
    /\ uiSource # 0
    /\ uiSource' \in {0, 3} \ {uiSource}
    /\ UNCHANGED <<uiNow, uiMember, uiLogin, uiFile, tab, uiEffects>>

\* Another writer moves the policy of the Article or of another one, or the
\* Article is deleted.
ChangePolicyElsewhere ==
    /\ uiArticle.epoch < UiEpochBound
    /\ \E next \in {uiArticle, [uiArticle EXCEPT !.live = FALSE]} \cup
                   {[uiArticle EXCEPT !.policy = p, !.version = @ + 1] : p \in UiPolicies} :
          uiArticle' = [next EXCEPT !.epoch = uiArticle.epoch + 1]
    /\ UNCHANGED <<uiSurroundings, tab, uiAcquisitions, uiRevision, uiFeedback, policyChanges>>

UiNext ==
    \/ \E b \in Tabs :
          \/ PreviewImport(b)
          \/ \E p \in UiPolicies : PreviewArticlePolicy(b, p)
          \/ \E c \in Tabs \ {b} : CopyToken(b, c)
          \/ VerifyToken(b) \/ PrepareExactFileImport(b) \/ ChangeArticlePolicyByUi(b)
          \/ DropRequest(b)
          \/ \E rating \in {"helpful", "not_helpful"} : CaptureFeedback(b, rating)
    \/ \E a \in uiAcquisitions : RunExactImport(a)
    \/ UiTick \/ ChangeMembership \/ SignIn \/ EditUiFile \/ ChangeSource
    \/ ChangePolicyElsewhere

UiSpec == UiInit /\ [][UiNext]_uiVars

-----------------------------------------------------------------------------
(* Properties.                                                             *)

\* A confirmation has the effect its preview showed, once: a token has one
\* acquisition and job, however often and from however many tabs it is
\* confirmed, and what that job publishes is the file that was shown; a token
\* changes an Article's policy once, and from the policy that was shown beside
\* the proposal, although the token names only its version and epoch.  A person
\* leaves one feedback on a run (confirm_import, confirm_article_policy,
\* capture_feedback).
UiEffectsWerePreviewed ==
    /\ \A a, c \in uiAcquisitions : a.token = c.token => a = c
    /\ uiRevision # Unconfirmed =>
         \E a \in uiAcquisitions : a.state = "published" /\ a.token = uiRevision
    /\ \A x, y \in policyChanges : x.token = y.token => x = y
    /\ \A x \in policyChanges : <<x.from.policy>> = x.shown
    /\ \A f, g \in uiFeedback : f.member = g.member => f = g
=============================================================================
