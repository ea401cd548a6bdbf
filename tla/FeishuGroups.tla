---------------------------- MODULE FeishuGroups ----------------------------
(* How the Feishu connector turns the ACL answer of a document into one     *)
(* observation: it maps the named users, flattens the named groups through  *)
(* the group snapshot and grants nothing when any part is unknown.          *)
EXTENDS FiniteSets

CONSTANTS
    GroupRefs,          \* external group references
    IdentityRefs,       \* external identity references
    Unmapped,           \* no local group, or an opaque identity
    Unreadable          \* the mapping call raises FeishuSourceError

\* A snapshot maps some group references to their nodes.
GroupNode(localRefs) ==
    [local : localRefs \cup {Unmapped}, identities : SUBSET IdentityRefs,
     children : SUBSET GroupRefs]

\* visit: a group already on the path is recorded and not entered again.
RECURSIVE Visit(_, _, _)
Visit(nodes, ref, path) ==
    {ref} \cup
    IF ref \notin DOMAIN nodes \/ ref \in path THEN {}
    ELSE UNION {Visit(nodes, child, path \cup {ref}) : child \in nodes[ref].children}

VisitOneLevel(nodes, requested) ==
    requested \cup UNION {nodes[ref].children : ref \in requested \cap DOMAIN nodes}

Visited(nodes, requested) == UNION {Visit(nodes, ref, {}) : ref \in requested}

FlattenGroups(nodes, requested) ==
    LET visited == Visited(nodes, requested)
        known == visited \cap DOMAIN nodes
        local == {nodes[ref].local : ref \in known} \ {Unmapped}
    IN  [local |-> local,
         identities |-> UNION {nodes[ref].identities : ref \in known},
         unresolved |-> {ref \in visited : ref \notin known \/ nodes[ref].local = Unmapped},
         claims |-> {ref \in DOMAIN nodes : nodes[ref].local \in local}]

FailedObservation ==
    [status |-> "failed", kind |-> "none", groups |-> {}, principals |-> {}, opaque |-> {}]

MappedPrincipals(mapper, identities) ==
    {mapper[i] : i \in identities} \ {Unmapped}

Observe(response, nodes, mapper) ==
    LET flat == FlattenGroups(nodes, response.groups)
        identities == response.users \cup flat.identities
        opaque == {i \in identities : mapper[i] = Unmapped}
        resolved(kind, groups) ==
            [status |-> "resolved", kind |-> kind, groups |-> groups,
             principals |-> MappedPrincipals(mapper, identities), opaque |-> opaque]
    IN  IF response.status = "failed" \/ \E i \in identities : mapper[i] = Unreadable
        THEN FailedObservation
        ELSE IF flat.unresolved # {}
        THEN [status |-> "unresolved_group", kind |-> "none", groups |-> {},
              principals |-> {}, opaque |-> opaque]
        ELSE IF response.visibility = "organization" THEN resolved("organization", {})
        ELSE IF flat.local # {} THEN resolved("groups", flat.local)
        ELSE resolved("private", {})

-----------------------------------------------------------------------------
(* The reference: what the source grants, by closure rather than by search. *)

ClosedUnderChildren(nodes, S) ==
    \A ref \in S \cap DOMAIN nodes : nodes[ref].children \subseteq S

Reachable(nodes, requested) ==
    {ref \in GroupRefs : \A S \in SUBSET GroupRefs :
        requested \subseteq S /\ ClosedUnderChildren(nodes, S) => ref \in S}

(* An observation of a document grants exactly what its source grants: a    *)
(* resolved one names every local group and principal reachable from the    *)
(* subjects of the ACL through nested and cyclic groups and no other, and   *)
(* one unreadable identity or unmapped group leaves nothing granted.        *)
ObservesTheClosure(response, nodes, mapper, answer) ==
    LET reach == Reachable(nodes, response.groups)
        members == response.users \cup
                     UNION {nodes[ref].identities : ref \in reach \cap DOMAIN nodes}
        readable == response.status # "failed" /\ \A i \in members : mapper[i] # Unreadable
        whole == \A ref \in reach : ref \in DOMAIN nodes /\ nodes[ref].local # Unmapped
    IN  /\ (answer.status = "resolved") <=> (readable /\ whole)
        /\ answer.status = "resolved" =>
            /\ answer.principals = {mapper[i] : i \in members} \ {Unmapped}
            /\ answer.groups = IF response.visibility = "organization" THEN {}
                               ELSE {nodes[ref].local : ref \in reach}
            /\ answer.kind = "organization" <=> response.visibility = "organization"
        /\ answer.status # "resolved" =>
            answer.kind = "none" /\ answer.groups = {} /\ answer.principals = {}
=============================================================================
