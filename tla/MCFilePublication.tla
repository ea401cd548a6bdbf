------------------------- MODULE MCFilePublication -------------------------
(* Small instances of FilePublication for TLC. *)
EXTENDS FilePublication, TLC

CONSTANT TheResource

MCResourceOf == [j \in Jobs |-> TheResource]

\* Bound: one withdrawal of authority per behaviour.
OneWithdrawal ==
    Cardinality({x \in 1 .. 4 :
                    \/ x = 1 /\ ~membership
                    \/ x = 2 /\ ~sourceActive
                    \/ x = 3 /\ tombstoned[TheResource]
                    \/ x = 4 /\ access[TheResource] = "revoked"}) <= 1

\* Bound: jobs of accepted pages only.
ScheduledOnly ==
    /\ OneWithdrawal
    /\ \A j \in Jobs : state[j] # "absent" => pageEpoch[j] # None

\* Bound: direct imports, or jobs of accepted pages.  In the second case the
\* later page has another content, as scans schedule what is new, and the only
\* authority withdrawn is the Source's.
DirectOrScheduled ==
    /\ OneWithdrawal
    /\ scanEpoch > 0 =>
          /\ ScheduledOnly
          /\ \A j, k \in Jobs :
                j # k /\ expected[j] = expected[k] => expected[j] = None
          /\ membership
          /\ ~tombstoned[TheResource]
          /\ access[TheResource] # "revoked"

Symmetry ==
    Permutations(Jobs) \cup Permutations(Workers) \cup Permutations(Contents)
====
