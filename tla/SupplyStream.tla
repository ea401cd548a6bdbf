---------------------------- MODULE SupplyStream ----------------------------
(* What the Supply bridge promises of one connector job: its accepted pages *)
(* are a chain.  A page starts from the checkpoint that the page accepted   *)
(* before it left behind, no page comes twice, and nothing follows the      *)
(* terminal one.                                                            *)
EXTENDS Sequences

CONSTANT StreamStarts        \* the checkpoints a job may begin from
VARIABLES chain, cursor

streamVars == <<chain, cursor>>

StreamInit ==
    /\ chain = <<>>
    /\ cursor \in StreamStarts

IsOpen ==
    chain = <<>> \/ ~chain[Len(chain)].terminal

Extend(page) ==
    /\ IsOpen
    /\ page.ref[1] = cursor
    /\ \A i \in DOMAIN chain : chain[i].ref # page.ref
    /\ chain' = Append(chain, page)
    /\ cursor' = page.proposal

\* The page a step extends the chain with can be read off its result.
StreamNext ==
    chain' # <<>> /\ Extend(chain'[Len(chain')])

StreamSpec == StreamInit /\ [][StreamNext]_streamVars
=============================================================================
