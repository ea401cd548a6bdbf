----------------------------- MODULE MCFileScan -----------------------------
(* Instances of FileScan for TLC.                                          *)
EXTENDS FileScan, TLC

Symmetry == Permutations(Scanners) \cup Permutations(Contents)

\* The files of the root are of one content, except after the first edit, and
\* at first there are some at the first paths: all of them, one above the bound,
\* until an edit takes the last one away; or three, until the second edit; or
\* fewer.
FewFiles ==
    LET last == CHOOSE p \in Paths : \A q \in Paths : q <= p
        files == {p \in Paths : disk[p] # Absent}
        same == Cardinality({disk[p] : p \in files}) <= 1
    IN  /\ edits # 1 => same
        /\ edits = 0 => \A p \in files, q \in Paths : q < p => q \in files
        /\ last \in files => edits = 0
        /\ last - 1 \in files => edits < 2 /\ same

\* Import jobs end in the order of their pages.
JobsEndInOrder == \A i \in ended, j \in scheduled : j < i => j \in ended

\* A process that died starts over just as one that ended its cycle: it is
\* enough that one is down at a time.
OneIsDown == Cardinality({s \in Scanners : At(s, "down")}) <= 1

\* A job ends, and a delete is executed, when a page is about to be accepted or
\* no scan is running: the steps in between neither read nor write what they do.
JobsEndBetweenScans ==
    jobs' # jobs => \/ \E s \in Scanners : At(s, "accept")
                    \/ \A s \in Scanners : scanner[s].pc \in {"idle", "down"}
=============================================================================
