-------------------------- MODULE MCFileLiveness --------------------------
(* The two liveness questions about File Sources in one instance: a         *)
(* behaviour is either one of import jobs (FilePublication) or one of scan  *)
(* processes (FileScan), and `part` says which.  Liveness is checked, so    *)
(* there is no symmetry.                                                    *)
EXTENDS MCFilePublication

CONSTANTS Paths, Absent, Scanners, ScanBound, EditBound, PageBound
VARIABLES part, disk, edits, pages, scheduled, ended, imported, withdrawn,
          refused, scanner

scanVars == <<disk, edits, pages, scheduled, ended, imported, withdrawn, refused, scanner>>
Scan == INSTANCE FileScan WITH tombstoned <- withdrawn

\* Where the scans rest while imports are looked at: the operator has scanned
\* a root above the bound, and the refusal is on record.
ScansAreRefused ==
    /\ disk = [p \in Paths |-> CHOOSE c \in Contents : TRUE]
    /\ edits = 0 /\ pages = <<>> /\ scheduled = {} /\ ended = {}
    /\ imported = [p \in Paths |-> Absent] /\ withdrawn = {}
    /\ refused = TRUE
    /\ scanner = [s \in Scanners |-> Scan!Idle]

FileInit ==
    /\ Init
    /\ \/ part = "import" /\ ScansAreRefused
       \/ part = "scan" /\ Scan!Init

FileNext ==
    \/ part = "import" /\ Next /\ UNCHANGED <<part, scanVars>>
    \/ part = "scan" /\ Scan!ScanNext /\ UNCHANGED <<part, vars>>

\* FairSpec of FilePublication, or FairScanSpec of FileScan.
FileLivenessSpec ==
    /\ FileInit /\ [][FileNext]_<<part, vars, scanVars>>
    /\ \/ part = "import" /\ Fairness
       \/ part = "scan" /\ Scan!ScanFairness

\* Once files and processes are left alone, scanning settles: see FileScan.
ScanningSettles == Scan!ScanningSettles
===========================================================================
