--------------------------- MODULE MCDownloadJobs ---------------------------
(* DownloadJobs instantiated for TLC; the .cfg files give the constants. *)
EXTENDS DownloadJobs, TLC

CONSTANTS j1, j2, root, sub, dot, n1, n2

MCRoot   == root
TwoJobs  == {j1, j2}
NoDir    == {}
OneDir   == {sub}
OneDot   == {dot}
TwoNames == {n1, n2}

Request(p, k, m, ns) == [path |-> p, kind |-> k, mode |-> m, names |-> ns]

\* A copy and extractions that write a name of each other.
Overlapping == {Request(root, "zip", "skip_existing", {n1, n2}),
                Request(root, "file", "overwrite", {n1})}

\* clean_first below the root and at a directory that looks like a file, which
\* cleans the root, next to a download elsewhere, and skip_existing where the
\* code honours it.
Mixed == {Request(dot, "file", "clean_first", {n1}),
          Request(sub, "tar", "clean_first", {n1}),
          Request(sub, "file", "overwrite", {n2}),
          Request(sub, "zip", "skip_existing", {n2}),
          Request(root, "file", "skip_existing", {n1})}

\* Jobs are interchangeable (not used where liveness is checked).
JobSymmetry == Permutations(TwoJobs)
=============================================================================
