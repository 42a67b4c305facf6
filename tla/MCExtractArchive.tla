-------------------------- MODULE MCExtractArchive --------------------------
(* ExtractArchive instantiated for TLC; the .cfg files give the constants. *)
EXTENDS ExtractArchive

CONSTANTS n1, n2

TwoNames == {n1, n2}

\* An empty destination, and ones where a file or a directory is in the way.
SomeBefores == {[n \in TwoNames |-> IF n = n1 THEN x ELSE None] : x \in {None, Old, Dir}}

E(k, n, s) == [kind |-> k, name |-> n, size |-> s]

\* One entry of every kind, files of no, some and more than a block's bytes.
SomeEntries == {E("file", n1, 0), E("file", n1, 3), E("file", n2, 1), E("dir", n1, 0),
                E("link", n1, 0), E("abs", n2, 2), E("out", n2, 1)}

\* The first one's data ends with the last byte the tar.gz limit lets through.
TwoFiles == {<<E("file", n1, 3), E("file", n2, 1)>>}

UpToThree == UNION {[1..k -> SomeEntries] : k \in 0..3}
=============================================================================
