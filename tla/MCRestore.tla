----------------------------- MODULE MCRestore -----------------------------
EXTENDS Restore

\* One that is longer than the pipe and one that has the link.
MCArchives == {<<2, 3, 1>>, <<1, 4>>}
=============================================================================
