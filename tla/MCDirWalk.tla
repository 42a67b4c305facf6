----------------------------- MODULE MCDirWalk -----------------------------
(* DirWalk instantiated for TLC; the .cfg files give the constants. *)
EXTENDS DirWalk

\* A directory with a directory in it that holds a file and a link, then an
\* empty directory's place and a file.
MCOrder  == <<"t", "a", "a/f", "a/l", "b", "b/f", "c">>
MCParent == [p \in {"a", "a/f", "a/l", "b", "b/f", "c"} |->
               IF p \in {"a/f", "a/l"} THEN "a" ELSE IF p = "b/f" THEN "b" ELSE "t"]
MCKind   == [p \in {"t", "a", "a/f", "a/l", "b", "b/f", "c"} |->
               IF p \in {"t", "a", "b"} THEN "dir" ELSE IF p = "a/l" THEN "link" ELSE "file"]

Everything == {"t", "a", "a/f", "a/l", "b", "b/f", "c"}
Files      == {"a/f", "b/f", "c"}

List(o, m)       == [op |-> o, max |-> m, depth |-> 0, only |-> {}]
Find(m, d, some) == [op |-> "find", max |-> m, depth |-> d, only |-> some]
Grep(m, some)    == [op |-> "grep", max |-> m, depth |-> 0, only |-> some]

MCCalls == {List("flat", 0), List("flat", 1), List("walk", 0), List("walk", 2),
            List("files", 0), List("servers", 0), List("du", 0),
            Grep(0, Files), Grep(1, {"b/f", "c"}),
            Find(0, 0, Everything), Find(0, 1, Everything), Find(0, 2, Files), Find(1, 0, Files)}
=============================================================================
