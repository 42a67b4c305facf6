---------------------------- MODULE MCServerDirs ----------------------------
EXTENDS ServerDirs

CONSTANTS r1, r2, r3, gw, o1, o2, srvP, srvQ, sub, file1, bkDir

ThreeRequests == {r1, r2, r3}
AllNames    == {srvP, srvQ, sub, file1, bkDir}
MCBackups   == bkDir
MCGateway   == gw
AllOwners   == {gw, o1, o2}

C(o, a, b, w) == [op |-> o, path |-> a, to |-> b, owner |-> w]

\* Servers P, Q and P/sub, which lies in P, and files in P and in P/sub.
CreateNested == C("create", <<srvP, sub>>, <<>>, o2)
CreateQ      == C("create", <<srvQ>>, <<>>, o1)
DeleteP      == C("delete", <<srvP>>, <<>>, gw)
ChmodP       == C("chmod", <<srvP>>, <<>>, gw)
DeleteNested == C("deleteFile", <<srvP, sub>>, <<>>, gw)
MigrateOut   == C("migrate", <<srvP>>, <<srvQ>>, gw)
MigrateIn    == C("migrate", <<srvQ>>, <<srvP, sub>>, gw)
WriteDeep    == C("write", <<srvP, sub, file1>>, <<>>, o1)
MoveDeep     == C("move", <<srvP, file1>>, <<srvP, sub, file1>>, o2)

SomeCalls == [r \in Requests |->
  CASE r = r1 -> {MigrateOut, MigrateIn, MoveDeep}
    [] r = r2 -> {MigrateOut, CreateNested, CreateQ, WriteDeep}
    [] r = r3 -> {DeleteP, DeleteNested, ChmodP}]

N(u, x, k) == [up |-> u, name |-> x, kind |-> k, owner |-> o1]

\* An empty P/sub and an empty Q; and P with a file in it, and one in P/sub.
SomeTrees ==
  {<<N(1, srvP, "dir"), N(2, sub, "dir"), N(1, srvQ, "dir")>>,
   <<N(1, srvP, "dir"), N(2, sub, "dir"), N(3, file1, "file"), N(2, file1, "file")>>}
=============================================================================
