----------------------------- MODULE ServerDirs -----------------------------
(***************************************************************************)
(* The requests that change the tree of server directories: CreateServer,  *)
(* DeleteServer, Migrate, ChmodServer, WriteFile, MoveFile and the         *)
(* deletion of a file, each as the system calls it makes, one call of the  *)
(* Go library per step. No lock orders them: whatever a request has looked *)
(* at may have changed when it acts on it.                                 *)
(*                                                                         *)
(* The file system is a tree of nodes, so that a directory stays itself    *)
(* when it is renamed; a path is resolved anew by each call.  Server names *)
(* may be nested, so one server may lie in another one's directory.        *)
(*                                                                         *)
(* os.MkdirAll is one step, and so is the removal of one entry, with all   *)
(* below it, in os.RemoveAll.  os.Rename is two: Go refuses a target that  *)
(* is a directory, and the kernel then replaces one that is empty.         *)
(***************************************************************************)
EXTENDS Integers, SequencesExt

CONSTANTS
  Requests,  \* one element per request
  Names,     \* path segments
  Backups,   \* the one that is "backups"
  Owners,    \* uid:gid pairs
  Gateway,   \* the gateway's own, which a directory has before it is chowned
  Calls,     \* request -> the calls it may be
  Trees,     \* initial trees: sequences of nodes, each above those it holds
  MaxNodes,  \* bound: files and directories ever made
  MaxFaults  \* bound: system calls that fail

NoNode == 0
Base   == 1             \* basePath
Nodes  == 1..MaxNodes
Ops    == {"create", "delete", "migrate", "chmod", "write", "move", "deleteFile"}

\* path and to are as resolved below basePath; owner is that of the call.
Call == [op : Ops, path : Seq(Names), to : Seq(Names), owner : Owners]

ASSUME CallsAssumption ==
  /\ Backups \in Names /\ Gateway \in Owners
  /\ \A r \in Requests : \A c \in Calls[r] :
       c \in Call /\ c.path # <<>> /\ (c.op \in {"migrate", "move"} => c.to # <<>>)
ASSUME TreesAssumption ==
  /\ MaxNodes \in Nat \ {0} /\ MaxFaults \in Nat
  /\ \A t \in Trees :
       /\ t \in Seq([up : Nat, name : Names, kind : {"dir", "file"}, owner : Owners])
       /\ Len(t) < MaxNodes
       /\ \A k \in 1..Len(t) : t[k].up \in 1..k /\ (t[k].up # Base => t[t[k].up - 1].kind = "dir")

VARIABLES
  entry,  \* directory -> name -> the node of that name in it
  kind,   \* node -> "free", "dir" or "file"
  owner,  \* node -> who owns it
  made,   \* nodes made so far
  modes,  \* nodes whose permission bits are those of a chmod
  call,   \* request -> its call
  pc,     \* where the code of a request stands
  reply,  \* the status code of its answer
  fd,     \* the directory RemoveAll has open, and the one that held it
  todo,   \* how long a prefix of its path mkdirAllOwned chowns next
  faults,
  before, \* history: nodes made when a request looked for missing directories
  target, \* history: the node its first os.Stat found at its path
  rivals  \* history: the requests that were served at the same time

fsVars   == <<entry, kind, owner, made>>
histVars == <<before, target, rivals>>
vars == <<fsVars, modes, call, pc, reply, fd, todo, faults, histVars>>

-----------------------------------------------------------------------------
Steps == {"mkdir", "chown", "mkBackups", "chownBackups", "stat", "statNew", "rename", "lstat",
          "open", "empty", "rmdir", "chmod", "look", "mkdirs", "chowns", "write", "chownFile"}
Codes == {0, 200, 201, 404, 409, 500}
NoDir == [it |-> NoNode, up |-> NoNode]

\* The nodes that the prefixes of p lead to, from the empty one on.
Child(tree, n, x) == IF n = NoNode THEN NoNode ELSE tree[n][x]
WalkIn(tree, p) ==
  LET at[k \in 0..Len(p)] == IF k = 0 THEN Base ELSE Child(tree, at[k - 1], p[k]) IN at

Walk(p)      == WalkIn(entry, p)
Resolve(p)   == Walk(p)[Len(p)]
Up(p)        == Walk(p)[Len(p) - 1]
IsDir(n)     == n # NoNode /\ kind[n] = "dir"
IsEmpty(n)   == \A x \in Names : entry[n][x] = NoNode
IsLinked(n)  == n = Base \/ \E d \in Nodes, x \in Names : entry[d][x] = n

TypeOK ==
  /\ entry \in [Nodes -> [Names -> Nodes \cup {NoNode}]]
  /\ kind \in [Nodes -> {"free", "dir", "file"}] /\ kind[Base] = "dir"
  /\ owner \in [Nodes -> Owners]
  /\ modes \subseteq {n \in Nodes : kind[n] # "free"}
  /\ made \in Nodes /\ \A n \in Nodes : n > made <=> kind[n] = "free"
  /\ \A n \in Nodes : kind[n] # "dir" => IsEmpty(n)
  /\ \A n \in Nodes : Cardinality({d \in Nodes \X Names : entry[d[1]][d[2]] = n}) <= 1
  /\ \A r \in Requests : call[r] \in Calls[r]
  /\ pc \in [Requests -> {"idle", "replied"} \cup Steps]
  /\ reply \in [Requests -> Codes]
  /\ \A r \in Requests : pc[r] = "replied" <=> reply[r] # 0
  /\ fd \in [Requests -> [it : Nodes \cup {NoNode}, up : Nodes \cup {NoNode}]]
  /\ todo \in [Requests -> Nat]
  /\ faults \in 0..MaxFaults
  /\ before \in [Requests -> Nodes] /\ target \in [Requests -> Nodes \cup {NoNode}]
  /\ rivals \in [Requests -> SUBSET Requests]

Init ==
  \E t \in Trees :
    /\ made = Len(t) + 1 /\ modes = {}
    /\ kind = [n \in Nodes |-> IF n = Base THEN "dir" ELSE IF n > made THEN "free" ELSE t[n - 1].kind]
    /\ owner = [n \in Nodes |-> IF n \in 2..made THEN t[n - 1].owner ELSE Gateway]
    /\ entry = [n \in Nodes |-> [x \in Names |->
                  IF \E k \in DOMAIN t : t[k].up = n /\ t[k].name = x
                  THEN 1 + CHOOSE k \in DOMAIN t : t[k].up = n /\ t[k].name = x
                  ELSE NoNode]]
    /\ call \in {c \in [Requests -> UNION {Calls[r] : r \in Requests}] :
                   \A r \in Requests : c[r] \in Calls[r]}
    /\ pc = [r \in Requests |-> "idle"] /\ reply = [r \in Requests |-> 0]
    /\ fd = [r \in Requests |-> NoDir] /\ todo = [r \in Requests |-> 0]
    /\ faults = 0
    /\ before = [r \in Requests |-> 1] /\ target = [r \in Requests |-> NoNode]
    /\ rivals = [r \in Requests |-> {}]

Goto(r, label) == pc' = [pc EXCEPT ![r] = label] /\ UNCHANGED reply
Answer(r, code) == pc' = [pc EXCEPT ![r] = "replied"] /\ reply' = [reply EXCEPT ![r] = code]

-----------------------------------------------------------------------------
\* What the library's calls do to the tree.

\* How much of p is there.
There(p) == Max({k \in 0..Len(p) : Walk(p)[k] # NoNode})

\* os.MkdirAll: the prefixes of p that are missing, made one in the other.
CanMkdirAll(p) == IsDir(Walk(p)[There(p)])

MkdirAll(p) ==
  LET there == There(p)
      last  == Walk(p)[there]
      total == made + Len(p) - there
      At(k) == IF k = there THEN last ELSE made + k - there
  IN  /\ total <= MaxNodes
      /\ made' = total
      /\ kind' = [n \in Nodes |-> IF n \in made + 1 .. total THEN "dir" ELSE kind[n]]
      /\ entry' = [n \in Nodes |-> [x \in Names |->
                     IF \E k \in there .. Len(p) - 1 : n = At(k) /\ x = p[k + 1]
                     THEN 1 + (IF n = last THEN made ELSE n)
                     ELSE entry[n][x]]]
      /\ UNCHANGED owner

Chown(n, o) == owner' = [owner EXCEPT ![n] = o] /\ UNCHANGED <<entry, kind, made>>

Unlink(d, x) == entry' = [entry EXCEPT ![d][x] = NoNode] /\ UNCHANGED <<kind, owner, made>>

\* rename(2): a file replaces a file, a directory an empty directory; nothing
\* is moved below itself.
CanRename(p, q) ==
  LET src == Resolve(p)
      dst == Resolve(q)
  IN  /\ src # NoNode /\ IsDir(Up(q))
      /\ \A k \in 1..Len(q) - 1 : Walk(q)[k] # src
      /\ dst # NoNode /\ dst # src => kind[dst] = kind[src] /\ IsEmpty(dst)

\* Mutant: the old name stays.
RenameByLink(p, q) ==
  /\ entry' = [entry EXCEPT ![Up(q)][Last(q)] = Resolve(p)]
  /\ UNCHANGED <<kind, owner, made>>

Rename(p, q) ==
  LET src == Resolve(p)
  IN  /\ entry' = IF Resolve(q) = src THEN entry
                  ELSE [entry EXCEPT ![Up(p)][Last(p)] = NoNode, ![Up(q)][Last(q)] = src]
      /\ UNCHANGED <<kind, owner, made>>

-----------------------------------------------------------------------------
\* The handlers decode, validate and call the client, whose first step follows.
FirstStep == [create |-> "mkdir", delete |-> "stat", migrate |-> "stat", chmod |-> "stat",
              write |-> "look", move |-> "stat", deleteFile |-> "stat"]

Running(r) == pc[r] \in Steps

Start(r) ==
  /\ pc[r] = "idle"
  /\ Goto(r, FirstStep[call[r].op])
  /\ LET others == {q \in Requests : Running(q)}
     IN  rivals' = [q \in Requests |-> IF q = r THEN others
                                       ELSE IF q \in others THEN rivals[q] \cup {r} ELSE rivals[q]]
  /\ UNCHANGED <<fsVars, modes, call, fd, todo, faults, before, target>>

\* Where an os.Stat has found its path.
AfterStat == [delete |-> "open", deleteFile |-> "open", migrate |-> "statNew",
              chmod |-> "chmod", move |-> "look"]

\* A chown that fails is logged in CreateServer; an os.Stat that fails with
\* anything but IsNotExist counts as one that has found its path, but the one
\* for Migrate's target, and os.Rename's, as one that has not.
Overlooked(r) ==
  \/ pc[r] \in {"chown", "chownBackups", "statNew", "lstat"}
  \/ pc[r] = "stat" /\ call[r].op # "chmod"

GoOn(r) ==
  \/ pc[r] = "chown"        /\ Goto(r, "mkBackups")
  \/ pc[r] = "chownBackups" /\ Answer(r, 201)
  \/ pc[r] = "stat"         /\ Goto(r, AfterStat[call[r].op])
  \/ pc[r] = "statNew"      /\ Goto(r, "lstat")
  \/ pc[r] = "lstat"        /\ Goto(r, "rename")

Failure(r) ==
  /\ Running(r)
  /\ faults < MaxFaults /\ faults' = faults + 1
  /\ IF Overlooked(r) THEN GoOn(r) ELSE Answer(r, 500)
  /\ UNCHANGED <<fsVars, modes, call, fd, todo, histVars>>

\* CreateServer.
CreateMkdir(r) ==
  /\ pc[r] = "mkdir"
  /\ IF CanMkdirAll(call[r].path)
     THEN MkdirAll(call[r].path) /\ Goto(r, "chown")
     ELSE Answer(r, 500) /\ UNCHANGED fsVars
  /\ UNCHANGED <<modes, call, fd, todo, faults, histVars>>

CreateChown(r) ==
  /\ pc[r] = "chown"
  /\ LET n == Resolve(call[r].path)
     IN  IF n = NoNode THEN UNCHANGED fsVars ELSE Chown(n, call[r].owner)
  /\ Goto(r, "mkBackups")
  /\ UNCHANGED <<modes, call, fd, todo, faults, histVars>>

BackupsOf(r) == Append(call[r].path, Backups)

\* Mutant: the backups directory is made by the first backup only.
CreateNoBackups(r) ==
  /\ pc[r] = "mkBackups"
  /\ Goto(r, "chownBackups")
  /\ UNCHANGED <<fsVars, modes, call, fd, todo, faults, histVars>>

CreateMkBackups(r) ==
  /\ pc[r] = "mkBackups"
  /\ IF CanMkdirAll(BackupsOf(r))
     THEN MkdirAll(BackupsOf(r)) /\ Goto(r, "chownBackups")
     ELSE Answer(r, 500) /\ UNCHANGED fsVars
  /\ UNCHANGED <<modes, call, fd, todo, faults, histVars>>

CreateChownBackups(r) ==
  /\ pc[r] = "chownBackups"
  /\ LET n == Resolve(BackupsOf(r))
     IN  IF n = NoNode THEN UNCHANGED fsVars ELSE Chown(n, call[r].owner)
  /\ Answer(r, 201)
  /\ UNCHANGED <<modes, call, fd, todo, faults, histVars>>

\* The os.Stat that answers 404.
Stat(r) ==
  /\ pc[r] = "stat"
  /\ LET n == Resolve(call[r].path)
     IN  /\ target' = [target EXCEPT ![r] = n]
         /\ IF n = NoNode THEN Answer(r, 404)
            ELSE Goto(r, AfterStat[call[r].op])
  /\ UNCHANGED <<fsVars, modes, call, fd, todo, faults, before, rivals>>

\* DeleteServer and deleteFileHandler: os.RemoveAll.  It empties the directory
\* it has opened, whatever its name is meanwhile, and removes the name last.
Open(r) ==
  /\ pc[r] = "open"
  /\ LET p == call[r].path
         n == Resolve(p)
     IN  \/ n = NoNode /\ Answer(r, 200) /\ UNCHANGED <<fsVars, fd>>
         \/ /\ IsDir(n) /\ fd' = [fd EXCEPT ![r] = [it |-> n, up |-> Up(p)]]
            /\ Goto(r, "empty") /\ UNCHANGED fsVars
         \/ n # NoNode /\ ~IsDir(n) /\ Unlink(Up(p), Last(p)) /\ Answer(r, 200) /\ UNCHANGED fd
  /\ UNCHANGED <<modes, call, todo, faults, histVars>>

RemoveEntry(r) ==
  /\ pc[r] = "empty"
  /\ \E x \in Names : entry[fd[r].it][x] # NoNode /\ Unlink(fd[r].it, x)
  /\ UNCHANGED <<modes, call, pc, reply, fd, todo, faults, histVars>>

Emptied(r) ==
  /\ pc[r] = "empty" /\ IsEmpty(fd[r].it)
  /\ Goto(r, "rmdir")
  /\ UNCHANGED <<fsVars, modes, call, fd, todo, faults, histVars>>

RemoveDir(r) ==
  /\ pc[r] = "rmdir"
  /\ LET x == Last(call[r].path)
         n == entry[fd[r].up][x]
     IN  \/ n = NoNode /\ Answer(r, 200) /\ UNCHANGED fsVars
         \/ IsDir(n) /\ IsEmpty(n) /\ Unlink(fd[r].up, x) /\ Answer(r, 200)
         \/ n # NoNode /\ ~(IsDir(n) /\ IsEmpty(n)) /\ Answer(r, 500) /\ UNCHANGED fsVars
  /\ UNCHANGED <<modes, call, fd, todo, faults, histVars>>

\* ChmodServer: what has the name by now, which need not be what it has found.
ChmodServer(r) ==
  /\ pc[r] = "chmod"
  /\ LET n == Resolve(call[r].path)
     IN  IF n = NoNode THEN Answer(r, 500) /\ UNCHANGED modes
         ELSE Answer(r, 200) /\ modes' = modes \cup {n}
  /\ UNCHANGED <<fsVars, call, fd, todo, faults, histVars>>

\* Migrate: the second os.Stat.  Mutant: it clears the way instead.
ClearTarget(r) ==
  /\ pc[r] = "statNew"
  /\ IF Resolve(call[r].to) # NoNode THEN Unlink(Up(call[r].to), Last(call[r].to)) ELSE UNCHANGED fsVars
  /\ Goto(r, "lstat")
  /\ UNCHANGED <<modes, call, fd, todo, faults, histVars>>

StatNew(r) ==
  /\ pc[r] = "statNew"
  /\ IF Resolve(call[r].to) # NoNode THEN Answer(r, 409) ELSE Goto(r, "lstat")
  /\ UNCHANGED <<fsVars, modes, call, fd, todo, faults, histVars>>

\* os.Rename, for Migrate and MoveFile.
Lstat(r) ==
  /\ pc[r] = "lstat"
  /\ IF IsDir(Resolve(call[r].to)) THEN Answer(r, 500) ELSE Goto(r, "rename")
  /\ UNCHANGED <<fsVars, modes, call, fd, todo, faults, histVars>>

DoRename(r) ==
  /\ pc[r] = "rename"
  /\ IF CanRename(call[r].path, call[r].to)
     THEN Rename(call[r].path, call[r].to) /\ Answer(r, 200)
     ELSE UNCHANGED fsVars /\ Answer(r, 500)
  /\ UNCHANGED <<modes, call, fd, todo, faults, histVars>>

\* mkdirAllOwned for the parent of what WriteFile writes or MoveFile moves to:
\* walk up over what is missing, make it all, chown what was missing.
ParentOf(c) == Front(IF c.op = "write" THEN c.path ELSE c.to)

\* Mutant: the directory the walk ends at is chowned with the new ones.
WithAncestor(p) == There(p)

FirstNew(p) == There(p) + 1

\* os.Stat fails below a file; where all of the path is there, it is content.
Look(r) ==
  /\ pc[r] = "look"
  /\ LET p == ParentOf(call[r])
     IN  IF There(p) = Len(p) \/ IsDir(Walk(p)[There(p)])
         THEN todo' = [todo EXCEPT ![r] = FirstNew(p)] /\ Goto(r, "mkdirs")
         ELSE Answer(r, 500) /\ UNCHANGED todo
  /\ before' = [before EXCEPT ![r] = made]
  /\ UNCHANGED <<fsVars, modes, call, fd, faults, target, rivals>>

Mkdirs(r) ==
  /\ pc[r] = "mkdirs"
  /\ LET p == ParentOf(call[r])
     IN  IF CanMkdirAll(p) THEN MkdirAll(p) /\ Goto(r, "chowns")
                           ELSE UNCHANGED fsVars /\ Answer(r, 500)
  /\ UNCHANGED <<modes, call, fd, todo, faults, histVars>>

ChownNext(r) ==
  /\ pc[r] = "chowns" /\ todo[r] <= Len(ParentOf(call[r]))
  /\ todo' = [todo EXCEPT ![r] = @ + 1]
  /\ LET n == Walk(ParentOf(call[r]))[todo[r]]
     IN  IF n = NoNode THEN UNCHANGED fsVars /\ Answer(r, 500)
                       ELSE Chown(n, call[r].owner) /\ UNCHANGED <<pc, reply>>
  /\ UNCHANGED <<modes, call, fd, faults, histVars>>

ChownedAll(r) ==
  /\ pc[r] = "chowns" /\ todo[r] > Len(ParentOf(call[r]))
  /\ Goto(r, IF call[r].op = "write" THEN "write" ELSE "lstat")
  /\ UNCHANGED <<fsVars, modes, call, fd, todo, faults, histVars>>

\* WriteFile: os.WriteFile makes the file or rewrites it.
Write(r) ==
  /\ pc[r] = "write"
  /\ LET p == call[r].path
         n == Resolve(p)
     IN  \/ /\ ~IsDir(Up(p)) \/ IsDir(n)
            /\ Answer(r, 500) /\ UNCHANGED fsVars
         \/ /\ IsDir(Up(p)) /\ n # NoNode /\ ~IsDir(n)
            /\ Goto(r, "chownFile") /\ UNCHANGED fsVars
         \/ /\ IsDir(Up(p)) /\ n = NoNode
            /\ made < MaxNodes /\ made' = made + 1
            /\ kind' = [kind EXCEPT ![made + 1] = "file"]
            /\ entry' = [entry EXCEPT ![Up(p)][Last(p)] = made + 1]
            /\ Goto(r, "chownFile")
            /\ UNCHANGED owner
  /\ UNCHANGED <<modes, call, fd, todo, faults, histVars>>

ChownFile(r) ==
  /\ pc[r] = "chownFile"
  /\ LET n == Resolve(call[r].path)
     IN  IF n = NoNode THEN Answer(r, 500) /\ UNCHANGED fsVars
                       ELSE Answer(r, 200) /\ Chown(n, call[r].owner)
  /\ UNCHANGED <<modes, call, fd, todo, faults, histVars>>

CreateServer(r) == CreateMkdir(r) \/ CreateChown(r) \/ CreateMkBackups(r) \/ CreateChownBackups(r)
RemoveAll(r)    == Open(r) \/ RemoveEntry(r) \/ Emptied(r) \/ RemoveDir(r)
MoveTo(r)       == StatNew(r) \/ Lstat(r) \/ DoRename(r)
MkdirAllOwned(r) == Look(r) \/ Mkdirs(r) \/ ChownNext(r) \/ ChownedAll(r)
WriteFile(r)    == Write(r) \/ ChownFile(r)

Next == \E r \in Requests :
  \/ Start(r) \/ Failure(r) \/ Stat(r)
  \/ CreateServer(r) \/ RemoveAll(r) \/ ChmodServer(r) \/ MoveTo(r) \/ MkdirAllOwned(r) \/ WriteFile(r)

Spec == Init /\ [][Next]_vars

-----------------------------------------------------------------------------
\* Nothing that holds something is lost to a rename: a file, or a directory
\* with anything in it, leaves the tree only as what a request is to delete, or
\* as the file in the place that another file is moved to.  Two requests for
\* one name, Migrate's late look at its target, cannot cost a server.
NothingLost ==
  [][\A d, n \in Nodes, x \in Names :
       (/\ entry[d][x] = n /\ entry'[d][x] # n
        /\ kind[n] = "file" \/ ~IsEmpty(n)
        /\ ~IsLinked(n)') =>
         \E r \in Requests :
           \/ pc[r] = "open" /\ kind[n] = "file" /\ n = Resolve(call[r].path)
           \/ pc[r] = "empty" /\ d = fd[r].it
           \/ pc[r] = "rename" /\ kind[n] = "file" /\ n = Resolve(call[r].to)]_vars

\* A success says that the thing is done, to the very file or directory the
\* request had found, if it could look, where no request ran beside it that
\* renames or deletes: others may create and write around it.
Calm(r) == \A q \in rivals[r] : call[q].op \in {"create", "write", "chmod"}
Looked(r) == call[r].op \in {"create", "write"} \/ target[r] # NoNode

Done(r) ==
  LET n == Resolve(call[r].path)
  IN  /\ call[r].op = "create" => IsDir(n) /\ IsDir(entry[n][Backups])
      /\ call[r].op = "write" => n # NoNode /\ kind[n] = "file" /\ owner[n] = call[r].owner
      /\ call[r].op \in {"migrate", "move"} => Resolve(call[r].to) = target[r]
      /\ call[r].op = "chmod" => target[r] \in modes
      /\ call[r].op \in {"delete", "deleteFile"} => ~IsLinked(target[r])

OkMeansDone ==
  [][\A r \in Requests : (reply[r] = 0 /\ reply'[r] \in {200, 201} /\ Calm(r) /\ Looked(r)) => Done(r)']_vars

\* A directory that was there before mkdirAllOwned looked keeps its owner,
\* unless a rename brings it to a place that was found empty or to that of the
\* file; otherwise only CreateServer gives one away, the server's own.
OldDirsKeepOwner ==
  [][\A n \in Nodes : (kind[n] = "dir" /\ owner'[n] # owner[n]) =>
       \E r \in Requests :
         /\ owner'[n] = call[r].owner
         /\ \/ pc[r] = "chown" /\ n = Resolve(call[r].path)
            \/ pc[r] = "chownBackups" /\ n = Resolve(BackupsOf(r))
            \/ /\ pc[r] \in {"chowns", "chownFile"}
               /\ n > before[r] \/ \E q \in rivals[r] : call[q].op \in {"migrate", "move"}]_vars
=============================================================================
