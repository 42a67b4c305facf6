------------------------------ MODULE Restore ------------------------------
(***************************************************************************)
(* Restore and its handler: a request unpacks a backup over the directory  *)
(* of a server, which may be running.  The pipeline pzstd -d | tar -x is   *)
(* CommandPipe; here its consumer is a tar that extracts the entries of    *)
(* the archive one by one, a chunk of the stream each, and every file then *)
(* gets its owner.  Nothing is rolled back: what a failed restore leaves   *)
(* is where the next one starts.                                           *)
(*                                                                         *)
(* An archive is a sequence of names, which runBackup's tar has put there  *)
(* without the backups directory.  ListBackups also offers archives that   *)
(* are still being written or whose pzstd was killed: these hold only a    *)
(* number of whole entries and end somewhere in a frame or between two.    *)
(***************************************************************************)
EXTENDS CommandPipe, Sequences, FiniteSets, FiniteSetsExt

CONSTANTS
  Names,       \* files of the server, numbered in the order of a walk
  Links,       \* those that are symbolic links leading nowhere
  Layouts,     \* the files a server may have at first
  Archives,    \* archives: sequences of names without repetition
  MaxAttempts, \* bound: restores, one after the other
  MaxLive      \* bound: changes by the running server

ASSUME RestoreAssumption ==
  /\ Names \subseteq Nat /\ Links \subseteq Names /\ Layouts \subseteq SUBSET Names
  /\ \A a \in Archives :
       /\ a \in Seq(Names) /\ Len(a) <= MaxTotal
       /\ \A i, j \in 1..Len(a) : a[i] = a[j] => i = j
  /\ MaxAttempts \in Nat /\ MaxLive \in Nat

VARIABLES
  phase,     \* where the request stands
  status,    \* the answer's status code
  arch,      \* the archive that is restored
  tail,      \* how it ends: "whole", "frame" (between two frames) or "cut"
  dir,       \* name -> what is there
  owned,     \* names of files that belong to the uid asked for
  opened,    \* tar is inside an entry
  faulty,    \* tar has met an error it goes on after
  todo,      \* names chownRecursive has yet to reach
  attempts,
  before,    \* history: dir when this restore began
  touched    \* history: names the server has changed since

dirVars     == <<dir, owned, opened, faulty>>
restoreVars == <<phase, status, arch, tail, dirVars, todo, attempts, before, touched>>

Contents == {"none", "old", "live", "part", "new"}

RestoreTypeOK ==
  /\ TypeOK
  /\ phase \in {"idle", "pipe", "chown", "answered"}
  /\ status \in {0, 200, 404, 500}
  /\ arch \in Archives \cup {<<>>} /\ got <= Len(arch)
  /\ tail \in {"whole", "frame", "cut"}
  /\ dir \in [Names -> Contents] /\ before \in [Names -> Contents]
  /\ owned \subseteq Names /\ todo \subseteq Names
  /\ touched \subseteq Names
  /\ opened \in BOOLEAN /\ faulty \in BOOLEAN
  /\ attempts \in 0..MaxAttempts

RestoreInit ==
  /\ Init /\ total = 0
  /\ phase = "idle" /\ status = 0
  /\ arch = <<>> /\ tail = "whole"
  /\ \E l \in Layouts : dir = [n \in Names |-> IF n \in l THEN "old" ELSE "none"]
  /\ before = dir
  /\ owned = {} /\ opened = FALSE /\ faulty = FALSE
  /\ todo = {} /\ attempts = 0 /\ touched = {}

-----------------------------------------------------------------------------
\* The request.

Answer(s) == phase' = "answered" /\ status' = s

\* Mutant: the directory is emptied first.
ClearedDir == [n \in Names |-> "none"]

StartDir == dir

\* ListBackups offers every file of the right name: the archive with all its
\* entries, or what a backup has written of it so far or ever will.
Offered ==
  /\ arch' \in Archives
  /\ \/ tail' = "whole" /\ total' = Len(arch')
     \/ tail' \in {"frame", "cut"} /\ total' \in 0..Len(arch')

\* restoreHandler, and Restore up to the pipe.  A caller tries again when it
\* has its answer or has given up on a request that is stuck for ever.
StartRestore ==
  /\ phase \in {"idle", "answered"} \/ Blocked
  /\ attempts < MaxAttempts /\ attempts' = attempts + 1
  /\ Offered
  /\ gw' = "start" /\ prod' = "none" /\ cons' = "none"
  /\ left' = total' /\ pipe' = 0 /\ got' = 0
  /\ readEnds' = {"gateway"} /\ writeEnds' = {"gateway"}
  /\ phase' = "pipe" /\ status' = 0
  /\ before' = dir /\ touched' = {} /\ dir' = StartDir
  /\ opened' = FALSE /\ faulty' = FALSE /\ todo' = {}
  /\ UNCHANGED <<deaths, owned>>

\* No file of that ID; it may have been deleted since it was listed.
NoBackup ==
  /\ phase \in {"idle", "answered"}
  /\ attempts < MaxAttempts /\ attempts' = attempts + 1
  /\ Answer(404)
  /\ UNCHANGED <<vars, arch, tail, dirVars, todo, before, touched>>

RunPipeline == phase = "pipe" /\ Gateway /\ UNCHANGED restoreVars

PipelineFailed ==
  /\ phase = "pipe" /\ gw = "failed"
  /\ Answer(500)
  /\ UNCHANGED <<vars, arch, tail, dirVars, todo, attempts, before, touched>>

\* chownRecursive takes the names that are there now, and stops at the first
\* it cannot chown: one that is gone, or a link to nothing, which os.Chown
\* follows.
Present == {n \in Names : dir[n] # "none"}

\* Mutant: the walk takes the names of before the extraction.
KnownBefore == {n \in Names : before[n] # "none"}

ToChown == Present

StartChown ==
  /\ phase = "pipe" /\ gw = "done"
  /\ phase' = "chown" /\ todo' = ToChown
  /\ UNCHANGED <<vars, status, arch, tail, dirVars, attempts, before, touched>>

CannotChown(n) == dir[n] = "none" \/ (n \in Links /\ dir[n] # "live")

ChownNext ==
  /\ phase = "chown" /\ todo # {}
  /\ LET n == Min(todo)
     IN  IF CannotChown(n)
         THEN Answer(500) /\ UNCHANGED <<owned, todo>>
         ELSE owned' = owned \cup {n} /\ todo' = todo \ {n} /\ UNCHANGED <<phase, status>>
  /\ UNCHANGED <<vars, arch, tail, dir, opened, faulty, attempts, before, touched>>

Restored ==
  /\ phase = "chown" /\ todo = {}
  /\ Answer(200)
  /\ UNCHANGED <<vars, arch, tail, dirVars, todo, attempts, before, touched>>

-----------------------------------------------------------------------------
\* The children.

\* pzstd -d comes to the end of the file: inside a frame that is an error.
Decompress ==
  /\ \/ Produce
     \/ ProducerDone /\ tail # "cut"
     \/ tail = "cut" /\ prod = "live" /\ left = 0 /\ ExitProducer("failed") /\ UNCHANGED deaths
  /\ UNCHANGED restoreVars

Entry == arch[got + 1]

\* tar unlinks what has the name and creates the file, perhaps before all of
\* its data has come, or ever will.
OpenEntry ==
  /\ cons = "live" /\ prod # "none" /\ ~opened /\ got < Len(arch)
  /\ opened' = TRUE
  /\ IF Entry \in Links
     THEN UNCHANGED <<dir, owned>>
     ELSE dir' = [dir EXCEPT ![Entry] = "part"] /\ owned' = owned \ {Entry}
  /\ UNCHANGED <<vars, phase, status, arch, tail, faulty, todo, attempts, before, touched>>

\* The entry's data.  A file the server has removed or replaced meanwhile
\* stays as it is.
FillEntry ==
  /\ opened /\ opened' = FALSE
  /\ Consume
  /\ dir' = [dir EXCEPT ![Entry] = IF @ = "part" \/ Entry \in Links THEN "new" ELSE @]
  /\ owned' = IF Entry \in Links THEN owned \ {Entry} ELSE owned
  /\ UNCHANGED <<phase, status, arch, tail, faulty, todo, attempts, before, touched>>

\* A write fails: tar says so, goes on with the next entry and exits with an
\* error in the end.  (The budget of failures is CommandPipe's.)
SkipEntry ==
  /\ opened /\ opened' = FALSE
  /\ cons = "live" /\ pipe > 0 /\ pipe' = pipe - 1 /\ got' = got + 1
  /\ Death /\ faulty' = TRUE
  /\ UNCHANGED <<gw, prod, cons, total, left, readEnds, writeEnds>>
  /\ UNCHANGED <<phase, status, arch, tail, dir, owned, todo, attempts, before, touched>>

\* The end of the stream: an end between two entries is as good as the end of
\* the archive.
TarExits ==
  /\ \/ ConsumerDone /\ ~opened /\ ~faulty
     \/ /\ opened \/ faulty
        /\ cons = "live" /\ pipe = 0 /\ writeEnds = {}
        /\ ExitConsumer("failed") /\ UNCHANGED deaths
  /\ UNCHANGED restoreVars

ChildDies == (ProducerFails \/ ConsumerFails) /\ UNCHANGED restoreVars

-----------------------------------------------------------------------------
\* The server runs on, and other requests reach its files.
Change(n, what) ==
  /\ phase \in {"pipe", "chown"} /\ n \notin touched
  /\ Cardinality(touched) < MaxLive
  /\ touched' = touched \cup {n}
  /\ dir' = [dir EXCEPT ![n] = what]
  /\ owned' = owned \ {n}
  /\ UNCHANGED <<vars, phase, status, arch, tail, opened, faulty, todo, attempts, before>>

LiveChange == \E n \in Names : Change(n, "live") \/ Change(n, "none")

Handler == RunPipeline \/ PipelineFailed \/ StartChown \/ ChownNext \/ Restored
Tar     == OpenEntry \/ FillEntry \/ TarExits

RestoreNext ==
  \/ StartRestore \/ NoBackup \/ Handler
  \/ Decompress \/ Tar \/ SkipEntry \/ ChildDies
  \/ LiveChange

allVars == <<vars, restoreVars>>

\* The handler and the children are scheduled; nobody has to restore, to try
\* again or to die.
RestoreSpec ==
  /\ RestoreInit /\ [][RestoreNext]_allVars
  /\ WF_allVars(Handler) /\ WF_allVars(Decompress) /\ WF_allVars(Tar)

-----------------------------------------------------------------------------
InArchive(n) == \E i \in 1..Len(arch) : arch[i] = n

\* "restored" means that every file of a whole archive is there in full, and
\* with everything else belongs to the uid asked for, whatever an earlier
\* restore has left behind; only what the server has changed meanwhile may
\* differ.
RestoredIsWhole ==
  phase = "answered" /\ status = 200 =>
    /\ tail = "whole" => \A n \in Names \ touched : InArchive(n) => dir[n] = "new"
    /\ Present \ touched \subseteq owned

\* A restore that is answered as failed although its pipeline ended well lacks
\* nothing but owners: the files of a whole archive are there in full, and the
\* walk has stopped at a link to nothing or at a file the server has changed,
\* with all before it owned as asked.
FailedIsWhole ==
  phase = "answered" /\ status = 500 /\ gw = "done" =>
    /\ tail = "whole" => \A n \in Names \ touched : InArchive(n) => dir[n] = "new"
    /\ \E n \in Links \cup touched : \A m \in Present \ touched : m < n => m \in owned

\* However far it has come and however it ends, a restore has replaced the
\* archive's entries up to where tar stands, is inside at most one, and has
\* left alone all that follows and all that is not in the archive; an entry it
\* could not write does not go unreported.
ReplacedInOrder ==
  phase # "idle" =>
    /\ \A n \in Names \ touched : ~InArchive(n) => dir[n] = before[n]
    /\ \A i \in 1..Len(arch) :
         arch[i] \notin touched =>
           /\ i <= got    => dir[arch[i]] = "new" \/ faulty
           /\ i = got + 1 => dir[arch[i]] \in {before[arch[i]], "part"}
           /\ i > got + 1 => dir[arch[i]] = before[arch[i]]
    /\ faulty => status # 200

\* Every restore is answered, or stuck on a tar that died with more than a
\* pipe's worth still to come.
AnsweredOrBlocked == phase = "pipe" ~> phase = "answered" \/ Blocked
=============================================================================
