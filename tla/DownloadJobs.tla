---------------------------- MODULE DownloadJobs ----------------------------
(***************************************************************************)
(* Asynchronous downloads into one server's directory (internal/nfs).      *)
(*                                                                         *)
(* StartDownload resolves dest_path, mints an ID, records "running" in a   *)
(* status file of that ID and hands over to runDownload: clean_first       *)
(* empties the destination, the URL is fetched into a temp file within a   *)
(* size limit, and the file is copied, or the archive's entries are        *)
(* extracted, into the destination.  Several downloads, DeleteServer and   *)
(* whoever else writes files (WriteFile, the server itself) work on the    *)
(* same tree with no lock; c.mu orders status writes only.                 *)
(*                                                                         *)
(* The tree is one level deep: the server root and directories in it, all  *)
(* with the same possible file names.  The temp file is the job's own and  *)
(* removed on every return: only whether it holds the whole body is kept.  *)
(***************************************************************************)
EXTENDS Naturals, FiniteSets

CONSTANTS
  Jobs,       \* one element per call of StartDownload
  NoJob,      \* "the mutex is free"
  Root,       \* the server directory itself (dest_path ".")
  SubDirs,    \* directories in it, named without a dot
  Dotted,     \* directories in it whose name ends like a file's ("mods.d")
  Names,      \* file names
  Requests,   \* the calls that are made
  MaxSize,    \* maxDownloadSize, in bytes
  MaxClock,   \* bound: the clock stops at this second
  MaxDeletes, \* bound: calls of DeleteServer
  MaxWrites,  \* bound: files that others put into the tree
  MaxFaults   \* bound: steps that fail and restarts

Paths == {Root} \cup SubDirs \cup Dotted

\* extract = false is kind "file", with one name; an archive has several.
AllRequests ==
  {r \in [path : Paths, kind : {"file", "zip", "tar"},
          mode : {"overwrite", "skip_existing", "clean_first"}, names : SUBSET Names] :
     r.kind = "file" => Cardinality(r.names) = 1}

\* An entry of a directory is a file or a directory, and no job is a contents.
ASSUME RequestsAssumption == Requests \subseteq AllRequests /\ Names \cap Paths = {}
ASSUME BoundsAssumption ==
  /\ NoJob \notin Jobs /\ {"none", "old", "new", "created", "torn"} \cap Jobs = {}
  /\ {MaxSize, MaxClock, MaxDeletes, MaxWrites, MaxFaults} \subseteq Nat

VARIABLES
  clock, deletes, writes, faults,
  dirs,   \* the directories that exist
  file,   \* directory -> name -> what the file holds
  status, \* ID -> dataDir/<server>.download-<ID>.status
  lock,   \* the job that holds c.mu, or NoJob
  pc,     \* where the code of a job stands
  req,    \* the arguments of a job
  id,     \* the ID it minted
  todo,   \* entries still to be removed, later names still to be written
  cur,    \* the name being written, or found missing, a set of at most one
  tmp,    \* the temp file: "none", "whole", or "cut" short of the body
  res     \* the outcome runDownload decided on

fsVars  == <<dirs, file>>
envVars == <<clock, deletes, writes>>
jobVars == <<req, id, todo, cur, tmp, res>>
vars == <<clock, deletes, writes, faults, dirs, file, status, lock, pc, req, id, todo, cur,
          tmp, res>>

-----------------------------------------------------------------------------
\* An ID is the second in which it was minted.
Seconds  == 0..MaxClock

\* "old" is a file of before all downloads, "new" one that somebody else has
\* put there meanwhile, a job's name the whole file of that job.
Contents == {"none", "old", "new", "created", "torn"} \cup Jobs

AbsentFile == [kind |-> "absent", st |-> "none"]
EmptyFile  == [kind |-> "empty", st |-> "none"]
Garbled    == [kind |-> "garbled", st |-> "none"]
StatusFiles == [kind : {"absent", "empty", "garbled", "json"},
                st : {"none", "running", "done", "failed"}]

Writing  == {"writeRun", "writeEnd"}
Working  == {"mkclean", "list", "clean", "mkdir", "temp", "fetch", "place", "create",
             "fill", "chown"}
Accepted == Working \cup {"lockEnd"}
Returned == {"ended", "muted"}
PcStates == {"idle", "lockRun", "rejected", "lost"} \cup Writing \cup Accepted \cup Returned

TypeOK ==
  /\ clock \in Seconds /\ deletes \in 0..MaxDeletes
  /\ writes \in 0..MaxWrites /\ faults \in 0..MaxFaults
  /\ dirs \subseteq Paths
  /\ file \in [Paths -> [Names -> Contents]]
  /\ \A p \in Paths \ dirs, n \in Names : file[p][n] = "none"
  /\ status \in [Seconds -> StatusFiles]
  /\ lock \in Jobs \cup {NoJob}
  /\ pc \in [Jobs -> PcStates]
  /\ req \in [Jobs -> Requests]
  /\ id \in [Jobs -> Seconds]
  /\ todo \in [Jobs -> SUBSET (Names \cup Paths)]
  /\ cur \in [Jobs -> SUBSET Names]
  /\ \A j \in Jobs : \/ pc[j] = "lost"
                     \/ Cardinality(cur[j]) = (IF pc[j] \in {"create", "fill"} THEN 1 ELSE 0)
  /\ tmp \in [Jobs -> {"none", "whole", "cut"}]
  /\ res \in [Jobs -> {"none", "done", "failed"}]

\* The server exists with its directories, and every file in it is old.
Init ==
  /\ clock = 0 /\ deletes = 0 /\ writes = 0 /\ faults = 0
  /\ dirs = Paths
  /\ file \in [Paths -> [Names -> {"none", "old"}]]
  /\ status = [i \in Seconds |-> AbsentFile]
  /\ lock = NoJob
  /\ pc = [j \in Jobs |-> "idle"]
  /\ req \in [Jobs -> Requests]
  /\ id = [j \in Jobs |-> 0]
  /\ todo = [j \in Jobs |-> {}] /\ cur = [j \in Jobs |-> {}]
  /\ tmp = [j \in Jobs |-> "none"]
  /\ res = [j \in Jobs |-> "none"]

Fault == faults < MaxFaults /\ faults' = faults + 1
Goto(j, label) == pc' = [pc EXCEPT ![j] = label]

\* An error in runDownload: decide on "failed" and go and record it.
Fail(j) ==
  /\ res' = [res EXCEPT ![j] = "failed"]
  /\ cur' = [cur EXCEPT ![j] = {}]
  /\ Goto(j, "lockEnd")

-----------------------------------------------------------------------------
\* The rest of the world.
Tick ==
  /\ clock < MaxClock
  /\ clock' = clock + 1
  /\ UNCHANGED <<deletes, writes, faults, fsVars, status, lock, pc, jobVars>>

DeleteServer ==
  /\ Root \in dirs /\ deletes < MaxDeletes
  /\ deletes' = deletes + 1
  /\ dirs' = {}
  /\ file' = [p \in Paths |-> [n \in Names |-> "none"]]
  /\ UNCHANGED <<clock, writes, faults, status, lock, pc, jobVars>>

\* Somebody else makes a file; what becomes of a download's file in the hands
\* of others is not followed.
OthersWrite ==
  /\ writes < MaxWrites
  /\ writes' = writes + 1
  /\ \E p \in dirs, n \in Names :
       file[p][n] = "none" /\ file' = [file EXCEPT ![p] = [@ EXCEPT ![n] = "new"]]
  /\ UNCHANGED <<clock, deletes, faults, dirs, status, lock, pc, jobVars>>

-----------------------------------------------------------------------------
\* StartDownload.  It does not look whether the server exists.

\* A dest_path that looks like a file's stands for its parent directory.
Dest(p) == IF p \in Dotted THEN Root ELSE p
DestOf(j) == Dest(req[j].path)

MintID(j) ==
  /\ pc[j] = "idle"
  /\ id' = [id EXCEPT ![j] = clock]
  /\ Goto(j, "lockRun")
  /\ UNCHANGED <<envVars, faults, fsVars, status, lock, req, todo, cur, tmp, res>>

-----------------------------------------------------------------------------
\* writeDownloadStatus ("writeRun") and writeDownloadStatusDirect ("writeEnd"):
\* under c.mu, os.WriteFile truncates the file, then writes to it.

\* Mutants: no mutex; a mode that is not looked at.
NoMutex        == TRUE
NeverCleans(j) == "mkdir"

StatusKey(j)  == id[j]
CanLock       == lock = NoJob
AfterLock(j)  == IF pc[j] = "lockRun" THEN "writeRun" ELSE "writeEnd"
FirstStep(j)  == IF req[j].mode = "clean_first" THEN "mkclean" ELSE "mkdir"
AfterWrite(j) == IF pc[j] = "writeRun" THEN FirstStep(j) ELSE "ended"
AfterError(j) == IF pc[j] \in {"lockRun", "writeRun"} THEN "rejected" ELSE "muted"
NewStatus(j)  == [kind |-> "json", st |-> IF pc[j] = "writeRun" THEN "running" ELSE res[j]]
Written(j)    == IF status[StatusKey(j)].kind = "empty" THEN NewStatus(j) ELSE Garbled

TruncateStatus(j) ==
  /\ pc[j] \in {"lockRun", "lockEnd"} /\ CanLock
  /\ lock' = j
  /\ status' = [status EXCEPT ![StatusKey(j)] = EmptyFile]
  /\ Goto(j, AfterLock(j))
  /\ UNCHANGED <<envVars, faults, fsVars, jobVars>>

OpenStatusFails(j) ==
  /\ pc[j] \in {"lockRun", "lockEnd"} /\ CanLock
  /\ Fault
  /\ Goto(j, AfterError(j))
  /\ UNCHANGED <<envVars, fsVars, status, lock, jobVars>>

FillStatus(j) ==
  /\ pc[j] \in Writing
  /\ status' = [status EXCEPT ![StatusKey(j)] = Written(j)]
  /\ lock' = NoJob
  /\ Goto(j, AfterWrite(j))
  /\ UNCHANGED <<envVars, faults, fsVars, jobVars>>

\* Mutant: an early return that forgets to unlock.
FillStatusFailsLocked(j) ==
  /\ pc[j] \in Writing
  /\ Fault
  /\ Goto(j, AfterError(j))
  /\ UNCHANGED <<envVars, fsVars, status, lock, jobVars>>

FillStatusFails(j) ==
  /\ pc[j] \in Writing
  /\ Fault
  /\ lock' = NoJob
  /\ Goto(j, AfterError(j))
  /\ UNCHANGED <<envVars, fsVars, status, jobVars>>

-----------------------------------------------------------------------------
\* runDownload, up to the temp file.

\* Mutant: the directory is taken for granted.
DestUnmade(j) == dirs

\* mkdirAllOwned brings the destination and the server root into being.
WithDest(j) == dirs \cup {Root, DestOf(j)}

MakeDest(j) ==
  /\ pc[j] \in {"mkclean", "mkdir"}
  /\ dirs' = WithDest(j)
  /\ Goto(j, IF pc[j] = "mkclean" THEN "list" ELSE "temp")
  /\ UNCHANGED <<envVars, faults, file, status, lock, jobVars>>

\* Mutant: the server root is cleaned, wherever dest_path is.
CleanServer(j) == Root

CleanDir(j) == DestOf(j)

\* clean_first: os.ReadDir, then os.RemoveAll of every entry that was read.
Entries(d) == {n \in Names : file[d][n] # "none"} \cup
              (IF d = Root THEN dirs \ {Root} ELSE {})

ListDest(j) ==
  /\ pc[j] = "list"
  /\ IF CleanDir(j) \in dirs
     THEN /\ todo' = [todo EXCEPT ![j] = Entries(CleanDir(j))]
          /\ Goto(j, "clean")
          /\ UNCHANGED <<cur, res>>
     ELSE Fail(j) /\ UNCHANGED todo
  /\ UNCHANGED <<envVars, faults, fsVars, status, lock, req, id, tmp>>

RemoveEntry(j) ==
  /\ pc[j] = "clean"
  /\ \E e \in todo[j] :
       /\ todo' = [todo EXCEPT ![j] = @ \ {e}]
       /\ \/ /\ e \in Names
             /\ file' = [file EXCEPT ![CleanDir(j)] = [@ EXCEPT ![e] = "none"]]
             /\ UNCHANGED dirs
          \/ /\ e \in Paths
             /\ file' = [file EXCEPT ![e] = [n \in Names |-> "none"]]
             /\ dirs' = dirs \ {e}
  /\ UNCHANGED <<envVars, faults, status, lock, pc, req, id, cur, tmp, res>>

CleanDone(j) ==
  /\ pc[j] = "clean" /\ todo[j] = {}
  /\ Goto(j, "mkdir")
  /\ UNCHANGED <<envVars, faults, fsVars, status, lock, jobVars>>

CreateTemp(j) ==
  /\ pc[j] = "temp"
  /\ Goto(j, "fetch")
  /\ UNCHANGED <<envVars, faults, fsVars, status, lock, jobVars>>

\* Mutant: the limited reader stops at the maximum itself.
ReadAtMostMax == MaxSize

\* downloadFile reads one byte more than is allowed, to tell a body as large
\* as allowed from one that is too large.
ReadLimit == MaxSize + 1
Received(size) == IF size < ReadLimit THEN size ELSE ReadLimit

Fetch(j) ==
  /\ pc[j] = "fetch"
  /\ \E size \in {MaxSize, MaxSize + 1} :
       IF Received(size) > MaxSize
       THEN Fail(j) /\ UNCHANGED <<todo, tmp>>
       ELSE /\ tmp' = [tmp EXCEPT ![j] = IF Received(size) = size THEN "whole" ELSE "cut"]
            /\ todo' = [todo EXCEPT ![j] = req[j].names]
            /\ Goto(j, "place")
            /\ UNCHANGED <<cur, res>>
  /\ UNCHANGED <<envVars, faults, fsVars, status, lock, req, id>>

\* The host answers with an error, breaks off, or is cut off by downloadTimeout.
FetchFails(j) ==
  /\ pc[j] = "fetch"
  /\ Fail(j)
  /\ UNCHANGED <<envVars, faults, fsVars, status, lock, req, id, todo, tmp>>

-----------------------------------------------------------------------------
\* moveFile and the extractors: look at a name, create the file, fill it.

\* Mutant: moveFile is not given the mode either.
OnlyZipSkips(j, n) == /\ req[j].mode = "skip_existing" /\ req[j].kind = "zip"
                      /\ file[DestOf(j)][n] # "none"

\* Only moveFile and extractZip are given the mode.
Skips(j, n) == /\ req[j].mode = "skip_existing" /\ req[j].kind # "tar"
               /\ file[DestOf(j)][n] # "none"

SkipName(j) ==
  /\ pc[j] = "place"
  /\ \E n \in todo[j] : Skips(j, n) /\ todo' = [todo EXCEPT ![j] = @ \ {n}]
  /\ UNCHANGED <<envVars, faults, fsVars, status, lock, pc, req, id, cur, tmp, res>>

TakeName(j) ==
  /\ pc[j] = "place"
  /\ \E n \in todo[j] : /\ ~Skips(j, n)
                        /\ cur' = [cur EXCEPT ![j] = {n}]
                        /\ todo' = [todo EXCEPT ![j] = @ \ {n}]
  /\ Goto(j, "create")
  /\ UNCHANGED <<envVars, faults, fsVars, status, lock, req, id, tmp, res>>

\* os.Create truncates what came there since the look.  Extractors make the
\* parent directory again; moveFile needs it to be there.
CreateFile(j) ==
  /\ pc[j] = "create"
  /\ req[j].kind # "file" \/ DestOf(j) \in dirs
  /\ \E n \in cur[j] : file' = [file EXCEPT ![DestOf(j)] = [@ EXCEPT ![n] = "created"]]
  /\ dirs' = WithDest(j)
  /\ Goto(j, "fill")
  /\ UNCHANGED <<envVars, faults, status, lock, jobVars>>

\* moveFile finds its destination gone.
CreateRefused(j) ==
  /\ pc[j] = "create" /\ req[j].kind = "file" /\ DestOf(j) \notin dirs
  /\ Fail(j)
  /\ UNCHANGED <<envVars, faults, fsVars, status, lock, req, id, todo, tmp>>

SameTarget(j, k) == pc[k] = "fill" /\ DestOf(k) = DestOf(j) /\ cur[k] = cur[j]

\* What a name may hold once j's copy has gone through the file it opened: what
\* it held if that file was unlinked since; j's bytes if the file is as j created it and no
\* other job has it open; else a mixture, or whatever replaced the file.
AfterCopy(j, n) ==
  LET x == file[DestOf(j)][n]
      mine == IF tmp[j] = "whole" THEN j ELSE "torn"
  IN  CASE x \in {"none", "old", "new"} -> {x}
        [] x = "created" /\ \A k \in Jobs \ {j} : ~SameTarget(j, k) -> {mine}
        [] OTHER -> {x, mine, "torn"}

FillFile(j) ==
  /\ pc[j] = "fill"
  /\ \E n \in cur[j], x \in Contents :
       /\ x \in AfterCopy(j, n)
       /\ file' = [file EXCEPT ![DestOf(j)] = [@ EXCEPT ![n] = x]]
  /\ cur' = [cur EXCEPT ![j] = {}]
  /\ Goto(j, "place")
  /\ UNCHANGED <<envVars, faults, dirs, status, lock, req, id, todo, tmp, res>>

\* A tar.gz that the limit cuts between two entries ends like a whole one.
PlacedAll(j) ==
  /\ pc[j] = "place"
  /\ todo[j] = {} \/ req[j].kind = "tar"
  /\ Goto(j, "chown")
  /\ UNCHANGED <<envVars, faults, fsVars, status, lock, jobVars>>

\* chownRecursive(dest) fails when the destination is gone.
ChownAll(j) ==
  /\ pc[j] = "chown"
  /\ res' = [res EXCEPT ![j] = IF DestOf(j) \in dirs THEN "done" ELSE "failed"]
  /\ Goto(j, "lockEnd")
  /\ UNCHANGED <<envVars, faults, fsVars, status, lock, req, id, todo, cur, tmp>>

\* Any other error of any step: a system call, a broken archive, an entry that
\* leaves the destination, an archive that is too large.  A file that was
\* being filled stays as it is, without its contents.
StepFails(j) ==
  /\ pc[j] \in Working
  /\ Fault
  /\ Fail(j)
  /\ UNCHANGED <<envVars, fsVars, status, lock, req, id, todo, tmp>>

-----------------------------------------------------------------------------
\* The gateway stops and is started again: no goroutine is resumed.
Restart ==
  /\ Fault
  /\ pc' = [j \in Jobs |-> IF pc[j] \in {"idle", "rejected"} \cup Returned
                           THEN pc[j] ELSE "lost"]
  /\ lock' = NoJob
  /\ UNCHANGED <<envVars, fsVars, status, jobVars>>

WriteStatus(j) == TruncateStatus(j) \/ FillStatus(j)
WriteFails(j)  == OpenStatusFails(j) \/ FillStatusFails(j)
Clean(j)       == ListDest(j) \/ RemoveEntry(j) \/ CleanDone(j)
Get(j)         == MakeDest(j) \/ CreateTemp(j) \/ Fetch(j) \/ FetchFails(j)
Place(j)       == SkipName(j) \/ TakeName(j) \/ CreateFile(j) \/ CreateRefused(j) \/ FillFile(j)
RunDownload(j) == Clean(j) \/ Get(j) \/ Place(j) \/ PlacedAll(j) \/ ChownAll(j)

Next ==
  \/ Tick \/ DeleteServer \/ OthersWrite \/ Restart
  \/ \E j \in Jobs : \/ MintID(j) \/ WriteStatus(j) \/ WriteFails(j)
                     \/ RunDownload(j) \/ StepFails(j)

Spec == Init /\ [][Next]_vars

\* The goroutines are scheduled, and no step of one waits for ever: the fetch
\* has a deadline (FetchFails), everything else is local file I/O.
Fairness == \A j \in Jobs : WF_vars(WriteStatus(j)) /\ WF_vars(RunDownload(j))

FairSpec == Spec /\ Fairness

-----------------------------------------------------------------------------
Places(k, p, n) == Dest(req[k].path) = p /\ n \in req[k].names
Alone(j, n) == \A k \in Jobs \ {j} : ~Places(k, DestOf(j), n)

\* What a download may touch: its destination and, when it cleans the server
\* root, all there is.
InReach(j, p) == DestOf(j) = p \/ (DestOf(j) = Root /\ req[j].mode = "clean_first")

\* Safety.

\* Where nobody else deletes or cleans, "done" means that every name of the
\* download is there, from whomever, but for the entries behind the cut of a
\* tar archive; and one that no other download writes is whole: its own, or the
\* one that was to be skipped.
Undisturbed(j) ==
  deletes = 0 /\ \A k \in Jobs \ {j} : req[k].mode = "clean_first" => ~InReach(k, DestOf(j))

IsThere(j, n) ==
  LET x == file[DestOf(j)][n]
  IN  /\ x # "none"
      /\ Alone(j, n) => x \in {j} \cup (IF req[j].mode = "skip_existing"
                                        THEN {"old", "new"} ELSE {})

DoneIsThere ==
  \A j \in Jobs : res[j] = "done" /\ Undisturbed(j) =>
    \A n \in req[j].names : IsThere(j, n) \/ (req[j].kind = "tar" /\ n \in todo[j])

\* clean_first leaves nothing of before, whatever works beside it: once it is
\* "done", what the destination holds was brought by it or another download or
\* was put there by others meanwhile.
DoneIsClean ==
  \A j \in Jobs : res[j] = "done" /\ req[j].mode = "clean_first" =>
    \A n \in Names : LET x == file[DestOf(j)][n]
                     IN  /\ x # "old"
                         /\ x \notin {"none", "new"} => \E k \in Jobs : Places(k, DestOf(j), n)

\* Action properties.

\* A file that no download has made is lost to a download only if that cleans
\* the directory, overwrites, or unpacks a tar archive, where skip_existing is
\* not passed on: one that skips what exists never takes a file of before, and
\* a new one only if it came between its look at the name and its create.
Takes(j, p, n) ==
  \/ InReach(j, p) /\ req[j].mode = "clean_first"
  \/ Places(j, p, n) /\ (req[j].mode = "overwrite" \/ req[j].kind = "tar")
  \/ Places(j, p, n) /\ pc[j] = "create" /\ file[p][n] = "new"

SkipKeepsOld ==
  [][deletes' = deletes =>
       \A p \in Paths, n \in Names :
         file[p][n] \in {"old", "new"} /\ file'[p][n] # file[p][n] =>
           \E j \in Jobs : pc[j] \in Working /\ Takes(j, p, n)]_vars

\* A download touches no file outside the directory dest_path was resolved to,
\* unless it cleans the server root.
OnlyInDest ==
  [][UNCHANGED envVars =>
       \A p \in Paths, n \in Names : file'[p][n] # file[p][n] =>
         \E j \in Jobs : pc[j] \in Working /\ InReach(j, p)]_vars

\* Liveness.  Every accepted download ends: unlike a backup's, none of its steps
\* can hang.
EveryDownloadEnds ==
  \A j \in Jobs : pc[j] \in Accepted ~> pc[j] \in Returned \cup {"lost"}

-----------------------------------------------------------------------------
\* The promise to callers (JobBoard): a slot per ID.
Phase(j) ==
  CASE pc[j] \in {"idle", "lockRun", "writeRun"} -> "new"
    [] pc[j] = "rejected" -> "turned away"
    [] pc[j] \in Accepted \cup {"writeEnd"} -> "accepted"
    [] pc[j] \in {"muted", "lost"} -> "silent"
    [] pc[j] = "ended" -> res[j]

Hung(i) ==
  CASE status[i].kind = "json" -> {[id |-> i, st |-> status[i].st]}
    [] status[i].kind \in {"absent", "empty"} -> {}
    [] status[i].kind = "garbled" -> {[id |-> i, st |-> "garbled"]}

Ticket(j) == IF pc[j] \in Accepted \cup {"writeEnd", "ended"}
             THEN {[slot |-> id[j], id |-> id[j]]} ELSE {}

Promise == INSTANCE JobBoard
  WITH Slots  <- Seconds,
       Ids    <- Seconds,
       phase  <- [j \in Jobs |-> Phase(j)],
       ticket <- [j \in Jobs |-> Ticket(j)],
       board  <- [i \in Seconds |-> Hung(i)]

\* Downloads keep the promise backups keep: a "running" record appears in the
\* step that accepts the call, a terminal one in the step that ends its job.
KeepsPromise == Promise!Spec
=============================================================================
