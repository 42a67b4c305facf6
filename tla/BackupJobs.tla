----------------------------- MODULE BackupJobs -----------------------------
(***************************************************************************)
(* Asynchronous backups of the gateway's NFS client (internal/nfs).        *)
(*                                                                         *)
(* A request runs StartBackup: it looks the server directory up, makes the *)
(* backups directory, mints an ID from the clock (one ID per second),      *)
(* records "running" in the server's single status file and hands over to  *)
(* a goroutine.  The goroutine (runBackup) pipes tar into pzstd, collects  *)
(* both and records "done" or "failed" in the same file.  Requests, jobs,  *)
(* child processes, DeleteServer/Migrate/CreateServer and a crash of the   *)
(* gateway interleave freely; only the mutex c.mu orders status writes.    *)
(*                                                                         *)
(* Directories are modelled as inodes: at[s] is the directory the name s   *)
(* resolves to, and a process that has opened a file keeps its directory   *)
(* when the name is renamed.  A delete request unlinks archives one by one *)
(* while a pzstd may still be writing them: its output then has no name.   *)
(*                                                                         *)
(* Assumed of pzstd, which is not part of the gateway: without -f it looks *)
(* for its output and creates it in one step (CanCreate).                  *)
(***************************************************************************)
EXTENDS Naturals

CONSTANTS
  Servers,    \* server names (flat ones: top level directories of basePath)
  Jobs,       \* one element per call of StartBackup
  NoJob,      \* "the mutex is free"
  BigTrees,   \* the jobs whose tar stream is larger than a pipe buffer
  MaxClock,   \* bound: the clock stops at this second
  MaxDirs,    \* bound: how many server directories are ever created
  MaxFaults   \* bound: failed system calls, dying pzstds and crashes

ASSUME JobsAssumption == NoJob \notin Jobs /\ BigTrees \subseteq Jobs
ASSUME BoundsAssumption ==
  MaxClock \in Nat /\ MaxDirs \in Nat /\ MaxFaults \in Nat

VARIABLES
  clock,   \* the second time.Now() formats into an ID
  at,      \* server name -> the directory it resolves to, or NoDir
  made,    \* how many directories were created so far
  bdir,    \* the directories that have a backups/ subdirectory
  arch,    \* directory -> ID -> the archive backups/<ID>.tar.zst in it
  status,  \* server name -> contents of dataDir/<server>.backup-status
  lock,    \* the job that holds c.mu, or NoJob
  pc,      \* where the code of a job stands
  srv,     \* serverName of a job
  id,      \* id of a job
  dir,     \* the directory with the output of the job's pzstd, NoDir once unlinked
  tar,     \* the job's tar process
  pz,      \* the job's pzstd process
  res,     \* the outcome runBackup decided on
  faults   \* failures injected so far

fsVars  == <<at, made, bdir, arch>>
jobVars == <<pc, srv, id, dir, tar, pz, res>>
vars    == <<clock, at, made, bdir, arch, status, lock, pc, srv, id, dir, tar,
             pz, res, faults>>

-----------------------------------------------------------------------------
Seconds == 0..MaxClock
Dirs    == 1..MaxDirs
NoDir   == 0

\* "partial" is being written or was abandoned by a pzstd that died;
\* "truncated" is a valid zstd file of a tar stream that broke off.
ArchiveStates == {"none", "partial", "truncated", "complete"}
Outcomes      == {"none", "done", "failed"}
ProcStates    == {"none", "starting", "live", "ok", "failed"}

AbsentFile     == [kind |-> "absent", id |-> 0, st |-> "none"]
EmptyFile      == [kind |-> "empty", id |-> 0, st |-> "none"]
GarbledFile    == [kind |-> "garbled", id |-> 0, st |-> "none"]
JsonFile(i, x) == [kind |-> "json", id |-> i, st |-> x]

StatusFiles == [kind : {"absent", "empty", "garbled", "json"}, id : Seconds,
                st : {"none", "running", "done", "failed"}]

Writing   == {"writeRun", "writeEnd"}             \* c.mu held
Accepted  == {"spawn", "tar", "wait", "lockEnd"}  \* the caller has its ID
Finished  == {"ended", "muted", "lost"}
PcStates  == {"idle", "mkdir", "mint", "lockRun", "refused", "rejected"}
               \cup Writing \cup Accepted \cup Finished

\* An ID is never of a second that is still to come.
TypeOK ==
  /\ clock \in Seconds
  /\ at \in [Servers -> Dirs \cup {NoDir}]
  /\ made \in 0..MaxDirs
  /\ bdir \subseteq Dirs
  /\ arch \in [Dirs -> [Seconds -> ArchiveStates]]
  /\ status \in [Servers -> StatusFiles]
  /\ lock \in Jobs \cup {NoJob}
  /\ pc \in [Jobs -> PcStates]
  /\ srv \in [Jobs -> Servers]
  /\ id \in [Jobs -> Seconds] /\ \A j \in Jobs : id[j] <= clock
  /\ dir \in [Jobs -> Dirs \cup {NoDir}]
  /\ tar \in [Jobs -> ProcStates]
  /\ pz \in [Jobs -> ProcStates]
  /\ res \in [Jobs -> Outcomes]
  /\ faults \in 0..MaxFaults

Init ==
  /\ clock = 0
  /\ at = [s \in Servers |-> NoDir]
  /\ made = 0
  /\ bdir = {}
  /\ arch = [d \in Dirs |-> [i \in Seconds |-> "none"]]
  /\ status = [s \in Servers |-> AbsentFile]
  /\ lock = NoJob
  /\ pc = [j \in Jobs |-> "idle"]
  /\ srv \in [Jobs -> Servers]
  /\ id = [j \in Jobs |-> 0]
  /\ dir = [j \in Jobs |-> NoDir]
  /\ tar = [j \in Jobs |-> "none"]
  /\ pz = [j \in Jobs |-> "none"]
  /\ res = [j \in Jobs |-> "none"]
  /\ faults = 0

\* One failing system call, one dying process or one crash.
Fault == faults < MaxFaults /\ faults' = faults + 1

-----------------------------------------------------------------------------
\* The server directories.  A name gets a fresh directory.
NewDirAt(s) ==
  /\ at[s] = NoDir
  /\ made < MaxDirs
  /\ made' = made + 1
  /\ at' = [at EXCEPT ![s] = made + 1]

\* MkdirAll(<server>/backups).
MakeBackups(s) ==
  \/ at[s] # NoDir /\ bdir' = bdir \cup {at[s]} /\ UNCHANGED <<at, made>>
  \/ NewDirAt(s) /\ bdir' = bdir \cup {made + 1}

\* CreateServer makes the server directory, and backups/ in a second step, in
\* which it makes again what was deleted in between.
CreateServer(s) ==
  /\ \/ NewDirAt(s) /\ UNCHANGED bdir
     \/ at[s] \notin bdir /\ MakeBackups(s)
  /\ UNCHANGED <<clock, arch, status, lock, jobVars, faults>>

\* The steps of DeleteServer's os.RemoveAll, of however many calls: it works on
\* open directories, so that a directory is emptied under the name Migrate gave
\* it meanwhile, and it ends with an error when it finds an entry made behind
\* it.  Whoever writes the file goes on writing it, without a name.
Unlink(d, i) ==
  /\ arch' = [arch EXCEPT ![d] = [@ EXCEPT ![i] = "none"]]
  /\ dir' = [j \in Jobs |-> IF dir[j] = d /\ id[j] = i THEN NoDir ELSE dir[j]]

\* Also the delete of one archive by its path.
UnlinkArchive(d, i) ==
  /\ arch[d][i] # "none"
  /\ Unlink(d, i)
  /\ UNCHANGED <<clock, at, made, bdir, status, lock, pc, srv, id, tar, pz, res, faults>>

RemoveBackups(d) ==
  /\ d \in bdir
  /\ \A i \in Seconds : arch[d][i] = "none"
  /\ bdir' = bdir \ {d}
  /\ UNCHANGED <<clock, at, made, arch, status, lock, jobVars, faults>>

\* The status files in dataDir are left behind.
RemoveServerDir(s) ==
  /\ at[s] # NoDir
  /\ at[s] \notin bdir
  /\ at' = [at EXCEPT ![s] = NoDir]
  /\ UNCHANGED <<clock, made, bdir, arch, status, lock, jobVars, faults>>

\* Migrate, with its two os.Stat guards; the status file keeps the old name.
Migrate(old, new) ==
  /\ at[old] # NoDir
  /\ at[new] = NoDir
  /\ at' = [at EXCEPT ![old] = NoDir, ![new] = at[old]]
  /\ UNCHANGED <<clock, made, bdir, arch, status, lock, jobVars, faults>>

Tick ==
  /\ clock < MaxClock
  /\ clock' = clock + 1
  /\ UNCHANGED <<fsVars, status, lock, jobVars, faults>>

-----------------------------------------------------------------------------
\* StartBackup, step by step.
Goto(j, label) == pc' = [pc EXCEPT ![j] = label]

StatServerDir(j) ==
  /\ pc[j] = "idle"
  /\ Goto(j, IF at[srv[j]] = NoDir THEN "refused" ELSE "mkdir")
  /\ UNCHANGED <<clock, fsVars, status, lock, srv, id, dir, tar, pz, res, faults>>

\* mkdirAllOwned(<server>/backups): when the server directory went away after
\* the os.Stat it is created again.
MakeBackupDir(j) ==
  /\ pc[j] = "mkdir"
  /\ \/ /\ MakeBackups(srv[j])
        /\ Goto(j, "mint")
        /\ UNCHANGED faults
     \/ /\ Fault
        /\ Goto(j, "refused")
        /\ UNCHANGED <<at, made, bdir>>
  /\ UNCHANGED <<clock, arch, status, lock, srv, id, dir, tar, pz, res>>

\* Mutant: the time is rounded to the nearest second.
MintRounded(j) ==
  /\ pc[j] = "mint"
  /\ \E i \in {clock, clock + 1} : id' = [id EXCEPT ![j] = i]
  /\ Goto(j, "lockRun")
  /\ UNCHANGED <<clock, fsVars, status, lock, srv, dir, tar, pz, res, faults>>

MintID(j) ==
  /\ pc[j] = "mint"
  /\ id' = [id EXCEPT ![j] = clock]
  /\ Goto(j, "lockRun")
  /\ UNCHANGED <<clock, fsVars, status, lock, srv, dir, tar, pz, res, faults>>

-----------------------------------------------------------------------------
\* writeBackupStatus (from StartBackup) and writeBackupStatusDirect (from
\* runBackup): under c.mu, os.WriteFile truncates the file and then writes it.
\* A failed write is an error to StartBackup's caller but is only logged at the
\* end of a job, which is then "muted".
\* Mutants: the final record hard-codes "done"; the mutex is not taken.
DoneStatus(j)  == JsonFile(id[j], IF pc[j] = "writeRun" THEN "running" ELSE "done")
NoMutex == TRUE

CanLock        == lock = NoJob
AfterWrite(j)  == IF pc[j] \in {"lockRun", "writeRun"} THEN "spawn" ELSE "ended"
AfterError(j)  == IF pc[j] \in {"lockRun", "writeRun"} THEN "rejected" ELSE "muted"
NewStatus(j)   == JsonFile(id[j], IF pc[j] = "writeRun" THEN "running" ELSE res[j])

\* The write lands on what the file holds: on an empty file it is the record,
\* on another writer's bytes it is an overlay of both.
Written(j) == IF status[srv[j]].kind = "empty" THEN NewStatus(j) ELSE GarbledFile

TruncateStatus(j) ==
  /\ pc[j] \in {"lockRun", "lockEnd"}
  /\ CanLock
  /\ lock' = j
  /\ status' = [status EXCEPT ![srv[j]] = EmptyFile]
  /\ Goto(j, IF pc[j] = "lockRun" THEN "writeRun" ELSE "writeEnd")
  /\ UNCHANGED <<clock, fsVars, srv, id, dir, tar, pz, res, faults>>

\* os.MkdirAll(dataDir) or opening the file fails: the file is as it was.
OpenStatusFails(j) ==
  /\ pc[j] \in {"lockRun", "lockEnd"}
  /\ CanLock
  /\ Fault
  /\ Goto(j, AfterError(j))
  /\ UNCHANGED <<clock, fsVars, status, lock, srv, id, dir, tar, pz, res>>

FillStatus(j) ==
  /\ pc[j] \in Writing
  /\ status' = [status EXCEPT ![srv[j]] = Written(j)]
  /\ lock' = NoJob
  /\ Goto(j, AfterWrite(j))
  /\ UNCHANGED <<clock, fsVars, srv, id, dir, tar, pz, res, faults>>

\* Mutant: the error path returns without unlocking.
FillStatusFailsLocked(j) ==
  /\ pc[j] \in Writing
  /\ Fault
  /\ Goto(j, AfterError(j))
  /\ UNCHANGED <<clock, fsVars, status, lock, srv, id, dir, tar, pz, res>>

\* The write fails (disk full): the truncated file stays.
FillStatusFails(j) ==
  /\ pc[j] \in Writing
  /\ Fault
  /\ lock' = NoJob
  /\ Goto(j, AfterError(j))
  /\ UNCHANGED <<clock, fsVars, status, srv, id, dir, tar, pz, res>>

-----------------------------------------------------------------------------
\* runBackup, in the goroutine.

\* Mutant: the error path returns without writing a status.
SpawnErrorUnreported(j) ==
  /\ Fault
  /\ res' = [res EXCEPT ![j] = "failed"]
  /\ Goto(j, "ended")
  /\ UNCHANGED <<fsVars, pz>>

SpawnOK(j) ==
  /\ pz' = [pz EXCEPT ![j] = "starting"]
  /\ Goto(j, "tar")
  /\ UNCHANGED <<fsVars, res, faults>>

\* StdoutPipe or pzstdCmd.Start fails.
SpawnError(j) ==
  /\ Fault
  /\ res' = [res EXCEPT ![j] = "failed"]
  /\ Goto(j, "lockEnd")
  /\ UNCHANGED <<fsVars, pz>>

SpawnPzstd(j) ==
  /\ pc[j] = "spawn"
  /\ SpawnOK(j) \/ SpawnError(j)
  /\ UNCHANGED <<clock, status, lock, srv, id, dir, tar>>

\* tarCmd.Run: tar cannot enter a directory that is gone.
SpawnTar(j) ==
  /\ pc[j] = "tar"
  /\ tar' = [tar EXCEPT ![j] = IF at[srv[j]] = NoDir THEN "failed" ELSE "live"]
  /\ Goto(j, "wait")
  /\ UNCHANGED <<clock, fsVars, status, lock, srv, id, dir, pz, res, faults>>

\* Mutant: tar's exit status is dropped.
OutcomeOfPzstd(j) == IF pz[j] = "ok" THEN "done" ELSE "failed"

OutcomeOf(j) == IF tar[j] = "ok" /\ pz[j] = "ok" THEN "done" ELSE "failed"

\* Mutant: the file of a failed backup is cleaned up, by its path.
CollectAndCleanUp(j) ==
  /\ pc[j] = "wait"
  /\ tar[j] \in {"ok", "failed"}
  /\ pz[j] \in {"ok", "failed"}
  /\ res' = [res EXCEPT ![j] = OutcomeOf(j)]
  /\ Goto(j, "lockEnd")
  /\ IF OutcomeOf(j) = "failed" /\ at[srv[j]] # NoDir
     THEN Unlink(at[srv[j]], id[j]) ELSE UNCHANGED <<arch, dir>>
  /\ UNCHANGED <<clock, at, made, bdir, status, lock, srv, id, tar, pz, faults>>

\* tarCmd.Run returned and pzstdCmd.Wait returned, in that order.
CollectPipeline(j) ==
  /\ pc[j] = "wait"
  /\ tar[j] \in {"ok", "failed"}
  /\ pz[j] \in {"ok", "failed"}
  /\ res' = [res EXCEPT ![j] = OutcomeOf(j)]
  /\ Goto(j, "lockEnd")
  /\ UNCHANGED <<clock, fsVars, status, lock, srv, id, dir, tar, pz, faults>>

-----------------------------------------------------------------------------
\* The child processes (external programs, as runBackup invokes them).
SetArchive(d, i, x) == arch' = [arch EXCEPT ![d] = [@ EXCEPT ![i] = x]]

\* What becomes of the output of job j, wherever it has a name.
SetOutput(j, x) == IF dir[j] = NoDir THEN UNCHANGED arch ELSE SetArchive(dir[j], id[j], x)

\* "pzstd -o <file>" resolves the path when it starts; without -f it does not
\* overwrite an existing file.
\* Mutant: pzstd is run with -f.
CanOverwrite(d, i) == d \in bdir

CanCreate(d, i) == d \in bdir /\ arch[d][i] = "none"

PzstdOpens(j) ==
  /\ pz[j] = "starting"
  /\ LET d == at[srv[j]]
     IN \/ /\ CanCreate(d, id[j])
           /\ SetArchive(d, id[j], "partial")
           /\ dir' = [dir EXCEPT ![j] = d]
           /\ pz' = [pz EXCEPT ![j] = "live"]
        \/ /\ ~CanCreate(d, id[j])
           /\ pz' = [pz EXCEPT ![j] = "failed"]
           /\ UNCHANGED <<arch, dir>>
  /\ UNCHANGED <<clock, at, made, bdir, status, lock, pc, srv, id, tar, res, faults>>

\* pzstd dies with its output open (disk full, killed).
PzstdDies(j) ==
  /\ pz[j] = "live"
  /\ Fault
  /\ pz' = [pz EXCEPT ![j] = "failed"]
  /\ \/ UNCHANGED <<arch, dir>>
     \/ dir[j] # NoDir /\ Unlink(dir[j], id[j])
  /\ UNCHANGED <<clock, at, made, bdir, status, lock, pc, srv, id, tar, res>>

\* The end of tar's stream: tar exited, or the gateway died before starting it.
EndOfStream(j) == tar[j] \in {"ok", "failed"} \/ (tar[j] = "none" /\ pc[j] = "lost")

PzstdFinishes(j) ==
  /\ pz[j] = "live"
  /\ EndOfStream(j)
  /\ pz' = [pz EXCEPT ![j] = "ok"]
  /\ SetOutput(j, IF tar[j] = "ok" THEN "complete" ELSE "truncated")
  /\ UNCHANGED <<clock, at, made, bdir, status, lock, pc, srv, id, dir, tar, res, faults>>

\* A stream larger than the pipe needs a reader.  The gateway itself keeps the
\* read end of the pipe open until tar exits, so a dead pzstd does not break
\* the pipe: tar blocks.
CanDrain(j) == j \notin BigTrees \/ pz[j] = "live" \/ pc[j] = "lost"

TarFinishes(j) ==
  /\ tar[j] = "live"
  /\ CanDrain(j)
  /\ \E x \in {"ok", "failed"} : tar' = [tar EXCEPT ![j] = x]
  /\ UNCHANGED <<clock, fsVars, status, lock, pc, srv, id, dir, pz, res, faults>>

\* tar hits a fatal error before it has filled the pipe.
TarDiesEarly(j) ==
  /\ tar[j] = "live"
  /\ Fault
  /\ tar' = [tar EXCEPT ![j] = "failed"]
  /\ UNCHANGED <<clock, fsVars, status, lock, pc, srv, id, dir, pz, res>>

-----------------------------------------------------------------------------
\* The gateway process stops (crash, or main returning: Shutdown waits for
\* handlers but for no backup goroutine) and is started again.  Nothing is
\* recovered from dataDir.  Child processes may run on.
Restart ==
  /\ Fault
  /\ pc' = [j \in Jobs |-> IF pc[j] \in {"idle", "refused", "rejected"} \cup Finished
                           THEN pc[j] ELSE "lost"]
  /\ lock' = NoJob
  /\ UNCHANGED <<clock, fsVars, status, srv, id, dir, tar, pz, res>>

StartBackup(j) == StatServerDir(j) \/ MakeBackupDir(j) \/ MintID(j)
WriteStatus(j) == TruncateStatus(j) \/ FillStatus(j)
WriteFails(j)  == OpenStatusFails(j) \/ FillStatusFails(j)
RunBackup(j)   == SpawnPzstd(j) \/ SpawnTar(j) \/ CollectPipeline(j)
Children(j)    == PzstdOpens(j) \/ PzstdFinishes(j) \/ TarFinishes(j)
ChildDies(j)   == PzstdDies(j) \/ TarDiesEarly(j)

Next ==
  \/ \E s \in Servers : CreateServer(s) \/ RemoveServerDir(s)
  \/ \E d \in Dirs : RemoveBackups(d) \/ (\E i \in Seconds : UnlinkArchive(d, i))
  \/ \E s, t \in Servers : Migrate(s, t)
  \/ Tick
  \/ \E j \in Jobs : \/ StartBackup(j)
                     \/ WriteStatus(j)
                     \/ WriteFails(j)
                     \/ RunBackup(j)
                     \/ Children(j)
                     \/ ChildDies(j)
  \/ Restart

Spec == Init /\ [][Next]_vars

\* Goroutines and child processes are scheduled; nothing makes a client call,
\* a disk fail or a process die.  Each job takes c.mu at most twice, so weak
\* fairness of the whole job is enough for its lock to be granted.
Fairness ==
  \A j \in Jobs : /\ WF_vars(WriteStatus(j))
                  /\ WF_vars(RunBackup(j))
                  /\ WF_vars(PzstdOpens(j))
                  /\ WF_vars(PzstdFinishes(j))
                  /\ WF_vars(TarFinishes(j))

FairSpec == Spec /\ Fairness

-----------------------------------------------------------------------------
\* What the read handlers answer.

\* GetBackupStatus: reads without c.mu; an empty file does not parse (500), a
\* record of another ID is "not found" (404).
GetBackupStatus(s, i) ==
  CASE status[s].kind = "absent" -> "not found"
    [] status[s].kind \in {"empty", "garbled"} -> "unreadable"
    [] status[s].kind = "json" ->
         IF status[s].id = i THEN status[s].st ELSE "not found"

-----------------------------------------------------------------------------
\* Safety.

\* A status that says "done" was true when it was written, and stays true unless
\* the archive is deleted: a job with that server and ID had both tar and pzstd
\* succeed, and its archive is complete -- no later job, whatever its timing,
\* has damaged it since -- or a delete request took it, which the status file
\* does not follow.
DoneHasArchive ==
  \A s \in Servers, i \in Seconds :
    GetBackupStatus(s, i) = "done" =>
      \E j \in Jobs : /\ srv[j] = s /\ id[j] = i
                      /\ tar[j] = "ok" /\ pz[j] = "ok"
                      /\ dir[j] # NoDir => arch[dir[j]][i] = "complete"

\* Two pzstd processes never write the same archive file, also when two
\* backups are started within one second and share their ID and path, or a
\* directory changes its name under a running backup.
OneWriterPerArchive ==
  \A j, k \in Jobs :
    j # k /\ pz[j] = "live" /\ pz[k] = "live" /\ dir[j] # NoDir =>
      <<dir[j], id[j]>> # <<dir[k], id[k]>>

\* c.mu does its work: no interleaving of status writes leaves a mixture of
\* two records in a status file.
NeverGarbled == \A s \in Servers : status[s].kind # "garbled"

\* GetBackupStatus fails on an empty file only while a write of that server is
\* under way, or after a write that was cut short by an I/O error or a crash.
UnreadableOnlyInFlight ==
  \A s \in Servers : status[s].kind = "empty" =>
    \E j \in Jobs : /\ srv[j] = s
                    /\ pc[j] \in Writing \cup {"rejected", "muted", "lost"}

\* "running" is owed an answer: whenever the status says so, some job of that
\* ID is still on its way to the final write, unless the gateway was restarted
\* under it or its final write failed.
RunningIsOwed ==
  \A s \in Servers, i \in Seconds : GetBackupStatus(s, i) = "running" =>
    \E j \in Jobs : srv[j] = s /\ id[j] = i /\ pc[j] \in Accepted \cup {"muted", "lost"}

\* Job j does not share its ID with another job of its server.
OnlyOfItsSecond(j) ==
  \A k \in Jobs \ {j} :
    srv[k] = srv[j] /\ pc[k] \notin {"idle", "mkdir", "mint"} => id[k] # id[j]

\* Once a job has recorded its outcome, a poller of its ID gets that outcome
\* or no answer (a newer job has taken the status file), but never "running"
\* or the opposite outcome -- given that its ID is its own.
OutcomeIsFinal ==
  \A j \in Jobs : pc[j] = "ended" /\ OnlyOfItsSecond(j) =>
    GetBackupStatus(srv[j], id[j]) \in {res[j], "not found", "unreadable"}

-----------------------------------------------------------------------------
\* The inductive invariant behind the safety properties.

\* c.mu is held exactly between the two halves of a status write, and the file
\* being written is the empty one its holder left there.
MutexInv ==
  \A j \in Jobs :
    /\ lock = j <=> pc[j] \in Writing
    /\ pc[j] \in Writing => status[srv[j]].kind = "empty"

\* What a job's processes and its outcome can be at each point of the code.
BeforeSpawn ==
  {"idle", "mkdir", "mint", "lockRun", "writeRun", "refused", "rejected", "spawn"}

PipelineInv ==
  \A j \in Jobs :
    /\ pc[j] \in BeforeSpawn => pz[j] = "none" /\ tar[j] = "none"
    /\ pc[j] \in BeforeSpawn \cup {"tar", "wait"} => res[j] = "none"
    /\ pc[j] = "tar" => tar[j] = "none"
    /\ pz[j] = "ok" => tar[j] \in {"ok", "failed"} \/ (tar[j] = "none" /\ pc[j] = "lost")
    /\ res[j] = "done" => tar[j] = "ok" /\ pz[j] = "ok"

\* What a job's pzstd has made of its archive file.
ArchiveInv ==
  \A j \in Jobs :
    /\ dir[j] # NoDir => pz[j] \notin {"none", "starting"}
    /\ dir[j] # NoDir /\ pz[j] = "live" => arch[dir[j]][id[j]] = "partial"
    /\ dir[j] # NoDir /\ pz[j] = "ok" /\ tar[j] = "ok" => arch[dir[j]][id[j]] = "complete"

\* Every terminal record in a status file is that of a job that has ended.
RecordInv ==
  \A s \in Servers :
    status[s].kind = "json" /\ status[s].st # "running" =>
      \E j \in Jobs : /\ srv[j] = s /\ id[j] = status[s].id
                      /\ pc[j] = "ended" /\ res[j] = status[s].st

IInv == /\ TypeOK
        /\ MutexInv
        /\ PipelineInv
        /\ ArchiveInv
        /\ OneWriterPerArchive
        /\ RecordInv
        /\ NeverGarbled
        /\ UnreadableOnlyInFlight
        /\ RunningIsOwed

-----------------------------------------------------------------------------
\* Action properties.

\* A complete archive is never rewritten, and no step of a backup, its own or
\* another one's of the same second, takes it away: only a delete request does,
\* which goes with no step of a job or of its processes.
CompleteIsImmutable ==
  [][\A d \in Dirs, i \in Seconds :
       arch[d][i] = "complete" /\ arch'[d][i] # "complete" =>
         arch'[d][i] = "none" /\ UNCHANGED <<status, lock, pc, tar, pz, res>>]_vars

-----------------------------------------------------------------------------
\* Liveness.

\* tar is blocked on a full pipe whose only reader left is the gateway itself.
Stuck(j) == pc[j] = "wait" /\ tar[j] = "live" /\ pz[j] = "failed" /\ j \in BigTrees

\* Every accepted backup ends -- recording its outcome, failing to, or being
\* lost in a restart -- or is stuck on the pipe: nothing else can hold it up.
EndsOrIsStuck ==
  \A j \in Jobs : pc[j] = "spawn" ~> (pc[j] \in Finished \/ Stuck(j))

\* A poller can count on a backup to end: what the code does not keep (the pipe
\* hangs when pzstd dies under a big tree).
EveryBackupEnds == \A j \in Jobs : pc[j] = "spawn" ~> pc[j] \in Finished

-----------------------------------------------------------------------------
\* The promise to callers (JobBoard): one slot per server, the card is what
\* the status file holds.
Phase(j) ==
  CASE pc[j] \in {"idle", "mkdir", "mint", "lockRun", "writeRun"} -> "new"
    [] pc[j] \in {"refused", "rejected"} -> "turned away"
    [] pc[j] \in Accepted \cup {"writeEnd"} -> "accepted"
    [] pc[j] \in {"muted", "lost"} -> "silent"
    [] pc[j] = "ended" -> res[j]

Hung(f) ==
  CASE f.kind = "json" -> {[id |-> f.id, st |-> f.st]}
    [] f.kind \in {"absent", "empty"} -> {}
    [] f.kind = "garbled" -> {[id |-> 0, st |-> "garbled"]}

Ticket(j) ==
  IF pc[j] \in Accepted \cup {"writeEnd", "ended"}
  THEN {[slot |-> srv[j], id |-> id[j]]} ELSE {}

Promise == INSTANCE JobBoard
  WITH Slots  <- Servers,
       Ids    <- Seconds,
       phase  <- [j \in Jobs |-> Phase(j)],
       ticket <- [j \in Jobs |-> Ticket(j)],
       board  <- [s \in Servers |-> Hung(status[s])]

\* Every behaviour of the backup jobs, seen through the replies and the status
\* files, is one of JobBoard: a "running" record appears in the very step that
\* accepts the call, a terminal one in the step that ends its job, and no file
\* shows anything else.
KeepsPromise == Promise!Spec
=============================================================================
