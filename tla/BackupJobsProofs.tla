-------------------------- MODULE BackupJobsProofs --------------------------
(* Theorems about BackupJobs, for every set of servers and jobs and all bounds. *)
EXTENDS BackupJobs, TLAPS

\* The state space: every variable keeps its type through every operation of
\* the backup jobs.
LEMMA TypeInit == Init => TypeOK
BY BoundsAssumption
   DEF BoundsAssumption, Init, TypeOK, Seconds, Dirs, NoDir, ArchiveStates, Outcomes, ProcStates,
       AbsentFile, StatusFiles, PcStates

LEMMA SetArchiveType ==
  ASSUME arch \in [Dirs -> [Seconds -> ArchiveStates]],
         NEW d, NEW i \in Seconds, NEW x \in ArchiveStates, SetArchive(d, i, x)
  PROVE  arch' \in [Dirs -> [Seconds -> ArchiveStates]]
<1>1. CASE d \in Dirs
  <2>1. [arch[d] EXCEPT ![i] = x] \in [Seconds -> ArchiveStates]
    BY <1>1
  <2> QED BY <1>1, <2>1 DEF SetArchive
<1>2. CASE d \notin Dirs
  <2>1. arch' = arch
    BY <1>2 DEF SetArchive
  <2> QED BY <2>1
<1> QED BY <1>1, <1>2

LEMMA UnlinkType ==
  ASSUME TypeOK, NEW d, NEW i \in Seconds, Unlink(d, i)
  PROVE  /\ arch' \in [Dirs -> [Seconds -> ArchiveStates]]
         /\ dir' \in [Jobs -> Dirs \cup {NoDir}]
<1>1. SetArchive(d, i, "none")
  BY DEF Unlink, SetArchive
<1>2. arch' \in [Dirs -> [Seconds -> ArchiveStates]]
  BY <1>1, SetArchiveType DEF TypeOK, ArchiveStates
<1> QED BY <1>2 DEF Unlink, TypeOK

LEMMA NewDirType ==
  ASSUME TypeOK, NEW s \in Servers, NewDirAt(s)
  PROVE  /\ at' \in [Servers -> Dirs \cup {NoDir}]
         /\ made' \in 0..MaxDirs
         /\ made + 1 \in Dirs
<1>1. made + 1 \in 1..MaxDirs /\ made + 1 \in 0..MaxDirs
  BY BoundsAssumption DEF BoundsAssumption, TypeOK, NewDirAt
<1> QED BY <1>1 DEF TypeOK, NewDirAt, Dirs

LEMMA MakeBackupsType ==
  ASSUME TypeOK, NEW s \in Servers, MakeBackups(s)
  PROVE  /\ at' \in [Servers -> Dirs \cup {NoDir}]
         /\ made' \in 0..MaxDirs
         /\ bdir' \subseteq Dirs
<1>1. CASE NewDirAt(s) /\ bdir' = bdir \cup {made + 1}
  BY <1>1, NewDirType DEF TypeOK
<1>2. CASE at[s] # NoDir /\ bdir' = bdir \cup {at[s]} /\ UNCHANGED <<at, made>>
  <2>1. at[s] \in Dirs
    BY <1>2 DEF TypeOK
  <2> QED BY <1>2, <2>1 DEF TypeOK
<1> QED BY <1>1, <1>2 DEF MakeBackups

LEMMA TypeStep == TypeOK /\ [Next]_vars => TypeOK'
<1> SUFFICES ASSUME TypeOK, [Next]_vars PROVE TypeOK'
  OBVIOUS
<1> USE BoundsAssumption DEF TypeOK, BoundsAssumption
<1>1. ASSUME NEW s \in Servers, CreateServer(s) \/ RemoveServerDir(s) PROVE TypeOK'
  <2>1. CASE CreateServer(s)
    <3>1. CASE NewDirAt(s) /\ UNCHANGED bdir
      BY <2>1, <3>1, NewDirType DEF CreateServer, jobVars
    <3>2. CASE MakeBackups(s)
      BY <2>1, <3>2, MakeBackupsType DEF CreateServer, jobVars
    <3> QED BY <2>1, <3>1, <3>2 DEF CreateServer
  <2>2. CASE RemoveServerDir(s)
    BY <2>2 DEF RemoveServerDir, jobVars
  <2> QED BY <1>1, <2>1, <2>2
<1>10. ASSUME NEW d \in Dirs, RemoveBackups(d) PROVE TypeOK'
  BY <1>10 DEF RemoveBackups, jobVars
<1>11. ASSUME NEW d \in Dirs, NEW i \in Seconds, UnlinkArchive(d, i) PROVE TypeOK'
  BY <1>11, UnlinkType DEF UnlinkArchive
<1>2. ASSUME NEW s \in Servers, NEW t \in Servers, Migrate(s, t) PROVE TypeOK'
  BY <1>2 DEF Migrate, Dirs, NoDir, jobVars
<1>3. CASE Tick
  BY <1>3 DEF Tick, Seconds, jobVars, fsVars
<1>4. ASSUME NEW j \in Jobs, StartBackup(j) PROVE TypeOK'
  <2> USE DEF fsVars, Goto, PcStates, Accepted, Writing, Finished
  <2>1. CASE StatServerDir(j)
    BY <2>1 DEF StatServerDir
  <2>2. CASE MakeBackupDir(j)
    <3>1. CASE MakeBackups(srv[j])
      BY <2>2, <3>1, MakeBackupsType DEF MakeBackupDir, Fault
    <3>2. CASE Fault /\ UNCHANGED <<at, made, bdir>>
      BY <2>2, <3>2 DEF MakeBackupDir, Fault
    <3> QED BY <2>2, <3>1, <3>2 DEF MakeBackupDir
  <2>3. CASE MintID(j)
    <3>1. id' \in [Jobs -> Seconds] /\ \A k \in Jobs : id'[k] <= clock
      BY <2>3 DEF MintID, Seconds
    <3> QED BY <2>3, <3>1 DEF MintID
  <2> QED BY <1>4, <2>1, <2>2, <2>3 DEF StartBackup
<1>5. ASSUME NEW j \in Jobs, WriteStatus(j) \/ WriteFails(j) PROVE TypeOK'
  <2> USE DEF fsVars, Goto, PcStates, Accepted, Writing, Finished
  <2>1. CASE TruncateStatus(j)
    <3>1. EmptyFile \in StatusFiles
      BY DEF EmptyFile, StatusFiles, Seconds
    <3> QED BY <2>1, <3>1 DEF TruncateStatus
  <2>2. CASE FillStatus(j)
    <3>1. Written(j) \in StatusFiles
      BY DEF Written, NewStatus, JsonFile, GarbledFile, StatusFiles, Seconds, Outcomes
    <3> QED BY <2>2, <3>1 DEF FillStatus, AfterWrite
  <2>3. CASE OpenStatusFails(j)
    BY <2>3 DEF OpenStatusFails, AfterError, Fault
  <2>4. CASE FillStatusFails(j)
    BY <2>4 DEF FillStatusFails, AfterError, Fault
  <2> QED BY <1>5, <2>1, <2>2, <2>3, <2>4 DEF WriteStatus, WriteFails
<1>6. ASSUME NEW j \in Jobs, RunBackup(j) PROVE TypeOK'
  <2> USE DEF fsVars, Goto, PcStates, Accepted, Writing, Finished
  <2>1. CASE SpawnPzstd(j)
    <3>1. CASE SpawnOK(j)
      BY <2>1, <3>1 DEF SpawnPzstd, SpawnOK, ProcStates
    <3>2. CASE SpawnError(j)
      BY <2>1, <3>2 DEF SpawnPzstd, SpawnError, Fault, Outcomes
    <3> QED BY <2>1, <3>1, <3>2 DEF SpawnPzstd
  <2>2. CASE SpawnTar(j)
    BY <2>2 DEF SpawnTar, ProcStates
  <2>3. CASE CollectPipeline(j)
    BY <2>3 DEF CollectPipeline, OutcomeOf, Outcomes
  <2> QED BY <1>6, <2>1, <2>2, <2>3 DEF RunBackup
<1>7. ASSUME NEW j \in Jobs, Children(j) \/ ChildDies(j) PROVE TypeOK'
  <2> USE DEF fsVars, ProcStates, ArchiveStates
  <2>1. CASE PzstdOpens(j)
    <3>1. CASE CanCreate(at[srv[j]], id[j])
      BY <2>1, <3>1, SetArchiveType DEF PzstdOpens
    <3>2. CASE ~CanCreate(at[srv[j]], id[j])
      BY <2>1, <3>2 DEF PzstdOpens
    <3> QED BY <3>1, <3>2
  <2>2. CASE PzstdFinishes(j)
    BY <2>2, SetArchiveType DEF PzstdFinishes, SetOutput
  <2>3. CASE TarFinishes(j)
    BY <2>3 DEF TarFinishes
  <2>4. CASE PzstdDies(j)
    BY <2>4, UnlinkType DEF PzstdDies, Fault
  <2>5. CASE TarDiesEarly(j)
    BY <2>5 DEF TarDiesEarly, Fault
  <2> QED BY <1>7, <2>1, <2>2, <2>3, <2>4, <2>5 DEF Children, ChildDies
<1>8. CASE Restart
  BY <1>8 DEF Restart, Fault, fsVars, PcStates, Accepted, Writing, Finished
<1>9. CASE UNCHANGED vars
  BY <1>9 DEF vars
<1> QED BY <1>1, <1>2, <1>3, <1>4, <1>5, <1>6, <1>7, <1>8, <1>9, <1>10, <1>11 DEF Next

\* Type correctness of the asynchronous backups.
THEOREM TypeCorrect == Spec => []TypeOK
BY TypeInit, TypeStep, PTL DEF Spec

-----------------------------------------------------------------------------
\* The inductive invariant.
LEMMA InvInit == Init => IInv
<1> SUFFICES ASSUME Init PROVE IInv
  OBVIOUS
<1>1. TypeOK
  BY TypeInit
<1>2. MutexInv
  BY JobsAssumption DEF JobsAssumption, Init, MutexInv, Writing
<1>3. PipelineInv /\ ArchiveInv /\ OneWriterPerArchive
  BY DEF Init, PipelineInv, ArchiveInv, OneWriterPerArchive
<1>4. RecordInv /\ NeverGarbled /\ UnreadableOnlyInFlight /\ RunningIsOwed
  BY DEF Init, RecordInv, NeverGarbled, UnreadableOnlyInFlight, RunningIsOwed,
         GetBackupStatus, AbsentFile
<1> QED BY <1>1, <1>2, <1>3, <1>4 DEF IInv

\* The steps that concern neither c.mu nor a status file nor the code of a job.
Elsewhere == UNCHANGED <<status, lock, pc, srv, id, res>>

LEMMA QuietSteps ==
  /\ \A s \in Servers : CreateServer(s) \/ RemoveServerDir(s) => Elsewhere
  /\ \A d \in Dirs : RemoveBackups(d) => Elsewhere
  /\ \A d \in Dirs, i \in Seconds : UnlinkArchive(d, i) => Elsewhere
  /\ \A s, t \in Servers : Migrate(s, t) => Elsewhere
  /\ Tick => Elsewhere
  /\ \A j \in Jobs : Children(j) \/ ChildDies(j) => Elsewhere
  /\ UNCHANGED vars => Elsewhere
BY DEF CreateServer, RemoveServerDir, RemoveBackups, UnlinkArchive, Migrate, Tick,
       Children, ChildDies, PzstdOpens, PzstdFinishes, TarFinishes, PzstdDies, TarDiesEarly, vars, jobVars, Elsewhere

\* The steps that only move a job along, outside its status writes.
MoveOn(j) == \/ StatServerDir(j) \/ MakeBackupDir(j) \/ MintID(j) \/ OpenStatusFails(j)
             \/ SpawnPzstd(j) \/ SpawnTar(j) \/ CollectPipeline(j)

\* Only the holder of c.mu is inside a status write.
LEMMA NobodyWrites ==
  ASSUME MutexInv, lock = NoJob
  PROVE  \A k \in Jobs : pc[k] \notin Writing
BY JobsAssumption DEF JobsAssumption, MutexInv

LEMMA OnlyHolderWrites ==
  ASSUME MutexInv, NEW j \in Jobs, pc[j] \in Writing
  PROVE  lock = j /\ \A k \in Jobs \ {j} : pc[k] \notin Writing
BY DEF MutexInv

LEMMA MutexStep == IInv /\ [Next]_vars => MutexInv' /\ NeverGarbled'
<1> SUFFICES ASSUME IInv, [Next]_vars PROVE MutexInv' /\ NeverGarbled'
  OBVIOUS
<1> USE DEF IInv, TypeOK, MutexInv, NeverGarbled
<1>1. CASE Elsewhere
  BY <1>1 DEF Elsewhere
<1>2. ASSUME NEW j \in Jobs, MoveOn(j) PROVE MutexInv' /\ NeverGarbled'
  <2>1. status' = status /\ lock' = lock /\ srv' = srv
    BY <1>2 DEF MoveOn, StatServerDir, MakeBackupDir, MintID, OpenStatusFails,
                SpawnPzstd, SpawnTar, CollectPipeline
  <2>2. pc[j] \notin Writing
    BY <1>2 DEF MoveOn, StatServerDir, MakeBackupDir, MintID, OpenStatusFails,
                SpawnPzstd, SpawnTar, CollectPipeline, Writing
  <2>3. \E x \in PcStates \ Writing : Goto(j, x)
    BY <1>2 DEF MoveOn, StatServerDir, MakeBackupDir, MintID, OpenStatusFails,
                SpawnPzstd, SpawnOK, SpawnError, SpawnTar, CollectPipeline,
                AfterError, Writing, PcStates, Accepted, Finished
  <2> QED BY <2>1, <2>2, <2>3 DEF Goto
<1>3. ASSUME NEW j \in Jobs, TruncateStatus(j) PROVE MutexInv' /\ NeverGarbled'
  <2>1. \A k \in Jobs : pc[k] \notin Writing
    BY <1>3, NobodyWrites DEF TruncateStatus, CanLock
  <2>2. \A k \in Jobs : pc'[k] \in Writing <=> k = j
    BY <1>3, <2>1 DEF TruncateStatus, Goto, Writing
  <2>3. \A s \in Servers : status'[s] = IF s = srv[j] THEN EmptyFile ELSE status[s]
    BY <1>3 DEF TruncateStatus
  <2>4. lock' = j /\ srv' = srv
    BY <1>3 DEF TruncateStatus
  <2> QED BY <2>2, <2>3, <2>4 DEF EmptyFile
<1>4. ASSUME NEW j \in Jobs, FillStatus(j) \/ FillStatusFails(j)
      PROVE  MutexInv' /\ NeverGarbled'
  <2>1. lock = j /\ \A k \in Jobs \ {j} : pc[k] \notin Writing
    BY <1>4, OnlyHolderWrites DEF FillStatus, FillStatusFails
  <2>2. lock' = NoJob /\ srv' = srv
    BY <1>4 DEF FillStatus, FillStatusFails
  <2>3. \A k \in Jobs : pc'[k] \notin Writing
    BY <1>4, <2>1 DEF FillStatus, FillStatusFails, Goto, AfterWrite, AfterError, Writing
  <2>4. \A s \in Servers : status'[s] = status[s] \/ status'[s] = NewStatus(j)
    <3>1. pc[j] \in Writing /\ status[srv[j]].kind = "empty"
      BY <1>4 DEF FillStatus, FillStatusFails
    <3>2. CASE FillStatus(j)
      BY <3>1, <3>2 DEF FillStatus, Written
    <3>3. CASE FillStatusFails(j)
      BY <3>3 DEF FillStatusFails
    <3> QED BY <1>4, <3>2, <3>3
  <2>5. NeverGarbled'
    BY <2>4 DEF NewStatus, JsonFile
  <2> QED BY <2>2, <2>3, <2>5, JobsAssumption DEF JobsAssumption
<1>5. CASE Restart
  BY <1>5, JobsAssumption DEF JobsAssumption, Restart, Writing, Finished
<1> QED
  BY <1>1, <1>2, <1>3, <1>4, <1>5, QuietSteps
  DEF Next, StartBackup, WriteStatus, WriteFails, RunBackup, MoveOn

LEMMA PipelineStep == IInv /\ [Next]_vars => PipelineInv'
<1> SUFFICES ASSUME IInv, [Next]_vars PROVE PipelineInv'
  OBVIOUS
<1> USE DEF IInv, TypeOK, PipelineInv, BeforeSpawn
<1>1. CASE UNCHANGED <<pc, tar, pz, res>>
  BY <1>1
<1>2. ASSUME NEW j \in Jobs, StartBackup(j) PROVE PipelineInv'
  BY <1>2 DEF StartBackup, StatServerDir, MakeBackupDir, MintID, Goto
<1>3. ASSUME NEW j \in Jobs, WriteStatus(j) \/ WriteFails(j) PROVE PipelineInv'
  BY <1>3 DEF WriteStatus, WriteFails, TruncateStatus, FillStatus, OpenStatusFails,
              FillStatusFails, AfterWrite, AfterError, Writing, Goto
<1>4. ASSUME NEW j \in Jobs, RunBackup(j) PROVE PipelineInv'
  <2>1. CASE SpawnPzstd(j)
    BY <2>1 DEF SpawnPzstd, SpawnOK, SpawnError, Goto
  <2>2. CASE SpawnTar(j)
    BY <2>2 DEF SpawnTar, Goto
  <2>3. CASE CollectPipeline(j)
    BY <2>3 DEF CollectPipeline, OutcomeOf, Goto
  <2> QED BY <1>4, <2>1, <2>2, <2>3 DEF RunBackup
<1>5. ASSUME NEW j \in Jobs, Children(j) \/ ChildDies(j) PROVE PipelineInv'
  <2>1. CASE PzstdOpens(j)
    BY <2>1 DEF PzstdOpens
  <2>2. CASE PzstdFinishes(j)
    BY <2>2 DEF PzstdFinishes, EndOfStream
  <2>3. CASE TarFinishes(j) \/ TarDiesEarly(j)
    BY <2>3 DEF TarFinishes, TarDiesEarly
  <2>4. CASE PzstdDies(j)
    BY <2>4 DEF PzstdDies
  <2> QED BY <1>5, <2>1, <2>2, <2>3, <2>4 DEF Children, ChildDies
<1>6. CASE Restart
  BY <1>6 DEF Restart, Finished
<1> QED
  BY <1>1, <1>2, <1>3, <1>4, <1>5, <1>6
  DEF Next, CreateServer, RemoveServerDir, RemoveBackups, UnlinkArchive, Migrate, Tick,
      vars, jobVars

\* Taking a name off an archive leaves every other archive and its job alone.
LEMMA UnlinkStep ==
  ASSUME IInv, NEW d \in Dirs, NEW i \in Seconds, Unlink(d, i), UNCHANGED <<id, tar>>,
         \A k \in Jobs : pz'[k] = pz[k] \/ (pz[k] = "live" /\ pz'[k] = "failed")
  PROVE  ArchiveInv' /\ OneWriterPerArchive'
<1> USE DEF IInv, ArchiveInv, OneWriterPerArchive
<1>1. \A e \in Dirs, n \in Seconds : <<e, n>> # <<d, i>> => arch'[e][n] = arch[e][n]
  BY DEF Unlink, TypeOK
<1>2. \A k \in Jobs : dir'[k] # NoDir =>
        /\ dir'[k] = dir[k] /\ dir[k] \in Dirs /\ id[k] \in Seconds
        /\ <<dir[k], id[k]>> # <<d, i>>
  BY DEF Unlink, TypeOK
<1>3. \A j, k \in Jobs : dir'[j] # NoDir /\ <<dir'[j], id[j]>> = <<dir'[k], id[k]>>
        => <<dir[j], id[j]>> = <<dir[k], id[k]>>
  BY <1>2
<1>4. ArchiveInv'
  BY <1>1, <1>2
<1>5. OneWriterPerArchive'
  BY <1>2, <1>3
<1> QED BY <1>4, <1>5

\* A job's pzstd and its archive file are untouched by every other process.
LEMMA ArchiveStep == IInv /\ [Next]_vars => ArchiveInv' /\ OneWriterPerArchive'
<1> SUFFICES ASSUME IInv, [Next]_vars PROVE ArchiveInv' /\ OneWriterPerArchive'
  OBVIOUS
<1> USE DEF IInv, ArchiveInv, OneWriterPerArchive
<1>1. CASE UNCHANGED <<arch, id, dir, tar, pz>>
  BY <1>1
<1>2. ASSUME NEW j \in Jobs, MintID(j) PROVE ArchiveInv' /\ OneWriterPerArchive'
  <2>1. pz[j] = "none"
    BY <1>2 DEF MintID, PipelineInv, BeforeSpawn
  <2>2. \A k \in Jobs : k # j => id'[k] = id[k]
    BY <1>2 DEF MintID, TypeOK
  <2> QED BY <1>2, <2>1, <2>2 DEF MintID, fsVars
<1>3. ASSUME NEW j \in Jobs, SpawnPzstd(j) PROVE ArchiveInv' /\ OneWriterPerArchive'
  <2>1. pz[j] = "none" /\ UNCHANGED <<arch, id, dir, tar>>
    BY <1>3 DEF SpawnPzstd, SpawnOK, SpawnError, fsVars, PipelineInv, BeforeSpawn
  <2>2. \A k \in Jobs : pz'[k] = pz[k] \/ (k = j /\ pz'[k] = "starting")
    BY <1>3 DEF SpawnPzstd, SpawnOK, SpawnError, TypeOK
  <2>3. dir[j] = NoDir
    BY <2>1
  <2> QED BY <2>1, <2>2, <2>3
<1>4. ASSUME NEW j \in Jobs, SpawnTar(j) PROVE ArchiveInv' /\ OneWriterPerArchive'
  <2>1. \A k \in Jobs : tar'[k] = "ok" => tar[k] = "ok"
    BY <1>4 DEF SpawnTar, TypeOK
  <2> QED BY <1>4, <2>1 DEF SpawnTar, fsVars
<1>5. ASSUME NEW j \in Jobs, TarFinishes(j) \/ TarDiesEarly(j)
      PROVE  ArchiveInv' /\ OneWriterPerArchive'
  <2>1. pz[j] # "ok"
    BY <1>5 DEF TarFinishes, TarDiesEarly, PipelineInv
  <2>2. \A k \in Jobs : k # j => tar'[k] = tar[k]
    BY <1>5 DEF TarFinishes, TarDiesEarly, TypeOK
  <2> QED BY <1>5, <2>1, <2>2 DEF TarFinishes, TarDiesEarly, fsVars
<1>6. ASSUME NEW j \in Jobs, PzstdOpens(j) PROVE ArchiveInv' /\ OneWriterPerArchive'
  <2>1. CASE ~CanCreate(at[srv[j]], id[j])
    BY <1>6, <2>1 DEF PzstdOpens, TypeOK
  <2>2. CASE CanCreate(at[srv[j]], id[j])
    <3> DEFINE d == at[srv[j]]
               i == id[j]
    <3>1. d \in Dirs /\ i \in Seconds /\ arch[d][i] = "none"
      BY <1>6, <2>2 DEF CanCreate, TypeOK
    <3>2. /\ arch'[d][i] = "partial"
          /\ \A e \in Dirs, n \in Seconds : <<e, n>> # <<d, i>> => arch'[e][n] = arch[e][n]
      BY <1>6, <2>2, <3>1 DEF PzstdOpens, SetArchive, TypeOK
    <3>3. /\ pz'[j] = "live" /\ dir'[j] = d
          /\ \A k \in Jobs : k # j => pz'[k] = pz[k] /\ dir'[k] = dir[k]
          /\ id' = id /\ tar' = tar
      BY <1>6, <2>2 DEF PzstdOpens, TypeOK
    <3>4. \A k \in Jobs : dir[k] # NoDir /\ (pz[k] = "live" \/ (pz[k] = "ok" /\ tar[k] = "ok"))
            => dir[k] \in Dirs /\ id[k] \in Seconds /\ <<dir[k], id[k]>> # <<d, i>>
      BY <3>1 DEF TypeOK
    <3>7. d # NoDir
      BY <3>1 DEF Dirs, NoDir
    <3> HIDE DEF d, i
    <3>5. ArchiveInv'
      BY <3>2, <3>3, <3>4 DEF i
    <3>6. OneWriterPerArchive'
      BY <3>3, <3>4, <3>7 DEF i
    <3> QED BY <3>5, <3>6
  <2> QED BY <2>1, <2>2
<1>7. ASSUME NEW j \in Jobs, PzstdFinishes(j) PROVE ArchiveInv' /\ OneWriterPerArchive'
  <2>1. /\ pz[j] = "live" /\ pz'[j] = "ok"
        /\ dir' = dir /\ id' = id /\ tar' = tar
        /\ \A k \in Jobs : k # j => pz'[k] = pz[k]
    BY <1>7 DEF PzstdFinishes, TypeOK
  <2>2. OneWriterPerArchive'
    BY <2>1
  <2>3. CASE dir[j] = NoDir
    <3>1. arch' = arch
      BY <1>7, <2>3 DEF PzstdFinishes, SetOutput
    <3> QED BY <2>1, <2>2, <2>3, <3>1
  <2>4. CASE dir[j] # NoDir
    <3>1. dir[j] \in Dirs /\ id[j] \in Seconds
      BY <2>4 DEF TypeOK
    <3>2. \A e \in Dirs, n \in Seconds :
            <<e, n>> # <<dir[j], id[j]>> => arch'[e][n] = arch[e][n]
      BY <1>7, <2>4, <3>1 DEF PzstdFinishes, SetOutput, SetArchive, TypeOK
    <3>3. \A k \in Jobs : k # j /\ dir[k] # NoDir /\ (pz[k] = "live" \/ (pz[k] = "ok" /\ tar[k] = "ok"))
            => dir[k] \in Dirs /\ id[k] \in Seconds /\ <<dir[k], id[k]>> # <<dir[j], id[j]>>
      BY <2>1, <2>4 DEF TypeOK
    <3>4. tar[j] = "ok" => arch'[dir[j]][id[j]] = "complete"
      BY <1>7, <2>4, <3>1 DEF PzstdFinishes, SetOutput, SetArchive, TypeOK
    <3>5. ArchiveInv'
      BY <2>1, <3>2, <3>3, <3>4
    <3> QED BY <2>2, <3>5
  <2> QED BY <2>3, <2>4
<1>8. ASSUME NEW j \in Jobs, PzstdDies(j) PROVE ArchiveInv' /\ OneWriterPerArchive'
  <2>1. /\ pz[j] = "live" /\ pz'[j] = "failed" /\ UNCHANGED <<id, tar>>
        /\ \A k \in Jobs : k # j => pz'[k] = pz[k]
    BY <1>8 DEF PzstdDies, TypeOK
  <2>2. CASE UNCHANGED <<arch, dir>>
    BY <2>1, <2>2
  <2>3. CASE dir[j] # NoDir /\ Unlink(dir[j], id[j])
    <3>1. dir[j] \in Dirs /\ id[j] \in Seconds
      BY <2>3 DEF TypeOK
    <3> QED BY <2>1, <2>3, <3>1, UnlinkStep
  <2> QED BY <1>8, <2>2, <2>3 DEF PzstdDies
<1>9. ASSUME NEW d \in Dirs, NEW i \in Seconds, UnlinkArchive(d, i)
      PROVE  ArchiveInv' /\ OneWriterPerArchive'
  BY <1>9, UnlinkStep DEF UnlinkArchive
<1> QED
  BY <1>1, <1>2, <1>3, <1>4, <1>5, <1>6, <1>7, <1>8, <1>9
  DEF Next, CreateServer, RemoveServerDir, RemoveBackups, Migrate, Tick, StartBackup,
      StatServerDir, MakeBackupDir, WriteStatus, TruncateStatus, FillStatus, WriteFails,
      OpenStatusFails, FillStatusFails, RunBackup, CollectPipeline, Children, ChildDies,
      Restart, vars, fsVars, jobVars

\* RunningIsOwed without the CASE of GetBackupStatus.
Owed == \A s \in Servers :
          status[s].kind = "json" /\ status[s].st = "running" =>
            \E j \in Jobs : /\ srv[j] = s /\ id[j] = status[s].id
                            /\ pc[j] \in Accepted \cup {"muted", "lost"}

LEMMA OwedIsRunningIsOwed == TypeOK => (RunningIsOwed <=> Owed)
<1> SUFFICES ASSUME TypeOK PROVE RunningIsOwed <=> Owed
  OBVIOUS
<1>1. \A s \in Servers : /\ status[s] \in StatusFiles
                         /\ status[s].id \in Seconds
  BY DEF TypeOK, StatusFiles
<1>2. \A s \in Servers, i \in Seconds :
        GetBackupStatus(s, i) = "running" <=>
          status[s].kind = "json" /\ status[s].st = "running" /\ status[s].id = i
  BY <1>1 DEF GetBackupStatus, StatusFiles
<1> QED BY <1>1, <1>2 DEF RunningIsOwed, Owed

\* What the status files promise: each terminal record has its job, each empty
\* file its writer or the failure behind it, each "running" its debtor.
LEMMA RecordStep == IInv /\ [Next]_vars => RecordInv' /\ UnreadableOnlyInFlight' /\ Owed'
<1> DEFINE Goal == RecordInv /\ UnreadableOnlyInFlight /\ Owed
<1> SUFFICES ASSUME IInv, [Next]_vars PROVE Goal'
  OBVIOUS
<1>0. Goal
  BY OwedIsRunningIsOwed DEF IInv
<1> USE <1>0 DEF RecordInv, UnreadableOnlyInFlight, Owed
<1>1. CASE Elsewhere
  BY <1>1 DEF Elsewhere
<1>2. ASSUME NEW j \in Jobs, MoveOn(j) PROVE Goal'
  <2>1. status' = status /\ srv' = srv
    BY <1>2 DEF MoveOn, StatServerDir, MakeBackupDir, MintID, OpenStatusFails,
                SpawnPzstd, SpawnTar, CollectPipeline
  <2>2. \A k \in Jobs : k # j => pc'[k] = pc[k] /\ id'[k] = id[k] /\ res'[k] = res[k]
    BY <1>2 DEF MoveOn, StatServerDir, MakeBackupDir, MintID, OpenStatusFails, SpawnPzstd,
                SpawnOK, SpawnError, SpawnTar, CollectPipeline, Goto, IInv, TypeOK
  <2>3. pc[j] # "ended" /\ pc[j] \notin Writing \cup {"rejected", "muted", "lost"}
    BY <1>2 DEF MoveOn, StatServerDir, MakeBackupDir, MintID, OpenStatusFails, SpawnPzstd,
                SpawnTar, CollectPipeline, Writing
  <2>4. pc[j] \in Accepted => pc'[j] \in Accepted \cup {"muted"} /\ id'[j] = id[j]
    BY <1>2 DEF MoveOn, StatServerDir, MakeBackupDir, MintID, OpenStatusFails, SpawnPzstd,
                SpawnOK, SpawnError, SpawnTar, CollectPipeline, AfterError, Goto,
                Accepted, IInv, TypeOK
  <2>5. RecordInv'
    BY <2>1, <2>2, <2>3
  <2>6. UnreadableOnlyInFlight'
    BY <2>1, <2>2, <2>3 DEF Writing
  <2>7. Owed'
    BY <2>1, <2>2, <2>3, <2>4
  <2> QED BY <2>5, <2>6, <2>7
<1>3. ASSUME NEW j \in Jobs, TruncateStatus(j) PROVE Goal'
  <2>1. /\ \A s \in Servers : status'[s] = IF s = srv[j] THEN EmptyFile ELSE status[s]
        /\ srv' = srv /\ id' = id /\ res' = res
        /\ pc[j] \in {"lockRun", "lockEnd"} /\ pc'[j] \in Writing
        /\ \A k \in Jobs : k # j => pc'[k] = pc[k]
    BY <1>3 DEF TruncateStatus, Goto, Writing, IInv, TypeOK
  <2>2. RecordInv'
    BY <2>1 DEF EmptyFile
  <2>3. UnreadableOnlyInFlight'
    BY <2>1 DEF EmptyFile, Writing
  <2>4. Owed'
    BY <2>1 DEF EmptyFile
  <2> QED BY <2>2, <2>3, <2>4
<1>4. ASSUME NEW j \in Jobs, FillStatus(j) PROVE Goal'
  <2>1. pc[j] \in Writing /\ status[srv[j]].kind = "empty"
    BY <1>4 DEF FillStatus, IInv, MutexInv
  <2>2. /\ \A s \in Servers : status'[s] = IF s = srv[j] THEN NewStatus(j) ELSE status[s]
        /\ srv' = srv /\ id' = id /\ res' = res
        /\ pc'[j] = AfterWrite(j)
        /\ \A k \in Jobs : k # j => pc'[k] = pc[k]
        /\ srv[j] \in Servers
    BY <1>4, <2>1 DEF FillStatus, Written, Goto, IInv, TypeOK
  <2>3. /\ pc[j] = "writeRun" => pc'[j] \in Accepted /\ NewStatus(j).st = "running"
        /\ pc[j] = "writeEnd" => pc'[j] = "ended" /\ NewStatus(j).st = res[j]
        /\ NewStatus(j).kind = "json" /\ NewStatus(j).id = id[j]
    BY <2>2 DEF AfterWrite, NewStatus, JsonFile, Accepted
  <2>4. res[j] # "running"
    BY DEF IInv, TypeOK, Outcomes
  <2>5. pc[j] = "writeRun" \/ pc[j] = "writeEnd"
    BY <2>1 DEF Writing
  <2>6. pc[j] # "ended" /\ pc[j] \notin Accepted \cup {"rejected", "muted", "lost"}
    BY <2>5 DEF Accepted
  <2>7. RecordInv'
    BY <2>2, <2>3, <2>5, <2>6
  <2>8. UnreadableOnlyInFlight'
    BY <2>2, <2>3, <2>5, <2>6
  <2>9. Owed'
    BY <2>2, <2>3, <2>4, <2>5, <2>6
  <2> QED BY <2>7, <2>8, <2>9
<1>5. ASSUME NEW j \in Jobs, FillStatusFails(j) PROVE Goal'
  <2>1. /\ UNCHANGED <<status, srv, id, res>>
        /\ pc[j] \in Writing /\ pc'[j] \in {"rejected", "muted"}
        /\ \A k \in Jobs : k # j => pc'[k] = pc[k]
    BY <1>5 DEF FillStatusFails, AfterError, Goto, IInv, TypeOK
  <2>2. pc[j] \notin Accepted \cup {"ended", "muted", "lost"}
    BY <2>1 DEF Accepted, Writing
  <2>3. RecordInv'
    BY <2>1, <2>2
  <2>4. UnreadableOnlyInFlight'
    BY <2>1
  <2>5. Owed'
    BY <2>1, <2>2
  <2> QED BY <2>3, <2>4, <2>5
<1>6. CASE Restart
  <2>1. /\ UNCHANGED <<status, srv, id, res>>
        /\ \A k \in Jobs : pc'[k] = IF pc[k] \in {"idle", "refused", "rejected"} \cup Finished
                                      THEN pc[k] ELSE "lost"
    BY <1>6 DEF Restart
  <2> QED BY <2>1 DEF Finished
<1> QED
  BY <1>1, <1>2, <1>3, <1>4, <1>5, <1>6, QuietSteps
  DEF Next, StartBackup, WriteStatus, WriteFails, RunBackup, MoveOn

LEMMA InvStep == IInv /\ [Next]_vars => IInv'
<1> SUFFICES ASSUME IInv, [Next]_vars PROVE IInv'
  OBVIOUS
<1>1. TypeOK'
  BY TypeStep DEF IInv
<1>2. RunningIsOwed'
  BY <1>1, RecordStep, OwedIsRunningIsOwed, PTL
<1> QED
  BY <1>1, <1>2, MutexStep, PipelineStep, ArchiveStep, RecordStep DEF IInv

LEMMA Invariance == Spec => []IInv
BY InvInit, InvStep, PTL DEF Spec

-----------------------------------------------------------------------------
\* The safety properties.

\* A status "done" has an archive behind it that is complete, or that a delete
\* request took since, whatever jobs, renames, crashes and failures came in
\* between.
THEOREM DoneIsTrue == Spec => []DoneHasArchive
<1>1. IInv => DoneHasArchive
  <2> SUFFICES ASSUME IInv, NEW s \in Servers, NEW i \in Seconds,
                      GetBackupStatus(s, i) = "done"
               PROVE  \E j \in Jobs : /\ srv[j] = s /\ id[j] = i
                                      /\ tar[j] = "ok" /\ pz[j] = "ok"
                                      /\ dir[j] # NoDir => arch[dir[j]][i] = "complete"
    BY DEF DoneHasArchive
  <2>1. status[s].kind = "json" /\ status[s].st = "done" /\ status[s].id = i
    <3>1. status[s].kind \in {"absent", "empty", "garbled", "json"}
      BY DEF IInv, TypeOK, StatusFiles
    <3> QED BY <3>1 DEF GetBackupStatus
  <2>2. PICK j \in Jobs : srv[j] = s /\ id[j] = i /\ res[j] = "done"
    BY <2>1 DEF IInv, RecordInv
  <2>3. tar[j] = "ok" /\ pz[j] = "ok"
    BY <2>2 DEF IInv, PipelineInv
  <2>4. dir[j] # NoDir => arch[dir[j]][i] = "complete"
    BY <2>2, <2>3 DEF IInv, ArchiveInv
  <2> QED BY <2>2, <2>3, <2>4
<1> QED BY <1>1, Invariance, PTL

\* Two pzstds never share an archive file.
THEOREM OneWriter == Spec => []OneWriterPerArchive
<1>1. IInv => OneWriterPerArchive
  BY DEF IInv
<1> QED BY <1>1, Invariance, PTL

\* The mutex keeps status files whole.
THEOREM StatusFilesWhole == Spec => []NeverGarbled
<1>1. IInv => NeverGarbled
  BY DEF IInv
<1> QED BY <1>1, Invariance, PTL

\* GetBackupStatus can only fail to parse in a write or after a failed one.
THEOREM UnreadableExplained == Spec => []UnreadableOnlyInFlight
<1>1. IInv => UnreadableOnlyInFlight
  BY DEF IInv
<1> QED BY <1>1, Invariance, PTL

\* "running" always has a debtor.
THEOREM RunningExplained == Spec => []RunningIsOwed
<1>1. IInv => RunningIsOwed
  BY DEF IInv
<1> QED BY <1>1, Invariance, PTL

\* A recorded outcome is final for an ID that is not shared.
THEOREM OutcomeFinal == Spec => []OutcomeIsFinal
<1>1. IInv => OutcomeIsFinal
  <2> SUFFICES ASSUME IInv, NEW j \in Jobs, pc[j] = "ended", OnlyOfItsSecond(j)
               PROVE  GetBackupStatus(srv[j], id[j]) \in {res[j], "not found", "unreadable"}
    BY DEF OutcomeIsFinal
  <2> DEFINE s == srv[j]
             f == status[srv[j]]
  <2>1. s \in Servers /\ id[j] \in Seconds /\ f \in StatusFiles
    BY DEF IInv, TypeOK
  <2>2. CASE f.kind # "json" \/ f.id # id[j]
    BY <2>1, <2>2 DEF GetBackupStatus, StatusFiles
  <2>3. CASE f.kind = "json" /\ f.id = id[j] /\ f.st # "running"
    <3>1. PICK k \in Jobs : /\ srv[k] = s /\ id[k] = id[j]
                            /\ pc[k] = "ended" /\ res[k] = f.st
      BY <2>1, <2>3 DEF IInv, RecordInv
    <3>2. k = j
      BY <3>1 DEF OnlyOfItsSecond
    <3> QED BY <2>1, <2>3, <3>1, <3>2 DEF GetBackupStatus
  <2>4. CASE f.kind = "json" /\ f.id = id[j] /\ f.st = "running"
    <3>1. PICK k \in Jobs : /\ srv[k] = s /\ id[k] = id[j]
                            /\ pc[k] \in Accepted \cup {"muted", "lost"}
      BY <2>1, <2>4, OwedIsRunningIsOwed DEF IInv, Owed
    <3>2. k = j
      BY <3>1 DEF OnlyOfItsSecond, Accepted
    <3> QED BY <3>1, <3>2 DEF Accepted
  <2> QED BY <2>2, <2>3, <2>4
<1> QED BY <1>1, Invariance, PTL

\* A finished archive stays as it is until a delete request takes it, and no step
\* of any job does.
OnlyDeleted(d, i) == arch'[d][i] = "none" /\ UNCHANGED <<status, lock, pc, tar, pz, res>>

THEOREM CompleteForever == Spec => CompleteIsImmutable
<1>1. ASSUME IInv, [Next]_vars, NEW d \in Dirs, NEW i \in Seconds,
             arch[d][i] = "complete", arch'[d][i] # "complete"
      PROVE  OnlyDeleted(d, i)
  <2>1. arch' # arch
    BY <1>1
  <2>2. ASSUME NEW j \in Jobs, PzstdOpens(j) PROVE FALSE
    BY <1>1, <2>2 DEF PzstdOpens, CanCreate, SetArchive, IInv, TypeOK
  <2>3. ASSUME NEW j \in Jobs, PzstdFinishes(j) \/ PzstdDies(j) PROVE FALSE
    <3>1. pz[j] = "live" /\ dir[j] # NoDir
      BY <2>1, <2>3 DEF PzstdFinishes, SetOutput, PzstdDies
    <3>2. dir[j] \in Dirs /\ id[j] \in Seconds /\ arch[dir[j]][id[j]] = "partial"
      BY <1>1, <3>1 DEF IInv, TypeOK, ArchiveInv
    <3>3. \E x : SetArchive(dir[j], id[j], x)
      BY <2>1, <2>3, <3>1 DEF PzstdFinishes, SetOutput, PzstdDies, Unlink, SetArchive
    <3>4. arch'[d][i] = arch[d][i]
      BY <1>1, <3>2, <3>3 DEF SetArchive, IInv, TypeOK
    <3> QED BY <1>1, <3>4
  <2>4. ASSUME NEW e \in Dirs, NEW n \in Seconds, UnlinkArchive(e, n)
        PROVE  OnlyDeleted(d, i)
    <3>1. arch'[d][i] = "none"
      BY <1>1, <2>4 DEF UnlinkArchive, Unlink, IInv, TypeOK
    <3> QED BY <2>4, <3>1 DEF UnlinkArchive, OnlyDeleted
  <2> QED
    BY <1>1, <2>1, <2>2, <2>3, <2>4
    DEF Next, CreateServer, RemoveServerDir, RemoveBackups, Migrate, Tick, StartBackup,
        StatServerDir, MakeBackupDir, MintID, WriteStatus, TruncateStatus, FillStatus,
        WriteFails, OpenStatusFails, FillStatusFails, RunBackup, SpawnPzstd, SpawnOK,
        SpawnError, SpawnTar, CollectPipeline, Children, ChildDies, TarFinishes,
        TarDiesEarly, Restart, vars, fsVars
<1>2. IInv /\ [Next]_vars =>
        [\A d \in Dirs, i \in Seconds :
           arch[d][i] = "complete" /\ arch'[d][i] # "complete" =>
             arch'[d][i] = "none" /\ UNCHANGED <<status, lock, pc, tar, pz, res>>]_vars
  BY <1>1 DEF OnlyDeleted
<1> QED BY <1>2, Invariance, PTL DEF Spec, CompleteIsImmutable

-----------------------------------------------------------------------------
\* The refinement of JobBoard, by step simulation.

\* A job that goes to record its outcome has one.
Decided == \A j \in Jobs : pc[j] \in {"lockEnd", "writeEnd", "ended"} => res[j] \in {"done", "failed"}

LEMMA DecidedStep == TypeOK /\ Decided /\ [Next]_vars => Decided'
<1> SUFFICES ASSUME TypeOK, Decided, [Next]_vars PROVE Decided'
  OBVIOUS
<1> USE DEF TypeOK, Decided
<1>1. CASE UNCHANGED <<pc, res>>
  BY <1>1
<1>2. ASSUME NEW j \in Jobs, StartBackup(j) PROVE Decided'
  BY <1>2 DEF StartBackup, StatServerDir, MakeBackupDir, MintID, Goto
<1>3. ASSUME NEW j \in Jobs, WriteStatus(j) \/ WriteFails(j) PROVE Decided'
  BY <1>3 DEF WriteStatus, WriteFails, TruncateStatus, FillStatus, OpenStatusFails,
              FillStatusFails, AfterWrite, AfterError, Writing, Goto
<1>4. ASSUME NEW j \in Jobs, RunBackup(j) PROVE Decided'
  BY <1>4 DEF RunBackup, SpawnPzstd, SpawnOK, SpawnError, SpawnTar, CollectPipeline,
              OutcomeOf, Goto
<1>5. CASE Restart
  BY <1>5 DEF Restart
<1> QED
  BY <1>1, <1>2, <1>3, <1>4, <1>5, QuietSteps DEF Next, Elsewhere

LEMMA DecidedInit == Init => Decided
BY DEF Init, Decided

\* What a caller sees of a job at each place of its code.
TicketFor(j) == {[slot |-> srv[j], id |-> id[j]]}

Seen ==
  \A j \in Jobs :
    /\ pc[j] \in {"idle", "mkdir", "mint", "lockRun", "writeRun"} => Phase(j) = "new" /\ Ticket(j) = {}
    /\ pc[j] \in {"refused", "rejected"} => Phase(j) = "turned away" /\ Ticket(j) = {}
    /\ pc[j] \in Accepted \cup {"writeEnd"} => Phase(j) = "accepted" /\ Ticket(j) = TicketFor(j)
    /\ pc[j] \in {"muted", "lost"} => Phase(j) = "silent" /\ Ticket(j) = {}
    /\ pc[j] = "ended" => Phase(j) = res[j] /\ Ticket(j) = TicketFor(j)

LEMMA PlacesSeen == Seen
BY DEF Seen, Phase, Ticket, TicketFor, Accepted

\* The card a status file shows; no card of a garbled file is needed, since
\* there is none.
Shown ==
  \A s \in Servers :
    /\ status[s].kind = "json" => Hung(status[s]) = {[id |-> status[s].id, st |-> status[s].st]}
    /\ status[s].kind \in {"absent", "empty"} => Hung(status[s]) = {}

LEMMA FilesShown == Shown
BY DEF Shown, Hung

\* A step that changes nothing a caller sees.
LEMMA Unseen ==
  ASSUME \A j \in Jobs : Phase(j)' = Phase(j) /\ Ticket(j)' = Ticket(j),
         status' = status
  PROVE  UNCHANGED Promise!vars
BY DEF Promise!vars

\* A step that changes what is seen of job j only.
LEMMA SeenOf ==
  ASSUME NEW j \in Jobs, TypeOK,
         \A k \in Jobs \ {j} : pc'[k] = pc[k] /\ id'[k] = id[k] /\ res'[k] = res[k],
         srv' = srv
  PROVE  \A k \in Jobs \ {j} : Phase(k)' = Phase(k) /\ Ticket(k)' = Ticket(k)
BY DEF Phase, Ticket

\* The transitions of JobBoard, from what they look like here.
OthersAsBefore(j) == \A k \in Jobs \ {j} : Phase(k)' = Phase(k) /\ Ticket(k)' = Ticket(k)
OneCard(s, c)     == \A t \in Servers : Hung(status[t])' = IF t = s THEN c ELSE Hung(status[t])

LEMMA SeenTurnAway ==
  ASSUME NEW j \in Jobs, Phase(j) = "new", Phase(j)' = "turned away",
         Ticket(j)' = Ticket(j), OthersAsBefore(j), status' = status
  PROVE  Promise!TurnAway(j)
BY DEF Promise!TurnAway, OthersAsBefore

LEMMA SeenAccept ==
  ASSUME NEW j \in Jobs, NEW s \in Servers, NEW i \in Seconds,
         Phase(j) = "new", Phase(j)' = "accepted", OthersAsBefore(j),
         Ticket(j)' = {[slot |-> s, id |-> i]},
         OneCard(s, {[id |-> i, st |-> "running"]})
  PROVE  Promise!Accept(j)
<1> DEFINE t == [slot |-> s, id |-> i]
<1>1. t \in Promise!Tickets
  BY DEF Promise!Tickets
<1>2. t.slot = s /\ t.id = i
  OBVIOUS
<1>3. Promise!Post(t, "running")
  BY <1>2 DEF Promise!Post, Promise!Card, OneCard
<1>4. [k \in Jobs |-> Ticket(k)]' = [[k \in Jobs |-> Ticket(k)] EXCEPT ![j] = {t}]
  BY DEF OthersAsBefore
<1>5. [k \in Jobs |-> Phase(k)]' = [[k \in Jobs |-> Phase(k)] EXCEPT ![j] = "accepted"]
  BY DEF OthersAsBefore
<1> HIDE DEF t
<1> QED BY <1>1, <1>3, <1>4, <1>5 DEF Promise!Accept

LEMMA SeenEnd ==
  ASSUME NEW j \in Jobs, NEW s \in Servers, NEW i \in Seconds, NEW x \in {"done", "failed"},
         Phase(j) = "accepted", Phase(j)' = x, OthersAsBefore(j),
         Ticket(j) = {[slot |-> s, id |-> i]}, Ticket(j)' = Ticket(j),
         OneCard(s, {[id |-> i, st |-> x]})
  PROVE  Promise!End(j)
<1> DEFINE t == [slot |-> s, id |-> i]
<1>1. t \in [k \in Jobs |-> Ticket(k)][j]
  OBVIOUS
<1>2. t.slot = s /\ t.id = i
  OBVIOUS
<1>3. Promise!Post(t, x)
  BY <1>2 DEF Promise!Post, Promise!Card, OneCard
<1>4. [k \in Jobs |-> Ticket(k)]' = [k \in Jobs |-> Ticket(k)]
  BY DEF OthersAsBefore
<1>5. [k \in Jobs |-> Phase(k)]' = [[k \in Jobs |-> Phase(k)] EXCEPT ![j] = x]
  BY DEF OthersAsBefore
<1> HIDE DEF t
<1> QED BY <1>1, <1>3, <1>4, <1>5 DEF Promise!End

LEMMA SeenBlank ==
  ASSUME NEW j \in Jobs, NEW s \in Servers, NEW i \in Seconds,
         Phase(j) = "new" \/ (Phase(j) = "accepted" /\ Ticket(j) = {[slot |-> s, id |-> i]}),
         \A k \in Jobs : Phase(k)' = Phase(k) /\ Ticket(k)' = Ticket(k),
         OneCard(s, {})
  PROVE  Promise!GoBlank(s)
<1>1. Promise!PostsOn(j, s)
  <2>1. CASE Phase(j) = "accepted" /\ Ticket(j) = {[slot |-> s, id |-> i]}
    <3>1. [slot |-> s, id |-> i] \in [k \in Jobs |-> Ticket(k)][j]
      BY <2>1
    <3>2. [slot |-> s, id |-> i].slot = s
      OBVIOUS
    <3> QED BY <2>1, <3>1, <3>2 DEF Promise!PostsOn
  <2> QED BY <2>1 DEF Promise!PostsOn
<1>2. [t \in Servers |-> Hung(status[t])]' = [[t \in Servers |-> Hung(status[t])] EXCEPT ![s] = {}]
  BY DEF OneCard
<1> QED BY <1>1, <1>2 DEF Promise!GoBlank, Promise!Blank

LEMMA SeenSilence ==
  ASSUME NEW S \in SUBSET Jobs,
         \A j \in S : Phase(j) \in {"new", "accepted"} /\ Phase(j)' = "silent" /\ Ticket(j)' = {},
         \A j \in Jobs \ S : Phase(j)' = Phase(j) /\ Ticket(j)' = Ticket(j),
         status' = status
  PROVE  Promise!FallSilent(S)
BY DEF Promise!FallSilent

\* Where a step takes a job from one place of the code to another.
LEMMA Moves ==
  ASSUME TypeOK, Seen, Seen', NEW j \in Jobs, NEW x, Goto(j, x), UNCHANGED <<srv, status>>,
         \A k \in Jobs \ {j} : id'[k] = id[k] /\ res'[k] = res[k]
  PROVE  /\ OthersAsBefore(j)
         /\ pc'[j] = x
<1>1. pc'[j] = x /\ \A k \in Jobs \ {j} : pc'[k] = pc[k]
  BY DEF Goto, TypeOK
<1> QED BY <1>1, SeenOf DEF OthersAsBefore

\* Every step of the backup jobs is a step of JobBoard, or invisible.
LEMMA PromiseStep ==
  ASSUME IInv, IInv', Decided, Seen, Seen', Shown, Shown', [Next]_vars
  PROVE  [Promise!Next]_(Promise!vars)
<1> USE DEF IInv
<1>1. CASE Elsewhere
  <2>1. \A j \in Jobs : Phase(j)' = Phase(j) /\ Ticket(j)' = Ticket(j)
    BY <1>1 DEF Elsewhere, Phase, Ticket
  <2> QED BY <1>1, <2>1, Unseen DEF Elsewhere
<1>2. ASSUME NEW j \in Jobs, StartBackup(j) PROVE [Promise!Next]_(Promise!vars)
  <2>1. UNCHANGED <<srv, status, res>> /\ \A k \in Jobs \ {j} : id'[k] = id[k]
    BY <1>2 DEF StartBackup, StatServerDir, MakeBackupDir, MintID, TypeOK
  <2>2. /\ pc[j] \in {"idle", "mkdir", "mint"}
        /\ \E x \in {"mkdir", "mint", "lockRun", "refused"} : Goto(j, x)
    BY <1>2 DEF StartBackup, StatServerDir, MakeBackupDir, MintID
  <2>3. PICK x \in {"mkdir", "mint", "lockRun", "refused"} : Goto(j, x)
    BY <2>2
  <2>4. OthersAsBefore(j) /\ pc'[j] = x
    BY <2>1, <2>3, Moves
  <2>5. CASE x = "refused"
    <3>1. Promise!TurnAway(j)
      BY <2>1, <2>2, <2>4, <2>5, SeenTurnAway DEF Seen
    <3> QED BY <3>1 DEF Promise!Next
  <2>6. CASE x # "refused"
    <3>1. Phase(j)' = Phase(j) /\ Ticket(j)' = Ticket(j)
      BY <2>2, <2>4, <2>6 DEF Seen
    <3> QED BY <2>1, <2>4, <3>1, Unseen DEF OthersAsBefore
  <2> QED BY <2>5, <2>6
<1>3. ASSUME NEW j \in Jobs, RunBackup(j) PROVE [Promise!Next]_(Promise!vars)
  <2>1. UNCHANGED <<srv, status, id>> /\ \A k \in Jobs \ {j} : res'[k] = res[k]
    BY <1>3 DEF RunBackup, SpawnPzstd, SpawnOK, SpawnError, SpawnTar, CollectPipeline, TypeOK
  <2>2. /\ pc[j] \in {"spawn", "tar", "wait"}
        /\ \E x \in {"tar", "wait", "lockEnd"} : Goto(j, x)
    BY <1>3 DEF RunBackup, SpawnPzstd, SpawnOK, SpawnError, SpawnTar, CollectPipeline
  <2>3. PICK x \in {"tar", "wait", "lockEnd"} : Goto(j, x)
    BY <2>2
  <2>4. OthersAsBefore(j) /\ pc'[j] = x
    BY <2>1, <2>3, Moves
  <2>5. Phase(j)' = Phase(j) /\ Ticket(j)' = Ticket(j)
    BY <2>1, <2>2, <2>4 DEF Seen, Accepted, TicketFor
  <2> QED BY <2>1, <2>4, <2>5, Unseen DEF OthersAsBefore
<1>4. ASSUME NEW j \in Jobs, WriteFails(j) PROVE [Promise!Next]_(Promise!vars)
  <2>1. UNCHANGED <<srv, status, id, res>>
    BY <1>4 DEF WriteFails, OpenStatusFails, FillStatusFails
  <2>2. pc[j] \in {"lockRun", "lockEnd"} \cup Writing /\ Goto(j, AfterError(j))
    BY <1>4 DEF WriteFails, OpenStatusFails, FillStatusFails
  <2>3. OthersAsBefore(j) /\ pc'[j] = AfterError(j)
    BY <2>1, <2>2, Moves
  <2>4. CASE pc[j] \in {"lockRun", "writeRun"}
    <3>1. Promise!TurnAway(j)
      BY <2>1, <2>3, <2>4, SeenTurnAway DEF Seen, AfterError
    <3> QED BY <3>1 DEF Promise!Next
  <2>5. CASE pc[j] \in {"lockEnd", "writeEnd"}
    <3>1. Phase(j) = "accepted" /\ Phase(j)' = "silent" /\ Ticket(j)' = {}
      BY <2>3, <2>5 DEF Seen, AfterError, Accepted
    <3>2. Promise!FallSilent({j})
      BY <2>1, <2>3, <3>1, SeenSilence DEF OthersAsBefore
    <3> QED BY <3>2 DEF Promise!Next
  <2> QED BY <2>2, <2>4, <2>5 DEF Writing
<1>5. ASSUME NEW j \in Jobs, TruncateStatus(j) PROVE [Promise!Next]_(Promise!vars)
  <2>1. /\ UNCHANGED <<srv, id, res>>
        /\ srv[j] \in Servers /\ id[j] \in Seconds
        /\ \A k \in Jobs \ {j} : pc'[k] = pc[k]
        /\ \/ pc[j] = "lockRun" /\ pc'[j] = "writeRun"
           \/ pc[j] = "lockEnd" /\ pc'[j] = "writeEnd"
    BY <1>5 DEF TruncateStatus, Goto, TypeOK
  <2>2. \A k \in Jobs : Phase(k)' = Phase(k) /\ Ticket(k)' = Ticket(k)
    <3>1. OthersAsBefore(j)
      BY <2>1, SeenOf DEF OthersAsBefore
    <3>2. Phase(j)' = Phase(j) /\ Ticket(j)' = Ticket(j)
      BY <2>1 DEF Seen, Accepted, TicketFor
    <3> QED BY <3>1, <3>2 DEF OthersAsBefore
  <2>3. OneCard(srv[j], {})
    <3>1. \A s \in Servers : status'[s] = IF s = srv[j] THEN EmptyFile ELSE status[s]
      BY <1>5 DEF TruncateStatus, TypeOK
    <3>2. Hung(EmptyFile) = {}
      BY DEF Hung, EmptyFile
    <3> QED BY <3>1, <3>2 DEF OneCard
  <2>4. Phase(j) = "new" \/ (Phase(j) = "accepted" /\ Ticket(j) = {[slot |-> srv[j], id |-> id[j]]})
    BY <2>1 DEF Seen, Accepted, TicketFor
  <2>5. Promise!GoBlank(srv[j])
    BY <2>1, <2>2, <2>3, <2>4, SeenBlank
  <2> QED BY <2>1, <2>5 DEF Promise!Next
<1>6. ASSUME NEW j \in Jobs, FillStatus(j) PROVE [Promise!Next]_(Promise!vars)
  <2>1. /\ UNCHANGED <<srv, id, res>>
        /\ srv[j] \in Servers /\ id[j] \in Seconds
        /\ \A k \in Jobs \ {j} : pc'[k] = pc[k]
        /\ pc[j] \in Writing /\ pc'[j] = AfterWrite(j)
    BY <1>6 DEF FillStatus, Goto, TypeOK
  <2>2. OthersAsBefore(j)
    BY <2>1, SeenOf DEF OthersAsBefore
  <2>3. OneCard(srv[j], {[id |-> NewStatus(j).id, st |-> NewStatus(j).st]})
    <3>1. status[srv[j]].kind = "empty"
      BY <2>1 DEF MutexInv
    <3>2. \A s \in Servers : status'[s] = IF s = srv[j] THEN NewStatus(j) ELSE status[s]
      BY <1>6, <3>1 DEF FillStatus, Written, TypeOK
    <3>3. Hung(NewStatus(j)) = {[id |-> NewStatus(j).id, st |-> NewStatus(j).st]}
      BY DEF Hung, NewStatus, JsonFile
    <3> QED BY <3>2, <3>3 DEF OneCard
  <2>4. CASE pc[j] = "writeRun"
    <3>1. NewStatus(j).id = id[j] /\ NewStatus(j).st = "running"
      BY <2>4 DEF NewStatus, JsonFile
    <3>2. /\ Phase(j) = "new" /\ Phase(j)' = "accepted"
          /\ Ticket(j)' = {[slot |-> srv[j], id |-> id[j]]}
      BY <2>1, <2>4 DEF Seen, AfterWrite, Accepted, TicketFor
    <3>3. Promise!Accept(j)
      BY <2>1, <2>2, <2>3, <3>1, <3>2, SeenAccept
    <3> QED BY <3>3 DEF Promise!Next
  <2>5. CASE pc[j] = "writeEnd"
    <3>1. NewStatus(j).id = id[j] /\ NewStatus(j).st = res[j]
      BY <2>5 DEF NewStatus, JsonFile
    <3>2. /\ Phase(j) = "accepted" /\ Phase(j)' = res[j]
          /\ Ticket(j) = {[slot |-> srv[j], id |-> id[j]]} /\ Ticket(j)' = Ticket(j)
      BY <2>1, <2>5 DEF Seen, AfterWrite, TicketFor
    <3>3. res[j] \in {"done", "failed"}
      BY <2>5 DEF Decided
    <3>4. Promise!End(j)
      BY <2>1, <2>2, <2>3, <3>1, <3>2, <3>3, SeenEnd
    <3> QED BY <3>4 DEF Promise!Next
  <2> QED BY <2>1, <2>4, <2>5 DEF Writing
<1>7. CASE Restart
  <2> DEFINE S == {j \in Jobs : pc[j] \notin {"idle", "refused", "rejected"} \cup Finished}
  <2>1. /\ UNCHANGED <<status, srv, id, res>>
        /\ \A k \in Jobs : pc'[k] = IF k \in S THEN "lost" ELSE pc[k]
    BY <1>7 DEF Restart
  <2>2. \A j \in S : Phase(j) \in {"new", "accepted"} /\ Phase(j)' = "silent" /\ Ticket(j)' = {}
    <3> SUFFICES ASSUME NEW j \in S
                 PROVE  Phase(j) \in {"new", "accepted"} /\ Phase(j)' = "silent" /\ Ticket(j)' = {}
      OBVIOUS
    <3>1. pc'[j] = "lost" /\ j \in Jobs
      BY <2>1
    <3>2. pc[j] \in {"mkdir", "mint", "lockRun", "writeRun", "writeEnd"} \cup Accepted
      BY DEF TypeOK, PcStates, Writing, Finished
    <3> QED BY <3>1, <3>2 DEF Seen
  <2>3. \A j \in Jobs \ S : Phase(j)' = Phase(j) /\ Ticket(j)' = Ticket(j)
    BY <2>1 DEF Phase, Ticket
  <2>4. Promise!FallSilent(S)
    BY <2>1, <2>2, <2>3, SeenSilence
  <2> QED BY <2>4 DEF Promise!Next
<1> QED
  BY <1>1, <1>2, <1>3, <1>4, <1>5, <1>6, <1>7, QuietSteps DEF Next, WriteStatus

\* The initial state shows new jobs and an empty board.
LEMMA PromiseInit == Init => Promise!Init
<1> SUFFICES ASSUME Init PROVE Promise!Init
  OBVIOUS
<1>1. \A j \in Jobs : Phase(j) = "new" /\ Ticket(j) = {}
  BY PlacesSeen DEF Init, Seen
<1>2. \A s \in Servers : Hung(status[s]) = {}
  BY DEF Init, Hung, AbsentFile
<1> QED BY <1>1, <1>2 DEF Promise!Init, Promise!Blank

\* The backup jobs keep the promise to their callers: through replies and status
\* files nobody can tell StartBackup, runBackup and their files from JobBoard.
THEOREM PromiseKept == Spec => KeepsPromise
<1>1. Spec => []Decided
  BY TypeCorrect, DecidedInit, DecidedStep, PTL DEF Spec
<1>2. []Seen /\ []Shown
  BY PlacesSeen, FilesShown, PTL
<1> QED
  BY <1>1, <1>2, Invariance, PromiseInit, PromiseStep, PTL DEF Spec, KeepsPromise, Promise!Spec
=============================================================================
