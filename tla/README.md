# Formal model of filesystem-gateway

filesystem-gateway is an authenticated HTTP API over an NFS volume that holds one
directory per game server. This directory contains TLA+ models of it, TLC
configurations that check them on small instances, and TLAPS proofs. Line numbers
refer to `src/internal/nfs/client.go` unless another file is named.

Contents: [1 inventory](#1-inventory-the-systems-parts) ·
[2 what is hard](#2-what-is-hard-and-what-would-be-correct) ·
[3 modules](#3-modules-and-how-they-correspond-to-the-code) ·
[4 runs](#4-runs) · [5 fairness](#5-fairness) · [6 proofs](#6-proofs) ·
[7 findings](#7-where-code-and-documentation-disagree) ·
[8 abstractions and omissions](#8-abstractions-and-what-is-not-modelled) ·
[9 plan](#9-plan) · [10 how to run](#10-how-to-run)

## 1. Inventory: the system's parts

Nearly all logic is in `src/internal/nfs/client.go` (the *client*, one instance per
process) and `src/internal/api/handlers.go` (the HTTP handlers, one goroutine per
request). The state lives in the file system: `basePath` (the NFS volume with the
server directories), `dataDir` (status files) and the temp directory. In memory
there is only the mutex `c.mu` and the goroutines of running jobs. Configuration,
request validation, authentication and logging keep no state.

| Part | State | Operations | Interacts with |
| --- | --- | --- | --- |
| Backups | `<dataDir>/<server>.backup-status` (one per server), `<server>/backups/<ID>.tar.zst`, goroutines, child processes | StartBackup, runBackup, writeBackupStatus(Direct), GetBackupStatus, ListBackups | server directories, `tar`, `pzstd`, clock, `c.mu` |
| Command pipelines | two child processes and a pipe | runBackup, Restore, extractTarZst, listTarZstContents | backups, restore, downloads |
| Restore | the server's tree | Restore, chownRecursive | backups, the game server's files |
| Downloads | `<dataDir>/<server>.download-<ID>.status`, temp files, goroutines | StartDownload, runDownload, downloadFile, moveFile, GetDownloadStatus | remote HTTP host, server tree, `c.mu` |
| Extraction | the destination tree, running totals | extractZip, extractTarGz, extractTarZst, extractTarReader | downloads |
| Server directories | directory tree | CreateServer, DeleteServer, Migrate, StatServer, ChmodServer | every other part |
| File operations | the server's tree | WriteFile, MoveFile, deletion of a file, mkdirAllOwned | downloads, restore |
| Listing and search | none (read only) | ListServers, ListFiles, ListDir, FindFiles, GrepFiles, DiskUsage | the tree while others change it; `grep`, `du` |
| File reading | none | ReadFile, ReadFileEx | files being appended to or rotated |
| Archive listing | none | ListArchiveContents | archives on the volume |
| HTTP layer | connections (in `net/http`) | routing, requestLogger, bearerAuth, validation, writeJSON, writeError | every part |
| Process life cycle | signals, listener, the 30-second deadline | main, Run, Shutdown, config.Load | cuts answers, loses running jobs |

How they interact:

- **Handlers call the client** directly and synchronously; every handler is stateless.
  A write handler returns when the client does, except for backups and downloads,
  where it returns `202` with an ID as soon as the status file says `running`.
- **Jobs and pollers share status files.** A backup or download goroutine writes its
  outcome to `dataDir`; `GetBackupStatus` / `GetDownloadStatus` read the file without
  taking the mutex. `c.mu` orders status writes among each other and nothing else.
- **Jobs and requests share the tree.** No lock protects a server directory: a backup's
  `tar`, a download's `clean_first`, `DeleteServer`, `Migrate`, file writes and the game
  server itself all work on it at once.
- **Backups and restores run child processes** joined by a pipe that the gateway built.
  Whether they end depends on who holds which end of it.
- **A restart** loses every goroutine, leaves the files, and recovers nothing.

## 2. What is hard, and what would be correct

| Part | Hard behaviour | Correct means | Stated as |
| --- | --- | --- | --- |
| Backups | several jobs per server, IDs of one second, one status file per server, directories renamed under a job, restart in mid-write | `done` is backed by a whole archive until a delete takes it; archives are never overwritten; `running` is owed or explained; an outcome is final; every job ends | `DoneHasArchive`, `OneWriterPerArchive`, `CompleteIsImmutable`, `RunningIsOwed`, `OutcomeIsFinal`, `KeepsPromise`, `EndsOrIsStuck` |
| Command pipelines | one of two processes fails, in either order; descriptors kept open | success means the whole stream went through; it hangs only where it must | `DoneMeansWhole`, `BlockedOnlyByDeath` |
| Restore | merges into a live directory, stops anywhere, is tried again, archives that were never finished | 200 means all of a whole archive is there and owned; a failure leaves a prefix, and lacks only owners once the pipeline ended well; every request is answered | `RestoredIsWhole`, `FailedIsWhole`, `ReplacedInOrder`, `AnsweredOrBlocked` |
| Downloads | overlapping downloads in one directory, deletion under them, three modes, a limit at its boundary | `done` means the files are there and whole; nothing outside the destination is touched; nothing but a file that came after the look is truncated by a download that skips | `DoneIsThere`, `DoneIsClean`, `OnlyInDest`, `SkipKeepsOld`, `EveryDownloadEnds`, `KeepsPromise` |
| Extraction and archive listing | streams cut at any byte, limits that count different things, a dying `pzstd`, no rollback | success means all entries; failure leaves a prefix and has a reason; the limit holds up to an entry | `SuccessIsWhole`, `DiskIsPrefix`, `OvershootIsOneEntry`, `FailedForReason` |
| Listing and search | a tree that changes during the walk, limits, unreadable directories, commands that fail half-way | no duplicates, what was there throughout is listed, `truncated` is truthful | `StillIsExact`, `ListedInOrder`, `SteadyIsListed` |
| Server directories, file operations | checks separated from the operation they guard, requests on names that lie in one another | nothing is lost to a rename; a success is true; ownership goes to what was made | `NothingLost`, `OkMeansDone`, `OldDirsKeepOwner` |
| File reading | the window is computed from an earlier `Stat` of a path | the bytes returned are those asked for; the limits hold | `WindowIsExact`, `WithinLimit` |
| Process life cycle | a request read at the moment its connection is closed, answers that outlive a timeout, handlers that never end | exit 0 leaves no accepted request behind, but for two named cases; a stop costs nobody an answer that could still have come; a stop ends | `CleanExit`, `NothingAnswerableDropped`, `StopEnds` |

Each module has one type invariant besides (`TypeOK`, `RestoreTypeOK`); those of `Restore` and
`GatewayLife` are proved and have no run.

`PROJECT.json` lists every hazard at its line with the properties that cover it.

## 3. Modules, and how they correspond to the code

```
JobBoard  <--refines--  BackupJobs    --- BackupJobsProofs   (TLAPS)
          <--refines--  DownloadJobs  --- DownloadJobsProofs (TLAPS)
CommandPipe <--extends-- Restore      --- RestoreProofs      (TLAPS, of both)
ExtractArchive                        --- ExtractArchiveProofs (TLAPS)
DirWalk                               --- DirWalkProofs      (TLAPS)
ServerDirs                            --- ServerDirsProofs   (TLAPS)
ReadWindow                            --- ReadWindowProofs   (TLAPS)
GatewayLife                           --- GatewayLifeProofs  (TLAPS)
MC<module> : instances for TLC
```

`BackupJobs` treats the pipeline as two processes with a blocking rule (`CanDrain`);
`CommandPipe` models the descriptors and the buffer from which that rule follows, and
`Restore` composes it with the request and the directory, its consumer being a `tar` that
extracts. `DownloadJobs` treats the writing of an archive's entries as a sequence of file
creations; `ExtractArchive` models the loops over the entries themselves. `BackupJobs` has
the steps of a delete that its archives see, `DownloadJobs` takes a delete as one step;
`ServerDirs` takes the server operations apart, system call by system call. `GatewayLife` is the frame in which all of them run: what it calls
`Handle` is one of the other modules, and its exit is their `Restart`.

### JobBoard — the promise to callers (abstract)

What `POST …/backups` and `POST …/download` promise without goroutines, locks or files.
A call is turned away or accepted; acceptance hands out a *ticket* and hangs a card
`running` on the ticket's slot in one step; an accepted job ends at most once, and its
outcome and card appear together, or it falls silent; a card is whole or absent. It has
one `Next` action per transition a caller can see: `Accept`, `TurnAway`, `End`,
`FallSilent` (several jobs at once: a restart), `GoBlank` (the file is truncated).

### BackupJobs — StartBackup, runBackup, GetBackupStatus (1040–1198, 1265–1278)

State: the clock in seconds (`clock`), the directory each name resolves to (`at`), with
directories as inodes so that an open file survives a rename, the archives in each
directory (`arch`), one status file per server (`status`), the mutex (`lock`), and per
job the place in the code (`pc`), its arguments and ID (`srv`, `id`), its processes
(`tar`, `pz`), the directory where `pzstd` opened its output (`dir`) and the outcome
`runBackup` decided on (`res`). A `pzstd` whose output was unlinked goes on writing it: its
`dir` is `NoDir` then, and its success leaves nothing behind.

| Code | Actions |
| --- | --- |
| `StartBackup` 1072–1105 | `StatServerDir`, `MakeBackupDir`, `MintID`, then a status write (`TruncateStatus`, `FillStatus`; failing: `OpenStatusFails`, `FillStatusFails`) |
| `runBackup` 1107–1145 | `SpawnPzstd`, `SpawnTar`, `CollectPipeline`, then a status write |
| `writeBackupStatus(Direct)` 1149–1178, 1265–1278 | the four actions above; `os.WriteFile` is its two system calls, under `lock` |
| `pzstd`, `tar` (external) | `PzstdOpens`, `PzstdFinishes`, `PzstdDies`, `TarFinishes`, `TarDiesEarly` |
| `CreateServer` 374–395 | `CreateServer` (the directory, then `backups`) |
| `DeleteServer` 402–406 | `UnlinkArchive`, `RemoveBackups`, `RemoveServerDir`: the steps of `os.RemoveAll` |
| `Migrate` | `Migrate`, one step |
| process exit (`cmd/server/main.go`) | `Restart` |
| `GetBackupStatus` 1181–1198 | the operator of that name: a read, no step |

`pc` labels: `idle`, `mkdir`, `mint` in the request; `lockRun`/`writeRun` and
`lockEnd`/`writeEnd` around the two halves of a status write; `spawn`, `tar`, `wait` in
the goroutine; then `ended`, `muted` (the last write failed) or `lost` (restart).

### CommandPipe — `tar | pzstd` and `pzstd -d | tar` (1107–1145, 1221–1243)

State: where the gateway stands, the two children, how many chunks are unwritten, in the
pipe and read, and *who holds which end of the pipe*. `StdoutPipe` leaves both ends with
the gateway; `Start` of the producer closes its write end; only `Wait` for the producer
closes its read end. That last rule, of `os/exec`, is why a producer gets no SIGPIPE
when the consumer dies. The module has no run of its own: `Restore` takes all its actions.

### Restore — restoreHandler, Restore, chownRecursive, ListBackups (1039–1069, 1201–1243, 2001–2009)

State beyond the pipe's: where the request stands (`phase`), its answer (`status`), the
archive as a sequence of names and how it ends (`tail`: whole, between two zstd frames, or
inside one), what is under each name of the directory (`dir`: old, changed by the server,
partly written, or restored), which names have got the owner (`owned`) and which the walk of
`chownRecursive` has yet to reach (`todo`).

| Code | Actions |
| --- | --- |
| `restoreHandler` 578–615, `Restore` 1201–1219 | `StartRestore` of anything `ListBackups` offers (`Offered`), `NoBackup` |
| the pipeline 1221–1237 | `RunPipeline`, `PipelineFailed`, over `CommandPipe` |
| `chownRecursive` 2001–2009 | `StartChown`, `ChownNext`, `Restored` |
| `pzstd -d`, `tar -x` (external) | `Decompress`, `OpenEntry`, `FillEntry`, `SkipEntry`, `TarExits`, `ChildDies` |
| the server, other requests | `LiveChange` |

A stuck restore stays stuck; `StartRestore` then stands for the caller's next attempt.

### DownloadJobs — StartDownload … GetDownloadStatus (1281–1503, 1573–1627)

State: the directories and what each file in them holds (`old` from before, `new` from
somebody else meanwhile, the bytes of a job, `created` and still empty, `torn`), one status file per ID, and per job its place,
request, entries left to handle (`todo`), file being written (`cur`), temp file and
outcome.

| Code | Actions |
| --- | --- |
| `StartDownload` 1281–1312 | `MintID`, status write |
| `clean_first` 1316–1338 | `MakeDest`, `ListDest`, `RemoveEntry` (one entry a step), `CleanDone` |
| `mkdirAllOwned`, temp file 1340–1353 | `MakeDest`, `CreateTemp` |
| `downloadFile` 1460–1503 | `Fetch` (with the limit of one byte more), `FetchFails` |
| `moveFile`, extractors 1573–1627 | the look at a name (1580, 1662): `SkipName` or `TakeName`; then `CreateFile` (1597, 1677) or `CreateRefused`; `FillFile` |
| end of `runDownload` 1383–1391 | `PlacedAll` (of a `tar`, also short of its last entries), `ChownAll`, status write |
| every other error return | `StepFails` |
| other requests and the server | `DeleteServer`, `OthersWrite` |

A file is created (truncated) in one step and filled in a later one, so two downloads
may hold it open together; what it then holds is any of the outcomes, or a mixture.

### ExtractArchive — extractZip, extractTarGz, extractTarZst, ListArchiveContents (1629–1914)

One step is one turn of the loop. A tar archive is a stream of blocks; `avail` is where
the stream ends: at the `LimitReader` of `extractTarGz` (1716), at the point where
`pzstd` died, or at its real end. `HeaderCut`, `TrailerCut`, `DataCut` and `AtEnd` say
how `archive/tar` answers there: a cut inside a header, the trailer or data is an error,
a cut in padding or before a header is `io.EOF`. What the destination should hold
(`Expected`) follows the documentation of `skip_existing`; for tar archives in that mode, where
the code overwrites (section 7), it accepts both outcomes. `Ends` and `StreamEnd` lay the archive out
in the stream; running totals are recursive functions over a sequence of numbers (`Sums`).

### DirWalk — ListDir, FindFiles, ListFiles, ListServers, GrepFiles, DiskUsage (361–372, 449–494, 536–669, 736–1017)

One call looks over a tree while `CreatePath` and `RemovePath` change it. `filepath.WalkDir`
has three moments for each entry: its directory is read (`ReadDir`), it is visited and
its `Info` taken (`Visit`), it is read in its turn. `ListFiles`, `ListServers` and the flat
`ListDir` (`Flat`) read one directory and then visit its entries. `GrepFiles` and
`DiskUsage` (`External`) hand the walk to `grep -r` and `du`, which note an error in their
exit code and go on (`broken`); the Go code then drops their output. Filters are a set of
paths that pass (`only`); the depth limit and the entry limit are modelled. `Order` lists the
paths in the order of a walk: whatever it has between a directory and a path in it lies
below the directory (`TreeAssumption`). `Above` and `InOrder` are recursive functions: what a
path lies in, and some paths in order.

### ServerDirs — the requests that change the tree (374–407, 433–448, 1247–1263, 1917–1999; handlers 46–106, 617–660, 699–825)

The tree is a function from directory and name to node (`entry`), so that a directory keeps
its identity when it is renamed; `Walk(p)` gives the nodes that the prefixes of a path lead
to, `There(p)` how much of it is there. Each request is one of the `Calls` of its element of
`Requests` and takes one step per call of the `os` package.

| Code | Actions |
| --- | --- |
| `CreateServer` | `CreateMkdir`, `CreateChown`, `CreateMkBackups`, `CreateChownBackups` |
| `DeleteServer`, `deleteFileHandler` | `Stat`, then `os.RemoveAll`: `Open`, `RemoveEntry`, `Emptied`, `RemoveDir` |
| `Migrate` | `Stat`, `StatNew`, then `os.Rename`: `Lstat`, `DoRename` |
| `ChmodServer` 433–448 | `Stat`, `ChmodServer` |
| `mkdirAllOwned` | `Look`, `Mkdirs`, `ChownNext`, `ChownedAll` |
| `WriteFile`, `MoveFile` | `mkdirAllOwned` of the parent, then `Write`, `ChownFile` or `Lstat`, `DoRename` |
| a failing system call | `Failure`: an answer of 500, or unnoticed where the code looks for `IsNotExist` only, or logs only (`Overlooked`) |

### ReadWindow — ReadFile, ReadFileEx and their handlers (497–519, 671–734; handlers 313–345, 895–975)

A file is a sequence of bytes, each known by the change that wrote it. The read goes
through `Ask` (the handler's limits), `Stat`, `Open`, one `Read` for each `read(2)`,
`Finish`; the others `Grow`, `Replace` or `Remove` the file, or rewrite it in the two halves
of `os.WriteFile` (`WriteOpen`, `WriteFill`). `snap`, `steady` and `grown` are history: the
bytes at the moment of the `Stat`, whether they stayed in place, and what was added.

### GatewayLife — main, Run, Shutdown, the way of a request (`main.go`; `server.go` 22–109; `middleware.go`, `errors.go`)

State: where `main` and the goroutine of `ListenAndServe` stand, the signal, the deadline;
per connection its `http.ConnState`, where its goroutine stands, whether its request
carries the key, how old it is (`age`) and whether it has outlived `WriteTimeout`. Time goes
in ticks of five seconds (`Tick`): a timer of k ticks fires between the k-th after it was set
and the next. `WriteLimit`, `StopLimit` and `NewLimit` are the 15 and 30 seconds of `Run` and
the 5 seconds for which `net/http` spares a new connection (looked at in whole seconds, every
half second, hence two ticks).

| Code | Actions |
| --- | --- |
| `main` 20–77 | `Boot`, `Signal`, `GiveUp` (exit code) |
| `Run` 85–109 | `Listen`, `RunFails`, `StartShutdown`, `Expire` |
| timers | `Tick`, `Expire`, `WriteTimeout` |
| `Shutdown` (external) | `Poll`: close idle connections, return once all are closed |
| a connection (external) | `Accept`, `HangUp`, `ReadRequest` |
| middleware, handlers, `writeJSON` | `Dispatch`, `Handle`, `WriteTimeout`, `WriteAnswer` |

## 4. Runs

| Run | Question | Result |
| --- | --- | --- |
| `BackupJobs_safety` | two backups and two names, with `CreateServer`, the steps of `DeleteServer`, `Migrate`, two seconds, one failure or restart: what do files say, and does it all implement `JobBoard`? | holds, 1,466,336 states |
| `BackupJobs_live` | does every accepted backup end? | yes, or the pipe is stuck; nothing else holds it up |
| `BackupJobs_stuck` | does every backup end? | no, without any failure (section 7) |
| `DownloadJobs_jobs` | two overlapping downloads, one delete, one failure or restart: files, answers, ends, `JobBoard` | holds, 358,323 states |
| `DownloadJobs_tree` | five requests in pairs, over all three modes and two directories, one of them named like a file, with a delete and a file from somebody else: what is removed, replaced, kept | holds, 4,158,095 states |
| `ExtractArchive` | all archives of up to three of seven kinds of entry, three formats, extract and list, every cut, one fault | holds, 521,850 states |
| `ExtractArchive_cut` | does a successful extraction mean all entries? | no (section 7) |
| `DirWalk` | thirteen calls of all seven kinds over every tree on seven paths, two changes, one unreadable directory or file | holds, 231,897 states |
| `Restore` | two restores in a row, of any state of two archives, with one failing child or write and one change by the server | holds, 1,701,923 states |
| `ServerDirs` | three concurrent requests on names that lie in one another, over two trees, one failing call | holds, 435,936 states |
| `ReadWindow` | nine reads, of files below, at and above the limits, with up to four changes | holds, 1,798,099 states |
| `GatewayLife` | two connections of two requests, a signal or a broken listener at any time, all timers: what a stop costs | holds, 128,403 states |

Each property of a passing run is accompanied in its module by a mutated definition (a
dropped guard, an off-by-one, a missing reset; comments say "Mutant"), under which the
run finds the property violated. They show that the property depends on the code.

**Bounds, and why they are enough.**

- *Two jobs.* Jobs interact through the mutex, a status file, an archive path, a
  directory or a file name; each of these is shared by a pair. The invariants of
  `BackupJobs` are proved for any number.
- *Two seconds* (`MaxClock = 1`) give equal and different IDs. Only equality is used.
- *Two names, two directories* give a rename onto a free name, a deletion and a
  re-creation under a running job.
- *One fault* is a failing system call, a dying process or a restart at any one place.
  Each error path of the code ends its job but for the last status write; that a second
  fault strikes that write too is covered by the proofs, which bound no faults.
- *One delete, one file from somebody else* (`MaxDeletes`, `MaxWrites`) in `DownloadJobs`: each
  look of a job at the tree is followed by one step it can be outdated by; proved for any
  number.
- *Two restores, archives of up to three entries, a pipe of one:* an archive cut before,
  in and after each entry; a stream that fills the pipe, and one more chunk behind it; a
  link to nothing (`4`), a file the archive does not hold, one it shares with the directory
  and one it adds. The safety properties of `CommandPipe` and `Restore` are proved for all
  sizes and any number of attempts.
- *Three requests:* every race in `ServerDirs` is a check of one request that a second
  invalidates, and a third decides what is found then; P, P/sub and Q lie in, beside and on
  one another. Eleven nodes are as many
  as these calls can ever need. Proved for any number of requests, names and nodes, and for
  paths of any depth.
- *Sizes 0, 2 and 4, limits 2 and 3, five bytes:* files below, at and above each limit,
  windows shorter than, as long as and longer than the file. Proved for all sizes.
- *Two connections of two requests:* one is cut, idle, late or still at work while the
  other is in another of these states; connections do not interact except through the
  exit. Proved for any number.
- *Blocks of two bytes, limit of four:* entries of no, part of one, and more than one
  block; sums below, at and above the limit; cuts in each part of an entry. Proved for
  archives of any length and all sizes.
- *Seven paths* in `DirWalk` are two directories, one nested level, a link, and siblings
  before and after each directory, which is what the order of a walk depends on. Proved for
  every tree, every limit, and any number of changes and failures.

`CHECK_DEADLOCK FALSE` is set throughout: all calls made, all jobs ended, is a regular
final state. That jobs do not stop earlier is what the liveness properties say.

## 5. Fairness

- `BackupJobs!FairSpec`: weak fairness of each job's status writes, of its goroutine's
  steps, and of its child processes. The Go scheduler runs every runnable goroutine, the
  kernel every runnable process. A job asks for `c.mu` twice in its life, and holders
  release it in every path, so weak fairness suffices for the lock to be granted. Not
  fair: requests, deletions, the clock, failures, restarts.
- `Restore!RestoreSpec`: weak fairness of the request's goroutine (`Handler`), of `pzstd`'s
  regular steps (`Decompress`) and of `tar`'s (`Tar`); nobody has to restore, to retry, to
  die, or to change a file. Restore has no deadline, so the alternative `Blocked` in
  `AnsweredOrBlocked` is an end state, not a delay.
- `DownloadJobs!FairSpec`: as for backups. `RunDownload` contains `FetchFails`, since the
  request carries a deadline (`downloadTimeout`, 1461), so a host that never answers does
  not hold a job up. A backup has no such deadline, which is the difference between
  `EveryDownloadEnds` (holds) and `EveryBackupEnds` (does not).
- `GatewayLife!Spec`: weak fairness of the listening goroutine (`Listen`), of `Run`'s
  `select` (one formula, since either branch will do), of the timer behind `shutdownCtx`
  (`Expire`), of the other timers and of time itself (`WriteTimeout`, `Tick`), of `Shutdown`'s
  polling and of `main`'s exit. Nothing is assumed of handlers, clients or the network:
  `StopEnds` rests on the deadline alone.
- `DirWalk`, `ServerDirs`, `ReadWindow` and `ExtractArchive` state safety only; each
  of their calls is a loop over finitely many entries.

## 6. Proofs

Each theorem rests on the named assumptions of its module's constants alone
(`JobsAssumption`, `BoundsAssumption`, `RequestsAssumption`, `PipeAssumption`, `RestoreAssumption`,
`ReadAssumption`, `LifeAssumption`, `BeforesAssumption`, `ArchivesAssumption`, `SizesAssumption`,
`CallsAssumption`, `TreesAssumption`, `TreeAssumption`). Bounds on changes, faults and attempts
are constants too, so they limit nothing in a theorem.

Every safety property of every passing run is proved, and so are both refinements.

`ExtractArchive`, `ServerDirs` and `DirWalk` compute with recursive functions over sequences of
any length. The induction theorems of the library cannot be used with the provers at hand,
since they take the formula as a parameter. The proofs take its first-order form instead: a
non-empty set of numbers has a least element (`LeastNat`, from the well-foundedness of `<`),
so a set that holds 0 and with each number the next is `Nat` (`NatSet`). The formula to be
shown becomes the set of the numbers it holds for. In the same way each recursive
function is shown to exist, which is what its unfolding rests on (`SumsAdd`, `WalkIs`,
`AboveIs`, `InOrderIs`).

**BackupJobs** (any servers, any jobs, any bounds). No safety property is inductive as it
stands: that `done` has an archive depends on what `tar` and `pzstd` returned when the
record was written, and that on who else may write the same path. The inductive
invariant `IInv` conjoins

- `TypeOK` — the state space;
- `MutexInv` — `c.mu` is held exactly inside a status write, and the file being written
  is the empty one its holder left: the reason that records are never mixed;
- `PipelineInv` — what processes and outcome can be at each place of the code; a
  successful `pzstd` outlived its `tar`;
- `ArchiveInv` and `OneWriterPerArchive` — as long as no delete has taken its file, a live
  `pzstd` has a partial one that is its own, a successful one behind a successful `tar` a
  complete one. Inductive because `pzstd -o` does not open an existing file: this is what
  makes IDs of one second safe for archives, though not for status files;
- `RecordInv` — every terminal record is that of a job which ended with it;
- `NeverGarbled`, `UnreadableOnlyInFlight` (theorems only; no run is spent on them),
  `RunningIsOwed`.

`MutexStep`, `PipelineStep`, `ArchiveStep` and `RecordStep` each take one part through
all actions (`QuietSteps` sorts out the actions that cannot disturb it).

| Theorem | States |
| --- | --- |
| `TypeCorrect` | `Spec => []TypeOK` |
| `DoneIsTrue` | `Spec => []DoneHasArchive` |
| `OneWriter` | `Spec => []OneWriterPerArchive` |
| `StatusFilesWhole` | `Spec => []NeverGarbled` |
| `UnreadableExplained` | `Spec => []UnreadableOnlyInFlight` |
| `RunningExplained` | `Spec => []RunningIsOwed` |
| `OutcomeFinal` | `Spec => []OutcomeIsFinal` |
| `CompleteForever` | `Spec => CompleteIsImmutable` (an action property) |
| `PromiseKept` | `Spec => KeepsPromise`, the refinement of `JobBoard` |

`PromiseKept` is a step simulation under `IInv` and `Decided` (a job about to record an
outcome has one). `PlacesSeen` and `FilesShown` say what a caller sees at each place of
the code; the `Seen…` lemmas turn what a step changes of that into one transition of
`JobBoard`; `PromiseStep` goes through the actions. A status write is two steps there:
truncating makes the slot go blank, writing accepts or ends the job.

**DownloadJobs** (any jobs, files, requests and bounds). `done` is decided from an error
value alone, long after the files were written, in a directory without locks. `IInv`
conjoins `TypeOK`, `MutexInv` and `NeverGarbled` as for backups, and

- `Planned` — what each job still has to write or remove, and has decided, at each place of
  its code; `clean_first` is the only way to the steps that remove;
- `Unwritten` — a name that no other job writes is as before until its job's turn;
- `Opened` — the file a job has open, and the name a skipping job has found missing, hold
  nothing of before, so nothing of before is overwritten by creating or filling it;
- `Placed` — the names a job is through with are there, and if no other download writes
  them its own or skipped;
- `Cleaned` — what a `clean_first` job has listed covers all of before that is there, and
  from the end of its cleaning on nothing of before is;
- `Brought` — what is neither of before nor of others is under a name of a download.

`FileSteps` sorts what a step can do to the files (nothing, removing, creating, filling);
`AloneApart` and `NameApart` say which files such a step cannot meet.

| Theorem | States |
| --- | --- |
| `TypeCorrect` | `Spec => []TypeOK` |
| `DoneDownloadIsThere` | `Spec => []DoneIsThere` |
| `DoneDownloadIsClean` | `Spec => []DoneIsClean` |
| `SkippingKeepsOld`, `DownloadStaysInDest` | `Spec => SkipKeepsOld`, `Spec => OnlyInDest` (action properties) |
| `PromiseKept` | `Spec => KeepsPromise`, the refinement of `JobBoard`, along the argument for backups |

**CommandPipe** (any stream length, any capacity). The invariant says that chunks are
conserved (`Conserved`), which process holds which end at each step (`EndsHeld`,
including that the gateway holds the write end until the producer starts, without which
a consumer could have seen EOF too early), what the gateway has waited for (`Waited`),
and what exit statuses mean (`ExitsTrue`).

| Theorem | States |
| --- | --- |
| `PipeDone` | `Spec => []DoneMeansWhole` |
| `PipeEof` | `Spec => []EofIsComing` |
| `PipeBlocked` | `Spec => []BlockedOnlyByDeath` |

`EofIsComing` is the reason that the consumer's end is only a matter of time.

**Restore** (any archives, layouts, attempts and failures). `RInv` takes over
`CommandPipe`'s invariant, which `PipelineStep` shows for the pipe's steps under the
restriction that a restore begins with fresh descriptors. `Stream` says what part of the
archive is still to come; `InOrder` strengthens `ReplacedInOrder` by what the open entry
looks like; `Told` ties a `tar` that met an error to its exit code; `Owning` follows
`chownRecursive`: what it has yet to reach and what it owns make up all that is there. `Walked`
adds why it stopped: names are reached in order (`MinIsLeast`), and what it was to reach is there
unless the server has changed it.

| Theorem | States |
| --- | --- |
| `RestorePipeDone`, `RestoreBlocked` | `RestoreSpec => []DoneMeansWhole`, `[]BlockedOnlyByDeath` |
| `RestoredWhole` | `RestoreSpec => []RestoredIsWhole` |
| `FailedWhole` | `RestoreSpec => []FailedIsWhole` |
| `RestoreInOrder` | `RestoreSpec => []ReplacedInOrder` |
| `RestoreTypes` | `RestoreSpec => []RestoreTypeOK` |

**ReadWindow** (any sizes, limits, windows and changes). What a read returns depends on
what the file still holds between its `Stat` and its last `read(2)`. `Kept` says that, while
steady, the file begins with the bytes the `Stat` saw and has grown by no more than `grown`;
`Framed` where the window lies and which limits the request has passed; `Filled` what is in
the buffer so far; `Known` that a file that comes to the path is a new one.

| Theorem | States |
| --- | --- |
| `TypeCorrect` | `Spec => []TypeOK` |
| `WindowExact` | `Spec => []WindowIsExact` |
| `LimitsHold` | `Spec => []WithinLimit` |

**GatewayLife** (any number of connections and requests). `CleanExit` needs `Tracked`: what
`Shutdown` sees of a connection against what its goroutine does, which disagree only from
the reading of a header to the change of the connection's state; `Explained`: a lost answer
was late or cut; and `Drained`: what `Poll` found when `Shutdown` returned without error.
`NothingAnswerableDropped` needs `Timed`: during a shutdown a request in hand that is not late
is at most `NewLimit` ticks younger than the shutdown, since connections that bring a new one
are gone by then; so at 30 seconds all are late.

| Theorem | States |
| --- | --- |
| `LifeTypeCorrect` | `Spec => []TypeOK` |
| `NoAnswerDropped` | `Spec => []NothingAnswerableDropped` |
| `ExitIsClean` | `Spec => []CleanExit` |

**ExtractArchive** (any archives, formats, sizes and cuts). `XInv` conjoins `StreamOK` — the
reader stands at the end of an entry, and the stream ends where format and `pzstd` put it;
`DiskOK` — until something fails, the destination is exactly what the entries so far leave
(`Left`, one of the outcomes `Expected` accepts); `Reached` — no entry that leads out has been passed by except where the code does so, and
an end is the end; `Counted` — the running total is at most the bytes of the entries so far,
and in a tar stream at most the position in it. The last is why the `LimitReader` keeps a
`tar.gz` within a byte of the limit. `SumsGrow` and `Layout` say how totals and offsets
grow; `PutKeeps`, `SkipKeeps`, `PassByKeeps`, `MakeDirKeeps` and `ErrorKeeps` take the
invariant through the ways an entry can go.

| Theorem | States |
| --- | --- |
| `ExtractTypes` | `Spec => []TypeOK` |
| `ExtractPrefix` | `Spec => []DiskIsPrefix` |
| `ExtractWhole` | `Spec => []SuccessIsWhole` |
| `ExtractLimit` | `Spec => []OvershootIsOneEntry` |
| `ExtractReason` | `Spec => []FailedForReason` |

**DirWalk** (any tree, call, limits, changes and failures). `IInv` conjoins, besides `TypeOK`,

- `Ordered` — the result is sorted, what is known of (`todo`) is sorted and comes after it,
  and what is known of lies in directories before the first of it. This clause is what lets
  the entries of a directory take its place without a path coming out of order
  (`ExpandOrder`);
- `Known`, `Listed` — what is known of and listed was there; `truncated` is only said of a
  full result that misses something;
- `Steady` — what was there throughout lies in directories that were;
- `Covered` — where nothing has failed, each path that was there throughout and is asked for
  is listed or `ComingIn`: it, or a directory above it, is still known of. Also, no listed
  path is behind one that was left out, which gives `StillIsExact` its prefix
  (`SortedPrefix`).

| Theorem | States |
| --- | --- |
| `WalkTypes` | `Spec => []TypeOK` |
| `WalkInOrder` | `Spec => []ListedInOrder` |
| `WalkMissesNothing` | `Spec => []SteadyIsListed` |
| `WalkExact` | `Spec => []StillIsExact` |

**ServerDirs** (any requests, nested names, trees and bounds). The invariant `Inv` is `TreeInv`
(a forest below `Base`, in which nothing but a directory holds anything) and `ReqInv` (each
request is at a step of its own operation). Three lemmas say what the operations of the
library do to the tree: `MkdirAllGrows` (it is only added to), `UnlinkAges` (entries go, and
new nodes come) and `RenameMoves` (one node moves). Each of the other theorems needs an
invariant of its own on top:

- `OldDirsKeepOwner`: `OldInv` — no prefix that `mkdirAllOwned` has yet to chown is reached
  through nodes that were there when it looked (`IsPath`). Creations and deletions keep this
  (`Ages`): a name that was free can only come to stand for a new node, below which there
  are only new ones (`OldPath`). A rename does not, hence the exception in the property;
- `OkMeansDone`: `CalmInv` and `TargetInv` — while only creations, writes and chmods run beside
  a request, what it found stays at its path (`GrowsAt`). `RivalsInv` (requests that run at
  once know of each other) turns the steps of others into those of its rivals.

| Theorem | States |
| --- | --- |
| `DirsInvariant`, `DirsTypes` | `Spec => []Inv`, `Spec => []TypeOK` |
| `DirsNothingLost` | `Spec => NothingLost` (an action property) |
| `DirsKeepOwner` | `Spec => OldDirsKeepOwner` (an action property) |
| `DirsOkMeansDone` | `Spec => OkMeansDone` (an action property) |

**Model-checked only:** the liveness properties `EndsOrIsStuck`, `EveryDownloadEnds`,
`AnsweredOrBlocked` and `StopEnds`; liveness under fairness is outside the prover's reach.
`EofIsComing` and `BlockedOnlyByDeath` are the safety half of the argument behind the second
and third: what a waiting step waits for cannot be ruled out.

## 7. Where code and documentation disagree

| Run, property | Documentation | Code |
| --- | --- | --- |
| `BackupJobs_stuck`, `EveryBackupEnds` | `client_test.go` 1228–1229: "Wait for the goroutine to complete", "Poll the status file to detect completion." | `tarCmd.Run` (1126) waits with no timeout for a `tar` that blocks on the pipe once `pzstd` is gone; two backups within one second suffice, since the second `pzstd` refuses to overwrite, and so does a delete that comes between the making of the backups directory and `pzstd`'s open |
| `ExtractArchive_cut`, `ExtractedMeansAll` | 79: "zip/tar.gz/tar.zst archives are extracted to destPath." | the `LimitReader` (1716) may cut in padding or before a header; `tar.Reader` reports a regular end, and the rest is missing from a successful extraction |

Three more differences follow from the text of the code alone, and the models contain
them without a run of their own:

- 71: "GetBackupStatus returns the status of a backup by ID.", but there is one status file
  per server (1272): a later backup takes the first one's answer away.
- 231: "ModeSkipExisting skips files that already exist at the destination.", but the tar
  extractors are called without the mode (1621) and overwrite.
- 233: "ModeCleanFirst deletes all contents in dest_path", but a `dest_path` that ends like a
  file name, an existing directory included, stands for its parent (1291), which is emptied.

## 8. Abstractions, and what is not modelled

- Names and paths are atoms or sequences of atoms: no path strings, no `SafePath`, no
  resolution of symbolic links.
- `Migrate` is one step in `BackupJobs`, and `DeleteServer` in `DownloadJobs`; their inner
  races are in `ServerDirs`, which has no jobs. In `BackupJobs` the steps of a delete
  (`UnlinkArchive`, `RemoveBackups`, `RemoveServerDir`) may come at any time and in any number,
  whoever asked for them, so they also stand for the deletion of a single archive.
- `pzstd`'s look for its output and its creation of it are one step (`CanCreate`): an
  assumption on the external program, on which `OneWriterPerArchive` and `CompleteIsImmutable`
  rest.
- `OthersWrite` in `DownloadJobs` makes a file where there is none; that others rewrite or
  remove files there is left out, but for `DeleteServer`. A tar archive that ends early stands
  for the cut of section 7; where it may be cut is in `ExtractArchive`.
- A backup of a nested name is always rejected, since the directory for its status file is
  not made (1272); names are flat in `BackupJobs`.
- An ID is the second it was minted in.
- Contents are who wrote them. A download's temp file is private to its job.
- Ownership is modelled in `Restore` and `ServerDirs`; permissions only as far as
  `ServerDirs` knows which directories a `ChmodServer` has reached. A failing
  `chown` after a backup is only logged, after a download it is a failure (`ChownAll`,
  `StepFails`).
- Time passes only for IDs and in `GatewayLife`, there in ticks of five seconds; goroutines that
  wait for nothing, handlers aside, take no time. `pzstd`'s deadlines in extraction and listing (5 and 2
  minutes) appear as a `pzstd` that dies; that an extraction which fails early leaves its
  `pzstd` blocked until such a deadline (1737) does not appear. The HTTP timeouts are
  `WriteTimeout` and `HangUp` in `GatewayLife`, `grep`'s 30 seconds `TimeOut` in `DirWalk`.
- `os.MkdirAll` is one step in `ServerDirs`, and so is the removal of one entry with all
  below it. An `os.RemoveAll` that meets an error stops there; the real one goes on with the
  other entries and returns the error.
- The destination of `ExtractArchive` is flat: one name per entry, no parents.
- In `Restore` a chunk of the stream is one entry, and a link that leads nowhere is the only
  link. Directories and the entry "." are left out. An archive that ends between two
  frames is taken to end between two entries.
- In `ReadWindow`, device files, sockets and directories that come to the path during
  a read are left out; an initial directory is there.
- A `filepath.WalkDir` whose `ReadDir` fails part-way is taken to yield no children. The
  order of `grep` and `du` is that of a walk.
- `GatewayLife` leaves out clients that leave during a request and handlers that panic;
  both end that connection only.
- `tar`, `pzstd`, `grep`, `du`, `archive/tar`, `os`, `net/http`, pipes: external, modelled
  from how the code uses them and from their documented behaviour.
- Not modelled: `SafePath` and `serverScopedPath`, request validation, redirect checks of
  downloads and configuration (pure functions of single strings, which the unit tests
  cover better than a model over atoms would); the wording of responses and the request
  log; build files; `StatServer` (one system call that reads).

## 9. Plan

The modules, in the order they were built; all exist.

1. `JobBoard`, `BackupJobs`, `BackupJobsProofs` — the program's only concurrent protocol.
2. `CommandPipe` — why backups and restores hang or not.
3. `DownloadJobs`, `DownloadJobsProofs` — the same promise over a shared tree.
4. `ExtractArchive`, `ExtractArchiveProofs` — limits and cut streams.
5. `DirWalk`, `DirWalkProofs` — walks over a changing tree, by the gateway and by commands.
6. `ServerDirs`, `ServerDirsProofs` — checks and what they guard, as interleaved system calls on one tree.
7. `Restore`, `RestoreProofs` (of `CommandPipe` too) — `CommandPipe`'s outcomes, unfinished archives, a live tree.
8. `ReadWindow`, `ReadWindowProofs` — a window computed from an earlier `Stat`.
9. `GatewayLife`, `GatewayLifeProofs` — start, stop, and requests in flight.

Every safety property a run checks is proved. Left to do: what a caller may conclude from an
answer of 500 of the other operations, as `FailedIsWhole` says of a restore.

## 10. How to run

In this directory, a run of section 4 (`PROJECT.json` names its module and configuration):

    tlc -workers 2 -config BackupJobs_safety.cfg MCBackupJobs.tla

and the proofs of a module, from nothing in a few minutes at most:

    tlapm DirWalkProofs.tla
