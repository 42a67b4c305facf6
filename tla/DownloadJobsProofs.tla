------------------------- MODULE DownloadJobsProofs -------------------------
(***************************************************************************)
(* Proofs about DownloadJobs, for all sets of jobs, files and requests and *)
(* all bounds.  What a download leaves behind depends on everything it has *)
(* done before and on everybody else in its directory: IInv follows a      *)
(* job's entries from the fetch to the last one (Planned, Unwritten,       *)
(* Opened, Placed), what clean_first has yet to remove (Cleaned), who      *)
(* brought what is in a directory (Brought), and the mutex.                *)
(***************************************************************************)
EXTENDS DownloadJobs, FiniteSetTheorems, TLAPS

\* c.mu is held just between the two halves of a status write, and the file
\* that is being written is the empty one its holder left there.
MutexInv ==
  \A j \in Jobs :
    /\ lock = j <=> pc[j] \in Writing
    /\ pc[j] \in Writing => status[id[j]].kind = "empty"

NeverGarbled == \A i \in Seconds : status[i].kind # "garbled"

\* What a job still has to do, and has decided, at each place of its code.
PlannedFor(j) ==
  /\ pc[j] \in {"mkclean", "list", "clean"} => req[j].mode = "clean_first"
  /\ pc[j] = "clean" => DestOf(j) = Root \/ todo[j] \subseteq Names
  /\ pc[j] \in {"place", "create", "fill"} => todo[j] \subseteq req[j].names
  /\ pc[j] \in {"create", "fill"} => \E n \in req[j].names \ todo[j] : cur[j] = {n}
  /\ pc[j] \notin {"create", "fill", "lost"} => cur[j] = {}
  /\ pc[j] = "chown" \/ res[j] = "done" =>
       (todo[j] = {} \/ req[j].kind = "tar") /\ cur[j] = {}
  /\ pc[j] \in {"place", "create", "fill", "chown"} => tmp[j] = "whole"
  /\ pc[j] \in {"lockEnd", "writeEnd", "ended"} => res[j] \in {"done", "failed"}
  /\ pc[j] \notin {"lockEnd", "writeEnd", "ended", "muted", "lost"} => res[j] = "none"

Planned == \A j \in Jobs : PlannedFor(j)

\* No download but j writes a name of its own, and j not before its turn.
Waiting(j, n) ==
  \/ pc[j] \in {"idle", "lockRun", "writeRun", "mkclean", "list", "clean", "mkdir", "temp", "fetch"}
  \/ pc[j] \in {"place", "create", "fill"} /\ n \in todo[j]

Unwritten ==
  \A j \in Jobs : \A n \in req[j].names :
    Alone(j, n) /\ Waiting(j, n) => file[DestOf(j)][n] \in {"none", "old", "new"}

\* The name that was found missing, and the file that is open, hold nothing of before.
Truncated(j) ==
  \/ pc[j] = "fill"
  \/ pc[j] = "create" /\ req[j].mode = "skip_existing" /\ req[j].kind # "tar"

Opened ==
  \A j \in Jobs : Truncated(j) => \A n \in cur[j] : file[DestOf(j)][n] # "old"

\* The names a job is through with, where nobody else cleans or deletes.
Through(j) == pc[j] \in {"place", "create", "fill", "chown"} \/ res[j] = "done"

PlacedAt(j, n) ==
  LET x == file[DestOf(j)][n]
  IN  \/ pc[j] = "create" /\ n \in cur[j]
      \/ /\ x # "none"
         /\ Alone(j, n) => IF n \in cur[j] THEN x = "created"
                           ELSE x = j \/ (x \in {"old", "new"} /\ req[j].mode = "skip_existing")

Placed ==
  \A j \in Jobs : Undisturbed(j) /\ Through(j) =>
    \A n \in req[j].names \ todo[j] : PlacedAt(j, n)

\* What is left of before in a destination that is being or has been cleaned.
Past(j) ==
  pc[j] \in {"mkdir", "temp", "fetch", "place", "create", "fill", "chown"} \/ res[j] = "done"

CleanedAt(j) ==
  /\ pc[j] = "clean" => \A n \in Names : file[DestOf(j)][n] = "old" => n \in todo[j]
  /\ Past(j) => \A n \in Names : file[DestOf(j)][n] # "old"

Cleaned == \A j \in Jobs : req[j].mode = "clean_first" => CleanedAt(j)

\* A file that is neither of before nor of others is under a name of a download.
Brought ==
  \A p \in Paths, n \in Names :
    file[p][n] \notin {"none", "old", "new"} => \E k \in Jobs : Places(k, p, n)

IInv == /\ TypeOK /\ MutexInv /\ NeverGarbled /\ Planned
        /\ Unwritten /\ Opened /\ Placed /\ Cleaned /\ Brought

-----------------------------------------------------------------------------
\* What a request is made of, and where it goes.
LEMMA Request ==
  ASSUME TypeOK, NEW j \in Jobs
  PROVE  /\ req[j].path \in Paths /\ req[j].names \subseteq Names
         /\ req[j].kind \in {"file", "zip", "tar"}
         /\ req[j].mode \in {"overwrite", "skip_existing", "clean_first"}
         /\ DestOf(j) \in Paths /\ Root \in Paths
<1>1. req[j] \in AllRequests
  BY RequestsAssumption DEF RequestsAssumption, TypeOK
<1> QED BY <1>1 DEF AllRequests, DestOf, Dest, Paths

\* A step that writes one name of one directory.
Put(p, n, x) == file' = [file EXCEPT ![p] = [@ EXCEPT ![n] = x]]

LEMMA PutOne ==
  ASSUME TypeOK, NEW p \in Paths, NEW n \in Names, NEW x, Put(p, n, x)
  PROVE  /\ x \in Contents => file' \in [Paths -> [Names -> Contents]]
         /\ file'[p][n] = x
         /\ \A q \in Paths, m \in Names : q # p \/ m # n => file'[q][m] = file[q][m]
<1>1. file[p] \in [Names -> Contents] /\ file' = [file EXCEPT ![p] = [file[p] EXCEPT ![n] = x]]
  BY DEF TypeOK, Put
<1>2. x \in Contents => [file[p] EXCEPT ![n] = x] \in [Names -> Contents]
  BY <1>1
<1> QED BY <1>1, <1>2 DEF TypeOK

\* A set of one name, and the empty set.
LEMMA OneName == Cardinality({}) = 0 /\ \A n : Cardinality({n}) = 1
BY FS_EmptySet, FS_Singleton

\* Only a job that creates or fills a file has a name to write.
FillsOne(j) ==
  Cardinality(cur[j]) = (IF pc[j] \in {"create", "fill"} THEN 1 ELSE 0) \/ pc[j] = "lost"

LEMMA StillFillsOne ==
  ASSUME TypeOK, NEW j \in Jobs, NEW x \in PcStates, Goto(j, x), x \notin {"create", "fill"},
         cur' = [cur EXCEPT ![j] = {}] \/ (cur' = cur /\ pc[j] \notin {"create", "fill", "lost"})
  PROVE  /\ cur' \in [Jobs -> SUBSET Names] /\ pc' \in [Jobs -> PcStates]
         /\ \A k \in Jobs : FillsOne(k)'
<1>1. /\ \A k \in Jobs : FillsOne(k)
      /\ cur \in [Jobs -> SUBSET Names] /\ pc \in [Jobs -> PcStates]
  BY DEF TypeOK, FillsOne
<1>2. cur' \in [Jobs -> SUBSET Names] /\ pc' = [pc EXCEPT ![j] = x]
  BY <1>1 DEF Goto
<1>3. FillsOne(j)'
  <2>1. CASE cur' = [cur EXCEPT ![j] = {}]
    <3>1. cur'[j] = {}
      BY <1>1, <2>1
    <3> QED BY <1>1, <1>2, <3>1, OneName DEF FillsOne
  <2>2. CASE cur' = cur /\ pc[j] \notin {"create", "fill", "lost"}
    BY <1>1, <1>2, <2>2 DEF FillsOne
  <2> QED BY <2>1, <2>2
<1>4. ASSUME NEW k \in Jobs, k # j PROVE FillsOne(k)'
  BY <1>1, <1>2, <1>4 DEF FillsOne
<1> QED BY <1>1, <1>2, <1>3, <1>4

\* The state space.
LEMMA TypeInit == Init => TypeOK
<1> SUFFICES ASSUME Init PROVE TypeOK
  OBVIOUS
<1>1. 0 \in Seconds /\ 0 \in 0..MaxDeletes /\ 0 \in 0..MaxWrites /\ 0 \in 0..MaxFaults
  BY BoundsAssumption DEF BoundsAssumption, Seconds
<1>2. AbsentFile \in StatusFiles
  BY DEF AbsentFile, StatusFiles
<1>3. file \in [Paths -> [Names -> Contents]]
  BY DEF Init, Contents
<1> QED BY <1>1, <1>2, <1>3, OneName DEF Init, TypeOK, PcStates

\* Needs Planned for the names that are written to be names of files.
LEMMA TypeStep == TypeOK /\ Planned /\ [Next]_vars => TypeOK'
<1> SUFFICES ASSUME TypeOK, Planned, [Next]_vars PROVE TypeOK'
  OBVIOUS
<1> USE BoundsAssumption DEF TypeOK, BoundsAssumption
<1>1. CASE Tick
  BY <1>1 DEF Tick, Seconds, jobVars, fsVars
<1>2. CASE DeleteServer
  BY <1>2 DEF DeleteServer, jobVars, Contents
<1>8. CASE OthersWrite
  <2>1. PICK p \in dirs, n \in Names : Put(p, n, "new")
    BY <1>8 DEF OthersWrite, Put
  <2>2. /\ writes' \in 0..MaxWrites
        /\ UNCHANGED <<clock, deletes, faults, dirs, status, lock, pc, jobVars>>
    <3>1. writes \in 0..MaxWrites /\ writes < MaxWrites /\ writes' = writes + 1 /\ MaxWrites \in Nat
      BY <1>8 DEF OthersWrite
    <3>2. writes' \in 0..MaxWrites
      BY <3>1
    <3> QED BY <1>8, <3>2 DEF OthersWrite
  <2>3. p \in Paths /\ "new" \in Contents
    BY DEF Contents
  <2>4. file' \in [Paths -> [Names -> Contents]]
    BY <2>1, <2>3, PutOne
  <2>5. \A q \in Paths \ dirs', m \in Names : file'[q][m] = "none"
    <3> SUFFICES ASSUME NEW q \in Paths \ dirs, NEW m \in Names PROVE file'[q][m] = "none"
      BY <2>2
    <3>1. q # p /\ file[q][m] = "none"
      OBVIOUS
    <3>2. file'[q][m] = file[q][m]
      BY <2>1, <2>3, <3>1, PutOne
    <3> QED BY <3>1, <3>2
  <2>6. /\ clock' = clock /\ deletes' = deletes /\ faults' = faults /\ dirs' = dirs
        /\ status' = status /\ lock' = lock /\ pc' = pc /\ req' = req /\ id' = id
        /\ todo' = todo /\ cur' = cur /\ tmp' = tmp /\ res' = res
    BY <2>2 DEF jobVars
  <2> QED BY <2>2, <2>4, <2>5, <2>6
<1>3. CASE Restart
  BY <1>3 DEF Restart, Fault, envVars, fsVars, jobVars, PcStates, Returned
<1>4. ASSUME NEW j \in Jobs, MintID(j) PROVE TypeOK'
  BY <1>4 DEF MintID, Goto, envVars, fsVars, PcStates
<1>5. ASSUME NEW j \in Jobs, WriteStatus(j) \/ WriteFails(j) PROVE TypeOK'
  <2> USE DEF envVars, fsVars, jobVars, Goto, PcStates, Accepted, Working, Writing, Returned
  <2>1. CASE TruncateStatus(j)
    <3>1. EmptyFile \in StatusFiles
      BY DEF EmptyFile, StatusFiles
    <3> QED BY <2>1, <3>1 DEF TruncateStatus, AfterLock
  <2>2. CASE FillStatus(j)
    <3>1. Written(j) \in StatusFiles
      BY DEF Written, NewStatus, Garbled, StatusFiles
    <3> QED BY <2>2, <3>1 DEF FillStatus, AfterWrite, FirstStep
  <2>3. CASE OpenStatusFails(j)
    BY <2>3 DEF OpenStatusFails, AfterError, Fault
  <2>4. CASE FillStatusFails(j)
    BY <2>4 DEF FillStatusFails, AfterError, Fault
  <2> QED BY <1>5, <2>1, <2>2, <2>3, <2>4 DEF WriteStatus, WriteFails
<1>6. ASSUME NEW j \in Jobs, RunDownload(j) \/ StepFails(j) PROVE TypeOK'
  <2> USE DEF envVars, fsVars, jobVars, Goto, PcStates, Accepted, Working
  <2>1. CASE MakeDest(j)
    BY <2>1, Request DEF MakeDest, WithDest
  <2>2. CASE ListDest(j)
    <3>1. Entries(CleanDir(j)) \in SUBSET (Names \cup Paths)
      BY DEF Entries
    <3>2. todo' \in [Jobs -> SUBSET (Names \cup Paths)] /\ res' \in [Jobs -> {"none", "done", "failed"}]
      <4>1. \/ todo' = [todo EXCEPT ![j] = Entries(CleanDir(j))] /\ res' = res
            \/ todo' = todo /\ res' = [res EXCEPT ![j] = "failed"]
        BY <2>2 DEF ListDest, Fail
      <4>2. /\ todo \in [Jobs -> SUBSET (Names \cup Paths)]
            /\ res \in [Jobs -> {"none", "done", "failed"}]
        OBVIOUS
      <4> HIDE DEF TypeOK
      <4> QED BY <3>1, <4>1, <4>2
    <3>5. \/ Goto(j, "clean") /\ cur' = cur /\ pc[j] = "list"
          \/ Goto(j, "lockEnd") /\ cur' = [cur EXCEPT ![j] = {}]
      BY <2>2 DEF ListDest, Fail
    <3>6. "clean" \in PcStates /\ "lockEnd" \in PcStates
      OBVIOUS
    <3>3. (\A k \in Jobs : FillsOne(k)') /\ cur' \in [Jobs -> SUBSET Names] /\ pc' \in [Jobs -> PcStates]
      <4> HIDE DEF TypeOK, Goto, PcStates
      <4>1. CASE Goto(j, "clean") /\ cur' = cur /\ pc[j] = "list"
        BY <3>6, <4>1, StillFillsOne
      <4>2. CASE Goto(j, "lockEnd") /\ cur' = [cur EXCEPT ![j] = {}]
        BY <3>6, <4>2, StillFillsOne
      <4> QED BY <3>5, <4>1, <4>2
    <3> QED BY <2>2, <3>2, <3>3 DEF ListDest, FillsOne
  <2>3. CASE RemoveEntry(j)
    <3>1. PICK e \in todo[j] :
            /\ todo' = [todo EXCEPT ![j] = @ \ {e}]
            /\ \/ e \in Names /\ Put(CleanDir(j), e, "none") /\ UNCHANGED dirs
               \/ /\ e \in Paths /\ dirs' = dirs \ {e}
                  /\ file' = [file EXCEPT ![e] = [n \in Names |-> "none"]]
      BY <2>3 DEF RemoveEntry, Put
    <3>2. UNCHANGED <<envVars, faults, status, lock, pc, req, id, cur, tmp, res>>
      BY <2>3 DEF RemoveEntry
    <3>3. CleanDir(j) \in Paths /\ "none" \in Contents
      BY Request DEF CleanDir, Contents
    <3>4. /\ file' \in [Paths -> [Names -> Contents]]
          /\ dirs' \subseteq Paths /\ \A p \in Paths \ dirs', n \in Names : file'[p][n] = "none"
      <4>1. CASE e \in Names /\ Put(CleanDir(j), e, "none") /\ UNCHANGED dirs
        <5>1. /\ file' \in [Paths -> [Names -> Contents]]
              /\ file'[CleanDir(j)][e] = "none"
              /\ \A q \in Paths, m \in Names :
                   q # CleanDir(j) \/ m # e => file'[q][m] = file[q][m]
          BY <3>3, <4>1, PutOne
        <5>2. \A p \in Paths, n \in Names : file'[p][n] = file[p][n] \/ file'[p][n] = "none"
          BY <5>1
        <5> QED BY <4>1, <5>1, <5>2
      <4>2. CASE /\ e \in Paths /\ dirs' = dirs \ {e}
                 /\ file' = [file EXCEPT ![e] = [n \in Names |-> "none"]]
        BY <3>3, <4>2
      <4> QED BY <3>1, <4>1, <4>2
    <3> QED BY <3>1, <3>2, <3>4
  <2>4. CASE Fetch(j)
    <3>1. /\ todo' \in [Jobs -> SUBSET (Names \cup Paths)]
          /\ tmp' \in [Jobs -> {"none", "whole", "cut"}]
          /\ res' \in [Jobs -> {"none", "done", "failed"}]
      <4>1. \/ res' = [res EXCEPT ![j] = "failed"] /\ UNCHANGED <<todo, tmp>>
            \/ /\ \E x \in {"whole", "cut"} : tmp' = [tmp EXCEPT ![j] = x]
               /\ todo' = [todo EXCEPT ![j] = req[j].names]
               /\ UNCHANGED res
        BY <2>4 DEF Fetch, Fail
      <4>2. req[j].names \in SUBSET (Names \cup Paths)
        BY Request
      <4>3. CASE res' = [res EXCEPT ![j] = "failed"] /\ UNCHANGED <<todo, tmp>>
        BY <4>3
      <4>4. CASE /\ \E x \in {"whole", "cut"} : tmp' = [tmp EXCEPT ![j] = x]
                 /\ todo' = [todo EXCEPT ![j] = req[j].names]
                 /\ UNCHANGED res
        <5> HIDE DEF TypeOK
        <5>1. /\ todo \in [Jobs -> SUBSET (Names \cup Paths)]
              /\ tmp \in [Jobs -> {"none", "whole", "cut"}]
              /\ res \in [Jobs -> {"none", "done", "failed"}]
          BY DEF TypeOK
        <5> QED BY <4>2, <4>4, <5>1
      <4> QED BY <4>1, <4>3, <4>4
    <3>2. \A k \in Jobs : FillsOne(k)'
      BY <2>4, StillFillsOne DEF Fetch, Fail
    <3>3. cur' \in [Jobs -> SUBSET Names] /\ pc' \in [Jobs -> PcStates]
      BY <2>4, StillFillsOne DEF Fetch, Fail
    <3> QED BY <2>4, <3>1, <3>2, <3>3 DEF Fetch, FillsOne
  <2>10. CASE FetchFails(j) \/ CreateRefused(j)
    BY <2>10, StillFillsOne DEF FetchFails, CreateRefused, Fail, FillsOne
  <2>5. CASE SkipName(j)
    BY <2>5 DEF SkipName
  <2>11. CASE TakeName(j)
    <3>1. PICK n \in todo[j] :
            /\ cur' = [cur EXCEPT ![j] = {n}]
            /\ todo' = [todo EXCEPT ![j] = @ \ {n}]
      BY <2>11 DEF TakeName
    <3>2. /\ pc[j] = "place" /\ pc' = [pc EXCEPT ![j] = "create"]
          /\ UNCHANGED <<envVars, faults, fsVars, status, lock, req, id, tmp, res>>
      BY <2>11 DEF TakeName
    <3>3. n \in Names
      BY <3>1, <3>2, Request DEF Planned, PlannedFor
    <3>4. \A k \in Jobs : FillsOne(k)'
      BY <3>1, <3>2, OneName DEF FillsOne
    <3>5. /\ cur' \in [Jobs -> SUBSET Names] /\ todo' \in [Jobs -> SUBSET (Names \cup Paths)]
          /\ pc' \in [Jobs -> PcStates]
      BY <3>1, <3>2, <3>3
    <3> QED BY <3>2, <3>4, <3>5 DEF FillsOne
  <2>6. CASE CreateFile(j)
    <3>1. PICK n \in cur[j] : Put(DestOf(j), n, "created")
      BY <2>6 DEF CreateFile, Put
    <3>2. /\ pc[j] = "create" /\ pc' = [pc EXCEPT ![j] = "fill"] /\ dirs' = WithDest(j)
          /\ UNCHANGED <<envVars, faults, status, lock, jobVars>>
      BY <2>6 DEF CreateFile
    <3>3. n \in Names /\ DestOf(j) \in Paths /\ "created" \in Contents
      BY <3>1, Request DEF Contents
    <3>4. file' \in [Paths -> [Names -> Contents]]
      BY <3>1, <3>3, PutOne
    <3>5. dirs' \subseteq Paths /\ \A p \in Paths \ dirs', m \in Names : file'[p][m] = "none"
      BY <3>1, <3>2, <3>3, PutOne, Request DEF WithDest
    <3>6. \A k \in Jobs : FillsOne(k)'
      BY <3>2 DEF FillsOne
    <3> QED BY <3>2, <3>4, <3>5, <3>6 DEF FillsOne
  <2>7. CASE FillFile(j)
    <3>1. PICK n \in cur[j], x \in Contents : x \in AfterCopy(j, n) /\ Put(DestOf(j), n, x)
      BY <2>7 DEF FillFile, Put
    <3>2. /\ pc[j] = "fill" /\ pc' = [pc EXCEPT ![j] = "place"] /\ cur' = [cur EXCEPT ![j] = {}]
          /\ UNCHANGED <<envVars, faults, dirs, status, lock, req, id, todo, tmp, res>>
      BY <2>7 DEF FillFile
    <3>3. n \in Names /\ DestOf(j) \in Paths
      BY <3>1, Request
    <3>4. DestOf(j) \notin dirs => x = "none"
      BY <3>1, <3>3 DEF AfterCopy
    <3>5. file' \in [Paths -> [Names -> Contents]]
      BY <3>1, <3>3, PutOne
    <3>6. \A p \in Paths \ dirs', m \in Names : file'[p][m] = "none"
      BY <3>1, <3>2, <3>3, <3>4, PutOne
    <3> QED BY <3>2, <3>5, <3>6, OneName
  <2>8. CASE CleanDone(j) \/ CreateTemp(j) \/ PlacedAll(j) \/ ChownAll(j)
    BY <2>8, StillFillsOne
       DEF CleanDone, CreateTemp, PlacedAll, ChownAll, FillsOne
  <2>9. CASE StepFails(j)
    BY <2>9, OneName DEF StepFails, Fail, Fault
  <2> QED BY <1>6, <2>1, <2>2, <2>3, <2>4, <2>5, <2>6, <2>7, <2>8, <2>9,
             <2>10, <2>11
          DEF RunDownload, Clean, Get, Place
<1>7. CASE UNCHANGED vars
  BY <1>7 DEF vars
<1> QED BY <1>1, <1>2, <1>3, <1>4, <1>5, <1>6, <1>7, <1>8 DEF Next

-----------------------------------------------------------------------------
\* The steps of one job, and what they leave of the others.
JobStep(j) == \/ MintID(j) \/ WriteStatus(j) \/ WriteFails(j)
              \/ RunDownload(j) \/ StepFails(j)

OthersStand(j) ==
  /\ UNCHANGED <<clock, deletes, writes, req>>
  /\ \A k \in Jobs \ {j} : /\ pc'[k] = pc[k] /\ id'[k] = id[k] /\ todo'[k] = todo[k]
                           /\ cur'[k] = cur[k] /\ tmp'[k] = tmp[k] /\ res'[k] = res[k]

LEMMA NextSteps ==
  ASSUME [Next]_vars
  PROVE  \/ Tick \/ DeleteServer \/ OthersWrite \/ Restart \/ UNCHANGED vars
         \/ \E j \in Jobs : JobStep(j)
BY DEF Next, JobStep

LEMMA OneAtATime ==
  ASSUME TypeOK, NEW j \in Jobs, JobStep(j)
  PROVE  OthersStand(j)
<1> USE DEF TypeOK, OthersStand, Goto, envVars, fsVars, jobVars
<1>1. CASE MintID(j)
  BY <1>1 DEF MintID
<1>2. CASE WriteStatus(j) \/ WriteFails(j)
  BY <1>2 DEF WriteStatus, WriteFails, TruncateStatus, FillStatus, OpenStatusFails, FillStatusFails
<1>3. CASE Clean(j)
  BY <1>3 DEF Clean, ListDest, RemoveEntry, CleanDone, Fail
<1>4. CASE Get(j)
  BY <1>4 DEF Get, MakeDest, CreateTemp, Fetch, FetchFails, Fail
<1>5. CASE Place(j)
  BY <1>5 DEF Place, SkipName, TakeName, CreateFile, CreateRefused, FillFile, Fail
<1>6. CASE PlacedAll(j) \/ ChownAll(j) \/ StepFails(j)
  BY <1>6 DEF PlacedAll, ChownAll, StepFails, Fail
<1> QED BY <1>1, <1>2, <1>3, <1>4, <1>5, <1>6 DEF JobStep, RunDownload

\* The plan of every job.
LEMMA PlannedInit == Init => Planned
BY DEF Init, Planned, PlannedFor

LEMMA PlannedStep == TypeOK /\ Planned /\ [Next]_vars => Planned'
<1> SUFFICES ASSUME TypeOK, Planned, [Next]_vars PROVE Planned'
  OBVIOUS
<1>1. CASE Tick \/ DeleteServer \/ OthersWrite \/ UNCHANGED vars
  BY <1>1 DEF Tick, DeleteServer, OthersWrite, vars, jobVars, fsVars, Planned, PlannedFor, DestOf
<1>2. CASE Restart
  BY <1>2 DEF Restart, jobVars, Planned, PlannedFor, DestOf, Returned
<1>3. ASSUME NEW j \in Jobs, JobStep(j) PROVE Planned'
  <2>1. OthersStand(j) /\ \A k \in Jobs \ {j} : PlannedFor(k)'
    BY <1>3, OneAtATime DEF OthersStand, Planned, PlannedFor, DestOf
  <2>2. PlannedFor(j)'
    <3>1. PlannedFor(j) /\ req' = req
      BY <2>1 DEF Planned, OthersStand
    <3> USE <3>1 DEF TypeOK, PlannedFor, Goto, jobVars, DestOf
    <3>2. CASE MintID(j)
      BY <3>2 DEF MintID
    <3>3. CASE TruncateStatus(j) \/ FillStatus(j)
      BY <3>3 DEF TruncateStatus, FillStatus, AfterLock, AfterWrite, FirstStep, Writing
    <3>4. CASE OpenStatusFails(j) \/ FillStatusFails(j)
      BY <3>4 DEF OpenStatusFails, FillStatusFails, AfterError, Writing
    <3>5. CASE ListDest(j)
      BY <3>5 DEF ListDest, Fail, Entries, CleanDir
    <3>6. CASE RemoveEntry(j)
      BY <3>6 DEF RemoveEntry
    <3>7. CASE MakeDest(j) \/ CleanDone(j) \/ CreateTemp(j)
      BY <3>7 DEF MakeDest, CleanDone, CreateTemp
    <3>8. CASE Fetch(j)
      BY <3>8, BoundsAssumption DEF BoundsAssumption, Fetch, Fail, Received, ReadLimit
    <3>9. CASE FetchFails(j) \/ CreateRefused(j) \/ StepFails(j)
      BY <3>9 DEF FetchFails, CreateRefused, StepFails, Fail, Working
    <3>10. CASE SkipName(j)
      BY <3>10 DEF SkipName
    <3>11. CASE CreateFile(j)
      BY <3>11 DEF CreateFile
    <3>14. CASE TakeName(j)
      BY <3>14 DEF TakeName
    <3>12. CASE FillFile(j)
      BY <3>12 DEF FillFile
    <3>13. CASE PlacedAll(j) \/ ChownAll(j)
      BY <3>13 DEF PlacedAll, ChownAll
    <3> QED
      BY <1>3, <3>2, <3>3, <3>4, <3>5, <3>6, <3>7, <3>8, <3>9, <3>10, <3>11, <3>12, <3>13, <3>14
         DEF JobStep, WriteStatus, WriteFails, RunDownload, Clean, Get, Place
  <2> QED BY <2>1, <2>2 DEF Planned
<1> QED BY <1>1, <1>2, <1>3, NextSteps

\* Type correctness of the asynchronous downloads: every variable keeps its type,
\* a directory that is gone holds nothing, and a file is open only while it is
\* being filled.
THEOREM TypeCorrect == Spec => []TypeOK
<1>1. Spec => [](TypeOK /\ Planned)
  BY TypeInit, TypeStep, PlannedInit, PlannedStep, PTL DEF Spec
<1> QED BY <1>1, PTL

-----------------------------------------------------------------------------
\* The status files and their mutex.
LEMMA StatusInit == Init => MutexInv /\ NeverGarbled
BY BoundsAssumption DEF BoundsAssumption, Init, MutexInv, NeverGarbled, AbsentFile, Writing

\* Steps that have nothing to do with a status file.
FarFromStatus(j) ==
  pc[j] \notin Writing /\ pc'[j] \notin Writing /\ UNCHANGED <<lock, status>>

LEMMA StatusStep == TypeOK /\ MutexInv /\ NeverGarbled /\ [Next]_vars => MutexInv' /\ NeverGarbled'
<1> SUFFICES ASSUME TypeOK, MutexInv, NeverGarbled, [Next]_vars PROVE MutexInv' /\ NeverGarbled'
  OBVIOUS
<1>1. CASE Tick \/ DeleteServer \/ OthersWrite \/ UNCHANGED vars
  BY <1>1 DEF Tick, DeleteServer, OthersWrite, vars, jobVars, fsVars, MutexInv, NeverGarbled
<1>2. CASE Restart
  BY <1>2, BoundsAssumption
     DEF BoundsAssumption, Restart, jobVars, MutexInv, NeverGarbled, Writing, Returned
<1>3. ASSUME NEW j \in Jobs, JobStep(j) PROVE MutexInv' /\ NeverGarbled'
  <2>1. OthersStand(j)
    BY <1>3, OneAtATime
  <2> USE DEF TypeOK, Goto, jobVars, fsVars, envVars
  <2>2. CASE TruncateStatus(j)
    <3>1. /\ lock = NoJob /\ lock' = j /\ pc'[j] \in Writing /\ id' = id
          /\ status' = [status EXCEPT ![id[j]] = EmptyFile]
          /\ \A k \in Jobs \ {j} : pc'[k] = pc[k]
      BY <2>2 DEF TruncateStatus, CanLock, AfterLock, Writing, StatusKey
    <3>2. \A k \in Jobs : pc[k] \notin Writing
      BY <3>1, BoundsAssumption DEF BoundsAssumption, MutexInv
    <3> QED BY <3>1, <3>2 DEF MutexInv, NeverGarbled, EmptyFile
  <2>3. CASE FillStatus(j)
    <3>1. status[id[j]].kind = "empty" /\ lock = j /\ \A k \in Jobs \ {j} : pc[k] \notin Writing
      BY <2>3 DEF FillStatus, MutexInv
    <3>2. status' = [status EXCEPT ![id[j]] = NewStatus(j)] /\ NewStatus(j).kind = "json"
      BY <2>3, <3>1 DEF FillStatus, Written, StatusKey, NewStatus
    <3>3. lock' = NoJob /\ \A k \in Jobs : pc'[k] \notin Writing
      BY <2>1, <2>3, <3>1
         DEF OthersStand, FillStatus, AfterWrite, FirstStep, Writing
    <3> QED BY <3>2, <3>3, BoundsAssumption DEF BoundsAssumption, MutexInv, NeverGarbled
  <2>4. CASE FillStatusFails(j)
    <3>1. lock = j /\ \A k \in Jobs \ {j} : pc[k] \notin Writing
      BY <2>4 DEF FillStatusFails, MutexInv
    <3>2. lock' = NoJob /\ status' = status /\ \A k \in Jobs : pc'[k] \notin Writing
      BY <2>1, <2>4, <3>1 DEF OthersStand, FillStatusFails, AfterError, Writing
    <3> QED BY <3>2, BoundsAssumption DEF BoundsAssumption, MutexInv, NeverGarbled
  <2>5. CASE MintID(j) \/ OpenStatusFails(j) \/ StepFails(j) \/ RunDownload(j)
    <3>1. FarFromStatus(j)
      <4> USE DEF FarFromStatus, Writing, Fail
      <4>1. CASE MintID(j)
        BY <4>1 DEF MintID
      <4>2. CASE OpenStatusFails(j) \/ StepFails(j)
        BY <4>2 DEF OpenStatusFails, StepFails, AfterError, Working
      <4>3. CASE Clean(j)
        BY <4>3 DEF Clean, ListDest, RemoveEntry, CleanDone
      <4>4. CASE Get(j)
        BY <4>4 DEF Get, MakeDest, CreateTemp, Fetch, FetchFails
      <4>5. CASE Place(j)
        BY <4>5 DEF Place, SkipName, TakeName, CreateFile, CreateRefused, FillFile
      <4>6. CASE PlacedAll(j) \/ ChownAll(j)
        BY <4>6 DEF PlacedAll, ChownAll
      <4> QED BY <2>5, <4>1, <4>2, <4>3, <4>4, <4>5, <4>6 DEF RunDownload
    <3> QED BY <2>1, <3>1 DEF FarFromStatus, OthersStand, MutexInv, NeverGarbled
  <2> QED BY <1>3, <2>2, <2>3, <2>4, <2>5 DEF JobStep, WriteStatus, WriteFails
<1> QED BY <1>1, <1>2, <1>3, NextSteps

-----------------------------------------------------------------------------
\* What a step of a job does to the files: nothing; or it removes an entry of
\* the directory it cleans; or it creates, or fills, one name of its own.
Removes(j) ==
  /\ pc[j] = "clean" /\ RemoveEntry(j)
  /\ \A p \in Paths, n \in Names : file'[p][n] # file[p][n] =>
       /\ file'[p][n] = "none"
       /\ p = DestOf(j) \/ DestOf(j) = Root

Creates(j, n) ==
  /\ pc[j] = "create" /\ CreateFile(j)
  /\ cur[j] = {n} /\ n \in req[j].names \ todo[j]
  /\ Put(DestOf(j), n, "created")

Fills(j, n) ==
  /\ pc[j] = "fill" /\ FillFile(j)
  /\ cur[j] = {n} /\ n \in req[j].names \ todo[j]
  /\ \E x \in AfterCopy(j, n) : Put(DestOf(j), n, x)

LEMMA CreateSteps ==
  ASSUME TypeOK, Planned, NEW j \in Jobs, CreateFile(j)
  PROVE  \E n \in Names : Creates(j, n)
<1>1. pc[j] = "create"
  BY DEF CreateFile
<1>2. PICK n \in req[j].names \ todo[j] : cur[j] = {n}
  BY <1>1 DEF Planned, PlannedFor
<1>3. n \in Names /\ Put(DestOf(j), n, "created")
  BY <1>2, Request DEF CreateFile, Put
<1> QED BY <1>1, <1>2, <1>3 DEF Creates

LEMMA FillSteps ==
  ASSUME TypeOK, Planned, NEW j \in Jobs, FillFile(j)
  PROVE  \E n \in Names : Fills(j, n)
<1>1. pc[j] = "fill"
  BY DEF FillFile
<1>2. PICK n \in req[j].names \ todo[j] : cur[j] = {n}
  BY <1>1 DEF Planned, PlannedFor
<1>3. n \in Names /\ \E x \in AfterCopy(j, n) : Put(DestOf(j), n, x)
  BY <1>2, Request DEF FillFile, Put
<1> QED BY <1>1, <1>2, <1>3 DEF Fills

LEMMA FileSteps ==
  ASSUME TypeOK, Planned, NEW j \in Jobs, JobStep(j)
  PROVE  \/ file' = file
         \/ Removes(j)
         \/ \E n \in Names : Creates(j, n) \/ Fills(j, n)
<1> USE DEF fsVars, envVars, jobVars
<1>1. CASE RemoveEntry(j)
  <2>1. PICK e \in todo[j] :
          \/ e \in Names /\ Put(DestOf(j), e, "none")
          \/ e \in Paths /\ file' = [file EXCEPT ![e] = [n \in Names |-> "none"]]
    BY <1>1 DEF RemoveEntry, Put, CleanDir
  <2>2. pc[j] = "clean" /\ (DestOf(j) = Root \/ todo[j] \subseteq Names)
    BY <1>1 DEF RemoveEntry, Planned, PlannedFor
  <2>3. CASE e \in Names /\ Put(DestOf(j), e, "none")
    <3>1. /\ file'[DestOf(j)][e] = "none"
          /\ \A q \in Paths, m \in Names : q # DestOf(j) \/ m # e => file'[q][m] = file[q][m]
      BY <2>3, Request, PutOne
    <3> QED BY <1>1, <2>2, <3>1 DEF Removes
  <2>4. CASE e \in Paths /\ file' = [file EXCEPT ![e] = [n \in Names |-> "none"]]
    <3>1. DestOf(j) = Root \/ e \notin Paths
      BY <2>2, RequestsAssumption DEF RequestsAssumption
    <3>2. \A p \in Paths, n \in Names : file'[p][n] # file[p][n] => file'[p][n] = "none"
      BY <2>4 DEF TypeOK
    <3> QED BY <1>1, <2>2, <2>4, <3>1, <3>2 DEF Removes
  <2> QED BY <2>1, <2>3, <2>4
<1>2. CASE CreateFile(j) \/ FillFile(j)
  BY <1>2, CreateSteps, FillSteps
<1>4. CASE MintID(j) \/ WriteStatus(j) \/ WriteFails(j) \/ StepFails(j) \/ PlacedAll(j) \/ ChownAll(j)
  BY <1>4 DEF MintID, WriteStatus, WriteFails, StepFails, PlacedAll, ChownAll,
              TruncateStatus, FillStatus, OpenStatusFails, FillStatusFails
<1>5. CASE Get(j) \/ ListDest(j) \/ CleanDone(j) \/ SkipName(j) \/ TakeName(j) \/ CreateRefused(j)
  BY <1>5 DEF Get, MakeDest, CreateTemp, Fetch, FetchFails, ListDest, CleanDone,
              SkipName, TakeName, CreateRefused
<1> QED BY <1>1, <1>2, <1>4, <1>5 DEF JobStep, RunDownload, Clean, Place

\* No step makes a file old again.
LEMMA NoNewOld ==
  ASSUME TypeOK, Planned, NEW j \in Jobs, JobStep(j), NEW p \in Paths, NEW n \in Names,
         file'[p][n] = "old"
  PROVE  file[p][n] = "old"
<1>1. CASE file' = file \/ Removes(j)
  BY <1>1 DEF Removes
<1>2. ASSUME NEW m \in Names, Creates(j, m) PROVE file[p][n] = "old"
  <2>1. Put(DestOf(j), m, "created") /\ DestOf(j) \in Paths
    BY <1>2, Request DEF Creates
  <2> QED BY <2>1, PutOne
<1>3. ASSUME NEW m \in Names, Fills(j, m) PROVE file[p][n] = "old"
  <2>1. PICK x \in AfterCopy(j, m) : Put(DestOf(j), m, x)
    BY <1>3 DEF Fills
  <2>2. x = "old" => file[DestOf(j)][m] = "old"
    BY BoundsAssumption DEF BoundsAssumption, AfterCopy
  <2>3. DestOf(j) \in Paths
    BY Request
  <2> QED BY <2>1, <2>2, <2>3, PutOne
<1> QED BY <1>1, <1>2, <1>3, FileSteps

\* Others fill up what is empty, and touch nothing else.
LEMMA OthersAdd ==
  ASSUME TypeOK, OthersWrite, NEW p \in Paths, NEW n \in Names
  PROVE  file'[p][n] = file[p][n] \/ (file[p][n] = "none" /\ file'[p][n] = "new")
<1>1. PICK q \in dirs, m \in Names : file[q][m] = "none" /\ Put(q, m, "new")
  BY DEF OthersWrite, Put
<1>2. q \in Paths
  BY DEF TypeOK
<1> QED BY <1>1, <1>2, PutOne

LEMMA OthersSteps ==
  ASSUME OthersWrite
  PROVE  UNCHANGED <<deletes, status, lock, pc, jobVars>>
BY DEF OthersWrite

-----------------------------------------------------------------------------
\* What the files hold.
LEMMA FilesInit == Init => Unwritten /\ Opened /\ Placed /\ Cleaned /\ Brought
<1> SUFFICES ASSUME Init PROVE Unwritten /\ Opened /\ Placed /\ Cleaned /\ Brought
  OBVIOUS
<1>1. \A j \in Jobs : /\ DestOf(j) \in Paths /\ req[j].names \subseteq Names
                      /\ pc[j] = "idle" /\ res[j] = "none"
  BY TypeInit, Request DEF Init
<1>2. \A p \in Paths, n \in Names : file[p][n] \in {"none", "old"}
  BY DEF Init
<1>3. Unwritten /\ Brought
  BY <1>1, <1>2 DEF Unwritten, Brought
<1>4. Opened /\ Placed /\ Cleaned
  BY <1>1 DEF Opened, Truncated, Placed, Through, Cleaned, CleanedAt, Past
<1> QED BY <1>3, <1>4

\* A job alone with a name is not met by the others' writes.
LEMMA AloneApart ==
  ASSUME TypeOK, Planned, NEW j \in Jobs, NEW k \in Jobs \ {j}, NEW n \in req[j].names, Alone(j, n),
         NEW m \in Names, Creates(k, m) \/ Fills(k, m)
  PROVE  file'[DestOf(j)][n] = file[DestOf(j)][n]
<1>1. m \in req[k].names /\ \E x : Put(DestOf(k), m, x)
  BY DEF Creates, Fills
<1>2. DestOf(k) # DestOf(j) \/ m # n
  BY <1>1 DEF Alone, Places, DestOf
<1> QED BY <1>1, <1>2, PutOne, Request

\* A name other than the one it writes is not met by a job's own.
LEMMA NameApart ==
  ASSUME TypeOK, NEW j \in Jobs, NEW m \in Names, Creates(j, m) \/ Fills(j, m),
         NEW n \in Names \ {m}
  PROVE  file'[DestOf(j)][n] = file[DestOf(j)][n]
BY PutOne, Request DEF Creates, Fills

\* A job does not come back to the places where a name waits.
LEMMA WaitingBefore ==
  ASSUME TypeOK, Planned, NEW j \in Jobs, NEW k \in Jobs, JobStep(k),
         NEW n \in req[j].names, Waiting(j, n)'
  PROVE  Waiting(j, n)
<1>1. CASE k # j
  BY <1>1, OneAtATime DEF OthersStand, Waiting
<1>2. CASE k = j
  <2> USE <1>2 DEF TypeOK, Goto, Waiting, Fail, jobVars
  <2>1. CASE MintID(j) \/ StepFails(j)
    BY <2>1 DEF MintID, StepFails
  <2>2. CASE WriteStatus(j) \/ WriteFails(j)
    BY <2>2 DEF WriteStatus, WriteFails, TruncateStatus, FillStatus, OpenStatusFails, FillStatusFails,
                AfterLock, AfterWrite, AfterError, FirstStep, Writing
  <2>3. CASE Clean(j)
    BY <2>3 DEF Clean, ListDest, RemoveEntry, CleanDone
  <2>4. CASE Get(j)
    BY <2>4 DEF Get, MakeDest, CreateTemp, Fetch, FetchFails
  <2>5. CASE Place(j)
    BY <2>5 DEF Place, SkipName, TakeName, CreateFile, CreateRefused, FillFile
  <2>6. CASE PlacedAll(j) \/ ChownAll(j)
    BY <2>6 DEF PlacedAll, ChownAll
  <2> QED BY <2>1, <2>2, <2>3, <2>4, <2>5, <2>6 DEF JobStep, RunDownload
<1> QED BY <1>1, <1>2

LEMMA UnwrittenStep == TypeOK /\ Planned /\ Unwritten /\ [Next]_vars => Unwritten'
<1> SUFFICES ASSUME TypeOK, Planned, Unwritten, [Next]_vars PROVE Unwritten'
  OBVIOUS
<1>1. CASE Tick \/ UNCHANGED vars
  BY <1>1 DEF Tick, vars, jobVars, fsVars, Unwritten, Waiting, Alone, Places, DestOf
<1>2. CASE DeleteServer
  BY <1>2, Request DEF DeleteServer, jobVars, Unwritten, Waiting, Alone, Places, DestOf
<1>3. CASE Restart
  BY <1>3 DEF Restart, jobVars, fsVars, Unwritten, Waiting, Alone, Places, DestOf
<1>5. CASE OthersWrite
  <2>1. UNCHANGED <<pc, req, todo>>
    BY <1>5, OthersSteps DEF jobVars
  <2>2. SUFFICES ASSUME NEW j \in Jobs, NEW n \in req[j].names, Alone(j, n), Waiting(j, n)
                 PROVE  file'[DestOf(j)][n] \in {"none", "old", "new"}
    BY <2>1 DEF Unwritten, Waiting, Alone, Places, DestOf
  <2>3. file[DestOf(j)][n] \in {"none", "old", "new"} /\ n \in Names /\ DestOf(j) \in Paths
    BY <2>2, Request DEF Unwritten
  <2>4. \/ file'[DestOf(j)][n] = file[DestOf(j)][n]
        \/ file'[DestOf(j)][n] = "new"
    BY <1>5, <2>3, OthersAdd
  <2> QED BY <2>3, <2>4
<1>4. ASSUME NEW k \in Jobs, JobStep(k) PROVE Unwritten'
  <2>1. req' = req
    BY <1>4, OneAtATime DEF OthersStand
  <2>2. SUFFICES ASSUME NEW j \in Jobs, NEW n \in req[j].names, Alone(j, n), Waiting(j, n)'
                 PROVE  file'[DestOf(j)][n] \in {"none", "old", "new"}
    BY <2>1 DEF Unwritten, Alone, Places, DestOf
  <2>3. Waiting(j, n) /\ file[DestOf(j)][n] \in {"none", "old", "new"}
    BY <1>4, <2>2, WaitingBefore DEF Unwritten
  <2>4. n \in Names /\ DestOf(j) \in Paths
    BY Request
  <2>5. CASE file' = file \/ Removes(k)
    BY <2>3, <2>4, <2>5 DEF Removes
  <2>6. ASSUME NEW m \in Names, Creates(k, m) \/ Fills(k, m)
        PROVE  file'[DestOf(j)][n] \in {"none", "old", "new"}
    <3>1. CASE k # j
      BY <2>2, <2>3, <2>6, <3>1, AloneApart
    <3>2. CASE k = j
      <4>1. pc[j] \in {"create", "fill"} /\ m \notin todo[j]
        BY <2>6, <3>2 DEF Creates, Fills
      <4>2. n \in todo[j]
        BY <2>3, <4>1 DEF Waiting
      <4> QED BY <2>3, <2>4, <2>6, <3>2, <4>1, <4>2, NameApart
    <3> QED BY <3>1, <3>2
  <2> QED BY <1>4, <2>5, <2>6, FileSteps
<1> QED BY <1>1, <1>2, <1>3, <1>4, <1>5, NextSteps

\* How a job comes to the place where nothing of before is under its name.
LEMMA TruncatedBefore ==
  ASSUME TypeOK, Planned, NEW j \in Jobs, JobStep(j), Truncated(j)'
  PROVE  TakeName(j) \/ \E m \in Names : Creates(j, m)
<1>1. pc'[j] \in {"create", "fill"}
  BY DEF Truncated
<1> USE DEF TypeOK, Goto, Fail, jobVars
<1>2. ~MintID(j) /\ ~StepFails(j) /\ ~PlacedAll(j) /\ ~ChownAll(j)
  BY <1>1 DEF MintID, StepFails, PlacedAll, ChownAll
<1>3. ~WriteStatus(j) /\ ~WriteFails(j)
  BY <1>1 DEF WriteStatus, WriteFails, TruncateStatus, FillStatus, OpenStatusFails, FillStatusFails,
              AfterLock, AfterWrite, AfterError, FirstStep, Writing
<1>4. ~Clean(j) /\ ~Get(j)
  BY <1>1 DEF Clean, ListDest, RemoveEntry, CleanDone, Get, MakeDest, CreateTemp, Fetch, FetchFails
<1>5. ~SkipName(j) /\ ~CreateRefused(j) /\ ~FillFile(j)
  BY <1>1 DEF SkipName, CreateRefused, FillFile
<1> QED BY <1>2, <1>3, <1>4, <1>5, CreateSteps DEF JobStep, RunDownload, Place

LEMMA OpenedStep == TypeOK /\ Planned /\ Opened /\ [Next]_vars => Opened'
<1> SUFFICES ASSUME TypeOK, Planned, Opened, [Next]_vars PROVE Opened'
  OBVIOUS
<1>1. CASE Tick \/ UNCHANGED vars
  BY <1>1 DEF Tick, vars, jobVars, fsVars, Opened, Truncated, DestOf
<1>2. CASE DeleteServer
  BY <1>2, Request DEF DeleteServer, jobVars, Opened, Truncated, DestOf, TypeOK
<1>3. CASE Restart
  BY <1>3 DEF Restart, jobVars, fsVars, Opened, Truncated, DestOf
<1>5. CASE OthersWrite
  <2>1. UNCHANGED <<pc, req, cur>>
    BY <1>5, OthersSteps DEF jobVars
  <2>2. SUFFICES ASSUME NEW j \in Jobs, Truncated(j), NEW n \in cur[j]
                 PROVE  file'[DestOf(j)][n] # "old"
    BY <2>1 DEF Opened, Truncated, DestOf
  <2>3. n \in Names /\ DestOf(j) \in Paths /\ file[DestOf(j)][n] # "old"
    BY <2>2, Request DEF TypeOK, Opened
  <2> QED BY <1>5, <2>3, OthersAdd
<1>4. ASSUME NEW k \in Jobs, JobStep(k) PROVE Opened'
  <2>1. OthersStand(k) /\ req' = req
    BY <1>4, OneAtATime DEF OthersStand
  <2>2. SUFFICES ASSUME NEW j \in Jobs, Truncated(j)', NEW n \in cur'[j]
                 PROVE  file'[DestOf(j)][n] # "old"
    BY <2>1 DEF Opened, DestOf
  <2>3. DestOf(j) \in Paths
    BY Request
  <2>4. CASE k # j
    <3>1. Truncated(j) /\ n \in cur[j]
      BY <2>1, <2>2, <2>4 DEF OthersStand, Truncated
    <3>2. n \in Names /\ file[DestOf(j)][n] # "old"
      BY <3>1 DEF TypeOK, Opened
    <3> QED BY <1>4, <2>3, <3>2, NoNewOld
  <2>5. CASE k = j /\ TakeName(j)
    <3>1. PICK m \in todo[j] : ~Skips(j, m) /\ cur' = [cur EXCEPT ![j] = {m}]
      BY <2>5 DEF TakeName
    <3>2. n = m /\ file' = file /\ pc'[j] = "create"
      BY <2>2, <2>5, <3>1 DEF TakeName, TypeOK, Goto, fsVars
    <3>3. req[j].mode = "skip_existing" /\ req[j].kind # "tar"
      BY <2>1, <2>2, <3>2 DEF Truncated
    <3> QED BY <3>1, <3>2, <3>3 DEF Skips
  <2>6. ASSUME NEW m \in Names, k = j, Creates(j, m) PROVE file'[DestOf(j)][n] # "old"
    <3>1. n = m /\ Put(DestOf(j), m, "created")
      BY <2>2, <2>6 DEF Creates, CreateFile, jobVars
    <3>2. file'[DestOf(j)][m] = "created"
      BY <2>3, <3>1, PutOne
    <3> QED BY <3>1, <3>2
  <2> QED BY <1>4, <2>2, <2>4, <2>5, <2>6, TruncatedBefore
<1> QED BY <1>1, <1>2, <1>3, <1>4, <1>5, NextSteps

\* A step of another job leaves j's names as they are to be.
LEMMA PlacedByOther ==
  ASSUME TypeOK, Planned, NEW j \in Jobs, Undisturbed(j), NEW k \in Jobs \ {j}, JobStep(k),
         NEW n \in req[j].names, PlacedAt(j, n)
  PROVE  PlacedAt(j, n)'
<1> DEFINE x == file[DestOf(j)][n]
<1>1. /\ req' = req /\ cur'[j] = cur[j] /\ pc'[j] = pc[j] /\ DestOf(j)' = DestOf(j)
      /\ Alone(j, n)' = Alone(j, n)
  BY OneAtATime DEF OthersStand, DestOf, Alone, Places
<1>2. n \in Names /\ DestOf(j) \in Paths /\ DestOf(k) \in Paths
  BY Request
<1>3. CASE pc[j] = "create" /\ n \in cur[j]
  BY <1>1, <1>3 DEF PlacedAt
<1>4. CASE ~(pc[j] = "create" /\ n \in cur[j])
  <2>0. x # "none"
    BY <1>4 DEF PlacedAt
  <2>1. CASE file' = file
    BY <1>1, <2>1 DEF PlacedAt
  <2>2. CASE Removes(k)
    <3>1. req[k].mode = "clean_first"
      BY <2>2 DEF Removes, Planned, PlannedFor
    <3>2. ~InReach(k, DestOf(j))
      BY <3>1 DEF Undisturbed
    <3>3. file'[DestOf(j)][n] = file[DestOf(j)][n]
      BY <1>2, <2>2, <3>1, <3>2 DEF Removes, InReach
    <3> QED BY <1>1, <3>3 DEF PlacedAt
  <2>3. ASSUME NEW m \in Names, Creates(k, m) \/ Fills(k, m) PROVE x' # "none" /\ (Alone(j, n) => x' = x)
    <3>1. Alone(j, n) => x' = x
      BY <1>1, <2>3, AloneApart
    <3>2. PICK y : Put(DestOf(k), m, y) /\ (y = "created" \/ y \in AfterCopy(k, m))
      BY <2>3 DEF Creates, Fills
    <3>3. CASE DestOf(k) = DestOf(j) /\ m = n
      <4>1. y # "none"
        BY <2>0, <3>2, <3>3, BoundsAssumption DEF BoundsAssumption, AfterCopy
      <4>2. file'[DestOf(j)][n] = y
        BY <1>2, <3>2, <3>3, PutOne
      <4> QED BY <1>1, <3>1, <4>1, <4>2
    <3>4. CASE ~(DestOf(k) = DestOf(j) /\ m = n)
      <4>1. file'[DestOf(j)][n] = file[DestOf(j)][n]
        BY <1>2, <3>2, <3>4, PutOne
      <4> QED BY <1>1, <2>0, <3>1, <4>1
    <3> QED BY <3>3, <3>4
  <2>4. ASSUME x' # "none" /\ (Alone(j, n) => x' = x) PROVE PlacedAt(j, n)'
    BY <1>1, <1>4, <2>4 DEF PlacedAt
  <2> QED BY <2>1, <2>2, <2>3, <2>4, FileSteps
<1> QED BY <1>3, <1>4

\* So do its own.
LEMMA PlacedByItself ==
  ASSUME TypeOK, Planned, Unwritten, NEW j \in Jobs, JobStep(j),
         \A m \in req[j].names \ todo[j] : Through(j) => PlacedAt(j, m),
         Through(j)', NEW n \in req[j].names \ todo'[j]
  PROVE  PlacedAt(j, n)'
<1>1. /\ req' = req /\ DestOf(j)' = DestOf(j) /\ Alone(j, n)' = Alone(j, n)
      /\ n \in Names /\ DestOf(j) \in Paths
  BY OneAtATime, Request DEF OthersStand, DestOf, Alone, Places
<1>2. ~RemoveEntry(j) /\ ~ListDest(j) /\ ~CleanDone(j)
  BY DEF RemoveEntry, ListDest, CleanDone, Planned, PlannedFor, Through, Goto, Fail, TypeOK, jobVars
<1> USE <1>1, <1>2
<1>3. ASSUME Through(j), n \notin todo[j], file' = file, n \notin cur[j], n \notin cur'[j]
      PROVE  PlacedAt(j, n)'
  BY <1>3 DEF PlacedAt
<1>4. CASE MintID(j) \/ StepFails(j) \/ FetchFails(j) \/ CreateRefused(j)
  BY <1>4 DEF MintID, StepFails, FetchFails, CreateRefused, Fail, Goto, Through, Planned, PlannedFor,
              TypeOK, Working
<1>5. CASE WriteStatus(j) \/ WriteFails(j)
  <2>1. Through(j) /\ UNCHANGED <<todo, cur, file>> /\ cur[j] = {}
    BY <1>5 DEF WriteStatus, WriteFails, TruncateStatus, FillStatus, OpenStatusFails, FillStatusFails,
                AfterLock, AfterWrite, AfterError, FirstStep, Goto, Through, TypeOK, jobVars, fsVars, Writing,
                Planned, PlannedFor
  <2> QED BY <1>3, <2>1
<1>6. CASE MakeDest(j) \/ CreateTemp(j)
  BY <1>6 DEF MakeDest, CreateTemp, Goto, Through, Planned, PlannedFor, TypeOK, jobVars
<1>7. CASE Fetch(j)
  <2>1. CASE pc'[j] = "place"
    BY <1>7, <2>1 DEF Fetch, Fail, Goto, TypeOK
  <2>2. CASE pc'[j] # "place"
    BY <1>7, <2>2 DEF Fetch, Fail, Goto, TypeOK, Through
  <2> QED BY <2>1, <2>2
<1>8. CASE PlacedAll(j) \/ ChownAll(j)
  <2>1. Through(j) /\ UNCHANGED <<todo, cur, file>> /\ cur[j] = {}
    BY <1>8 DEF PlacedAll, ChownAll, Through, jobVars, fsVars, Planned, PlannedFor
  <2> QED BY <1>3, <2>1
<1>9. CASE SkipName(j)
  <2>1. PICK m \in todo[j] : Skips(j, m) /\ todo' = [todo EXCEPT ![j] = @ \ {m}]
    BY <1>9 DEF SkipName
  <2>2. pc[j] = "place" /\ cur' = cur /\ cur[j] = {} /\ file' = file /\ Through(j)
    BY <1>9 DEF SkipName, Planned, PlannedFor, fsVars, Through
  <2>3. CASE n = m
    <3>1. file[DestOf(j)][n] # "none" /\ req[j].mode = "skip_existing"
      BY <2>1, <2>3 DEF Skips
    <3>2. Alone(j, n) => file[DestOf(j)][n] \in {"old", "new"}
      BY <2>1, <2>2, <2>3, <3>1 DEF Unwritten, Waiting
    <3> QED BY <2>2, <3>1, <3>2 DEF PlacedAt
  <2>4. CASE n # m
    <3>1. n \notin todo[j]
      BY <2>1, <2>4 DEF TypeOK
    <3> QED BY <1>3, <2>2, <3>1
  <2> QED BY <2>3, <2>4
<1>13. CASE TakeName(j)
  <2>1. PICK m \in todo[j] :
          cur' = [cur EXCEPT ![j] = {m}] /\ todo' = [todo EXCEPT ![j] = @ \ {m}]
    BY <1>13 DEF TakeName
  <2>2. /\ cur[j] = {} /\ cur'[j] = {m} /\ todo'[j] = todo[j] \ {m}
        /\ pc'[j] = "create" /\ file' = file /\ Through(j)
    BY <1>13, <2>1 DEF TakeName, Goto, Planned, PlannedFor, TypeOK, fsVars, Through
  <2>3. CASE n = m
    BY <2>2, <2>3 DEF PlacedAt
  <2>4. CASE n # m
    BY <1>3, <2>2, <2>4
  <2> QED BY <2>3, <2>4
<1>10. ASSUME NEW m \in Names, Creates(j, m) PROVE PlacedAt(j, n)'
  <2>1. /\ cur[j] = {m} /\ cur' = cur /\ todo' = todo /\ Through(j)
        /\ pc'[j] = "fill"
    BY <1>10 DEF Creates, CreateFile, Goto, TypeOK, Through, jobVars
  <2>2. CASE n = m
    <3>1. file'[DestOf(j)][n] = "created"
      BY <1>10, <2>2, PutOne DEF Creates
    <3> QED BY <2>1, <2>2, <3>1 DEF PlacedAt
  <2>3. CASE n # m
    <3>1. file'[DestOf(j)][n] = file[DestOf(j)][n]
      BY <1>10, <2>3, NameApart
    <3>2. PlacedAt(j, n) /\ n \notin cur[j]
      BY <2>1, <2>3
    <3> QED BY <2>1, <3>1, <3>2 DEF PlacedAt
  <2> QED BY <2>2, <2>3
<1>11. ASSUME NEW m \in Names, Fills(j, m) PROVE PlacedAt(j, n)'
  <2>1. /\ pc[j] = "fill" /\ cur[j] = {m} /\ cur'[j] = {} /\ todo' = todo
        /\ tmp[j] = "whole" /\ Through(j)
    BY <1>11 DEF Fills, FillFile, TypeOK, Planned, PlannedFor, Through
  <2>2. PlacedAt(j, n)
    BY <2>1
  <2>3. CASE n = m
    <3>1. PICK y \in AfterCopy(j, n) : Put(DestOf(j), n, y)
      BY <1>11, <2>3 DEF Fills
    <3>2. file'[DestOf(j)][n] = y
      BY <3>1, PutOne
    <3>3. y # "none"
      BY <2>1, <2>2, BoundsAssumption DEF BoundsAssumption, AfterCopy, PlacedAt
    <3>4. ASSUME Alone(j, n) PROVE y = j
      <4>1. file[DestOf(j)][n] = "created"
        BY <2>1, <2>2, <2>3, <3>4 DEF PlacedAt
      <4>2. \A k \in Jobs \ {j} : ~SameTarget(j, k)
        BY <2>1, <2>3, <3>4 DEF Planned, PlannedFor, SameTarget, Alone, Places, DestOf
      <4> QED BY <2>1, <3>1, <4>1, <4>2 DEF AfterCopy
    <3> QED BY <2>1, <3>2, <3>3, <3>4 DEF PlacedAt
  <2>4. CASE n # m
    <3>1. file'[DestOf(j)][n] = file[DestOf(j)][n]
      BY <1>11, <2>4, NameApart
    <3> QED BY <2>1, <2>2, <2>4, <3>1 DEF PlacedAt
  <2> QED BY <2>3, <2>4
<1>12. CASE CreateFile(j) \/ FillFile(j)
  BY <1>10, <1>11, <1>12, CreateSteps, FillSteps
<1> QED
  BY <1>4, <1>5, <1>6, <1>7, <1>8, <1>9, <1>12, <1>13 DEF JobStep, RunDownload, Clean, Get, Place

LEMMA PlacedStep ==
  TypeOK /\ Planned /\ Unwritten /\ Placed /\ [Next]_vars => Placed'
<1> SUFFICES ASSUME TypeOK, Planned, Unwritten, Placed, [Next]_vars PROVE Placed'
  OBVIOUS
<1>1. CASE Tick \/ UNCHANGED vars
  BY <1>1 DEF Tick, vars, jobVars, fsVars, Placed, PlacedAt, Undisturbed, InReach, Through, Alone,
              Places, DestOf
<1>2. CASE DeleteServer
  BY <1>2 DEF DeleteServer, Placed, Undisturbed, TypeOK
<1>3. CASE Restart
  <2>1. UNCHANGED <<deletes, file, req, todo, cur, res>>
    BY <1>3 DEF Restart, envVars, jobVars, fsVars
  <2>2. ASSUME NEW j \in Jobs, Through(j)' PROVE Through(j) /\ cur[j] = {}
    BY <1>3, <2>1, <2>2 DEF Restart, Through, Returned, Planned, PlannedFor
  <2> QED BY <2>1, <2>2 DEF Placed, PlacedAt, Undisturbed, InReach, Alone, Places, DestOf
<1>5. CASE OthersWrite
  <2>1. UNCHANGED <<deletes, pc, req, todo, cur, res>>
    BY <1>5, OthersSteps DEF jobVars
  <2>2. SUFFICES ASSUME NEW j \in Jobs, Undisturbed(j), Through(j), NEW n \in req[j].names \ todo[j]
                 PROVE  PlacedAt(j, n)'
    BY <2>1 DEF Placed, Undisturbed, InReach, Through, DestOf
  <2>3. PlacedAt(j, n) /\ n \in Names /\ DestOf(j) \in Paths
    BY <2>2, Request DEF Placed
  <2>4. file[DestOf(j)][n] # "none" => file'[DestOf(j)][n] = file[DestOf(j)][n]
    BY <1>5, <2>3, OthersAdd
  <2> QED BY <2>1, <2>3, <2>4 DEF PlacedAt, Alone, Places, DestOf
<1>4. ASSUME NEW k \in Jobs, JobStep(k) PROVE Placed'
  <2>1. OthersStand(k)
    BY <1>4, OneAtATime
  <2>2. SUFFICES ASSUME NEW j \in Jobs, Undisturbed(j), Through(j)', NEW n \in req[j].names \ todo'[j]
                 PROVE  PlacedAt(j, n)'
    BY <2>1 DEF OthersStand, Placed, Undisturbed, InReach, DestOf
  <2>3. CASE k # j
    <3>1. PlacedAt(j, n)
      BY <2>1, <2>2, <2>3 DEF OthersStand, Placed, Through
    <3> QED BY <1>4, <2>2, <2>3, <3>1, PlacedByOther
  <2>4. CASE k = j
    BY <1>4, <2>2, <2>4, PlacedByItself DEF Placed
  <2> QED BY <2>3, <2>4
<1> QED BY <1>1, <1>2, <1>3, <1>4, <1>5, NextSteps

\* A destination that a job cleans: from the listing to the end.
LEMMA CleanedByItself ==
  ASSUME TypeOK, Planned, NEW j \in Jobs, req[j].mode = "clean_first", CleanedAt(j), JobStep(j)
  PROVE  CleanedAt(j)'
<1>1. /\ req' = req /\ DestOf(j)' = DestOf(j) /\ DestOf(j) \in Paths
      /\ \A n \in Names : file'[DestOf(j)][n] = "old" => file[DestOf(j)][n] = "old"
  BY OneAtATime, Request, NoNewOld DEF OthersStand, DestOf
<1>2. PlannedFor(j)
  BY DEF Planned
<1>0. ASSUME Past(j)' => Past(j), pc'[j] # "clean" PROVE CleanedAt(j)'
  BY <1>0, <1>1 DEF CleanedAt
<1> USE <1>2 DEF TypeOK, Goto, Fail, jobVars, fsVars, PlannedFor
<1>3. CASE MintID(j) \/ StepFails(j)
  <2>1. pc'[j] # "clean" /\ ~Past(j)'
    BY <1>3 DEF MintID, StepFails, Past, Working
  <2> QED BY <1>0, <2>1
<1>4. CASE WriteStatus(j) \/ WriteFails(j)
  <2>1. pc'[j] # "clean" /\ (Past(j)' => Past(j))
    BY <1>1, <1>4 DEF WriteStatus, WriteFails, TruncateStatus, FillStatus, OpenStatusFails,
                FillStatusFails, AfterLock, AfterWrite, AfterError, FirstStep, Writing, Past
  <2> QED BY <1>0, <2>1
<1>5. CASE ListDest(j)
  BY <1>1, <1>5 DEF ListDest, Entries, CleanDir, CleanedAt, Past
<1>6. CASE RemoveEntry(j)
  <2>1. PICK e \in todo[j] :
          /\ todo' = [todo EXCEPT ![j] = @ \ {e}]
          /\ \/ e \in Names /\ Put(DestOf(j), e, "none")
             \/ e \in Paths /\ file' = [file EXCEPT ![e] = [n \in Names |-> "none"]]
    BY <1>6 DEF RemoveEntry, Put, CleanDir
  <2>2. pc[j] = "clean" /\ pc'[j] = "clean" /\ res'[j] = "none" /\ todo'[j] = todo[j] \ {e}
    BY <1>6, <2>1 DEF RemoveEntry
  <2>3. ASSUME NEW n \in Names, file'[DestOf(j)][n] = "old" PROVE n \in todo[j] \ {e}
    <3>1. n \in todo[j]
      BY <1>1, <2>2, <2>3 DEF CleanedAt
    <3>2. CASE e \in Names /\ Put(DestOf(j), e, "none")
      BY <1>1, <2>3, <3>1, <3>2, PutOne
    <3>3. CASE e \in Paths
      BY <3>1, <3>3, RequestsAssumption DEF RequestsAssumption
    <3> QED BY <2>1, <3>2, <3>3
  <2> QED BY <1>1, <2>2, <2>3 DEF CleanedAt, Past
<1>7. CASE CleanDone(j)
  <2>1. pc[j] = "clean" /\ todo[j] = {} /\ pc'[j] = "mkdir"
    BY <1>7 DEF CleanDone
  <2> QED BY <1>1, <2>1 DEF CleanedAt
<1>8. CASE Get(j)
  <2>1. pc'[j] # "clean" /\ (Past(j)' => Past(j))
    BY <1>8 DEF Get, MakeDest, CreateTemp, Fetch, FetchFails, Past
  <2> QED BY <1>0, <2>1
<1>9. CASE Place(j) \/ PlacedAll(j) \/ ChownAll(j)
  <2>1. pc'[j] # "clean" /\ (Past(j)' => Past(j))
    BY <1>9 DEF Place, SkipName, TakeName, CreateFile, CreateRefused, FillFile, PlacedAll, ChownAll, Past
  <2> QED BY <1>0, <2>1
<1> QED
  BY <1>3, <1>4, <1>5, <1>6, <1>7, <1>8, <1>9 DEF JobStep, RunDownload, Clean

LEMMA CleanedStep == TypeOK /\ Planned /\ Cleaned /\ [Next]_vars => Cleaned'
<1> SUFFICES ASSUME TypeOK, Planned, Cleaned, [Next]_vars PROVE Cleaned'
  OBVIOUS
<1>1. CASE Tick \/ UNCHANGED vars
  BY <1>1 DEF Tick, vars, jobVars, fsVars, Cleaned, CleanedAt, Past, DestOf
<1>2. CASE DeleteServer
  <2>1. \A j \in Jobs : DestOf(j) \in Paths /\ DestOf(j)' = DestOf(j)
    BY <1>2, Request DEF DeleteServer, jobVars, DestOf
  <2> QED BY <1>2, <2>1 DEF DeleteServer, jobVars, Cleaned, CleanedAt, Past
<1>3. CASE Restart
  BY <1>3 DEF Restart, jobVars, fsVars, Returned, Cleaned, CleanedAt, Past, DestOf
<1>5. CASE OthersWrite
  <2>1. UNCHANGED <<pc, req, todo, res>>
    BY <1>5, OthersSteps DEF jobVars
  <2>2. \A j \in Jobs, n \in Names : file'[DestOf(j)][n] = "old" => file[DestOf(j)][n] = "old"
    BY <1>5, OthersAdd, Request
  <2> QED BY <2>1, <2>2 DEF Cleaned, CleanedAt, Past, DestOf
<1>4. ASSUME NEW k \in Jobs, JobStep(k) PROVE Cleaned'
  <2>1. OthersStand(k)
    BY <1>4, OneAtATime
  <2>2. SUFFICES ASSUME NEW j \in Jobs, req[j].mode = "clean_first" PROVE CleanedAt(j)'
    BY <2>1 DEF OthersStand, Cleaned
  <2>3. CleanedAt(j)
    BY <2>2 DEF Cleaned
  <2>4. CASE k = j
    BY <1>4, <2>2, <2>3, <2>4, CleanedByItself
  <2>5. CASE k # j
    <3>1. /\ pc'[j] = pc[j] /\ res'[j] = res[j] /\ todo'[j] = todo[j]
          /\ DestOf(j)' = DestOf(j) /\ DestOf(j) \in Paths
      BY <2>1, <2>5, Request DEF OthersStand, DestOf
    <3>2. \A n \in Names : file'[DestOf(j)][n] = "old" => file[DestOf(j)][n] = "old"
      BY <1>4, <3>1, NoNewOld
    <3> QED BY <2>3, <3>1, <3>2 DEF CleanedAt, Past
  <2> QED BY <2>4, <2>5
<1> QED BY <1>1, <1>2, <1>3, <1>4, <1>5, NextSteps

LEMMA BroughtStep == TypeOK /\ Planned /\ Brought /\ [Next]_vars => Brought'
<1> SUFFICES ASSUME TypeOK, Planned, Brought, [Next]_vars,
                    NEW p \in Paths, NEW n \in Names, file'[p][n] \notin {"none", "old", "new"}
             PROVE  \E k \in Jobs : Places(k, p, n)'
  BY DEF Brought
<1>0. req' = req /\ (file'[p][n] = file[p][n] => \E k \in Jobs : Places(k, p, n)')
  <2>1. req' = req
    <3>1. CASE \E j \in Jobs : JobStep(j)
      BY <3>1, OneAtATime DEF OthersStand
    <3> QED BY <3>1, NextSteps DEF Tick, DeleteServer, OthersWrite, Restart, vars, jobVars
  <2> QED BY <2>1 DEF Brought, Places
<1>1. CASE Tick \/ Restart \/ UNCHANGED vars
  BY <1>0, <1>1 DEF Tick, Restart, vars, fsVars
<1>2. CASE DeleteServer
  BY <1>2 DEF DeleteServer
<1>3. CASE OthersWrite
  BY <1>0, <1>3, OthersAdd
<1>4. ASSUME NEW j \in Jobs, JobStep(j) PROVE \E k \in Jobs : Places(k, p, n)'
  <2>1. CASE file' = file \/ Removes(j)
    BY <1>0, <2>1 DEF Removes
  <2>2. ASSUME NEW m \in Names, Creates(j, m) \/ Fills(j, m) PROVE \E k \in Jobs : Places(k, p, n)'
    <3>1. (\E x : Put(DestOf(j), m, x)) /\ m \in req[j].names /\ DestOf(j) \in Paths
      BY <2>2, Request DEF Creates, Fills
    <3>2. CASE p = DestOf(j) /\ n = m
      BY <1>0, <3>1, <3>2 DEF Places, DestOf
    <3>3. CASE ~(p = DestOf(j) /\ n = m)
      BY <1>0, <3>1, <3>3, PutOne
    <3> QED BY <3>2, <3>3
  <2> QED BY <1>4, <2>1, <2>2, FileSteps
<1> QED BY <1>1, <1>2, <1>3, <1>4, NextSteps

-----------------------------------------------------------------------------
\* The inductive invariant, and what it shows.
LEMMA InvInit == Init => IInv
BY TypeInit, PlannedInit, StatusInit, FilesInit DEF IInv

LEMMA InvStep == IInv /\ [Next]_vars => IInv'
BY TypeStep, PlannedStep, StatusStep, UnwrittenStep, OpenedStep, PlacedStep, CleanedStep, BroughtStep
   DEF IInv

THEOREM Invariance == Spec => []IInv
BY InvInit, InvStep, PTL DEF Spec

\* Where nobody else cleans or deletes, a download that is done has all its names
\* in place, those behind the cut of a tar archive aside, and one that no other
\* download writes is whole and its own or was to be skipped: however moveFile, the
\* extractors, other downloads and writers of other kinds were interleaved.
THEOREM DoneDownloadIsThere == Spec => []DoneIsThere
<1>1. IInv => DoneIsThere
  <2> SUFFICES ASSUME IInv, NEW j \in Jobs, res[j] = "done", Undisturbed(j), NEW n \in req[j].names
               PROVE  IsThere(j, n) \/ (req[j].kind = "tar" /\ n \in todo[j])
    BY DEF DoneIsThere
  <2>1. (todo[j] = {} \/ req[j].kind = "tar") /\ cur[j] = {}
    BY DEF IInv, Planned, PlannedFor
  <2>2. n \notin todo[j] => PlacedAt(j, n)
    BY <2>1 DEF IInv, Placed, Through
  <2>3. n \notin todo[j] => IsThere(j, n)
    BY <2>1, <2>2 DEF PlacedAt, IsThere
  <2> QED BY <2>1, <2>3
<1> QED BY <1>1, Invariance, PTL

\* clean_first followed by "done" leaves nothing of before in the destination:
\* what it holds was brought by a download or put there by others, whatever works
\* beside it, fails, is deleted or restarted in between.
THEOREM DoneDownloadIsClean == Spec => []DoneIsClean
<1>1. IInv => DoneIsClean
  <2> SUFFICES ASSUME IInv, NEW j \in Jobs, res[j] = "done", req[j].mode = "clean_first", NEW n \in Names
               PROVE  LET x == file[DestOf(j)][n]
                      IN  /\ x # "old"
                          /\ x \notin {"none", "new"} => \E k \in Jobs : Places(k, DestOf(j), n)
    BY DEF DoneIsClean
  <2>1. file[DestOf(j)][n] # "old"
    BY DEF IInv, Cleaned, CleanedAt, Past
  <2>2. DestOf(j) \in Paths
    BY Request DEF IInv
  <2> QED BY <2>1, <2>2 DEF IInv, Brought
<1> QED BY <1>1, Invariance, PTL

\* A download that skips what exists never truncates a file of before, although
\* its look at a name and its create are two steps between which others write: what
\* it may truncate there is a file that came after the look.  Only overwriting,
\* cleaning and the extractor of tar archives take a file of before.
THEOREM SkippingKeepsOld == Spec => SkipKeepsOld
<1>1. ASSUME IInv, [Next]_vars, deletes' = deletes, NEW p \in Paths, NEW n \in Names,
             file[p][n] \in {"old", "new"}, file'[p][n] # file[p][n]
      PROVE  \E j \in Jobs : pc[j] \in Working /\ Takes(j, p, n)
  <2> USE <1>1 DEF IInv
  <2>1. ~(Tick \/ Restart \/ UNCHANGED vars \/ DeleteServer)
    BY DEF Tick, Restart, vars, fsVars, DeleteServer, TypeOK
  <2>2. ~OthersWrite
    BY OthersAdd
  <2>3. PICK j \in Jobs : JobStep(j)
    BY <2>1, <2>2, NextSteps
  <2>4. CASE Removes(j)
    <3>1. req[j].mode = "clean_first" /\ pc[j] = "clean"
      BY <2>4 DEF Removes, Planned, PlannedFor
    <3>2. InReach(j, p)
      BY <2>4, <3>1 DEF Removes, InReach
    <3> QED BY <3>1, <3>2 DEF Takes, Working
  <2>5. ASSUME NEW m \in Names, Creates(j, m) PROVE pc[j] \in Working /\ Takes(j, p, n)
    <3>1. /\ pc[j] = "create" /\ cur[j] = {m} /\ m \in req[j].names
          /\ Put(DestOf(j), m, "created") /\ DestOf(j) \in Paths
      BY <2>5, Request DEF Creates
    <3>2. DestOf(j) = p /\ m = n
      BY <3>1, PutOne
    <3>3. Places(j, p, n) /\ InReach(j, p)
      BY <3>1, <3>2 DEF Places, InReach, DestOf
    <3>4. CASE req[j].mode = "skip_existing" /\ req[j].kind # "tar"
      <4>1. file[p][n] # "old"
        BY <3>1, <3>2, <3>4 DEF Opened, Truncated
      <4> QED BY <3>1, <3>3, <4>1 DEF Takes, Working
    <3>5. CASE req[j].mode # "skip_existing" \/ req[j].kind = "tar"
      BY <3>1, <3>3, <3>5, Request DEF Takes, Working
    <3> QED BY <3>4, <3>5
  <2>6. ASSUME NEW m \in Names, Fills(j, m) PROVE FALSE
    <3>1. PICK x \in AfterCopy(j, m) : Put(DestOf(j), m, x)
      BY <2>6 DEF Fills
    <3>2. DestOf(j) \in Paths
      BY Request
    <3>3. DestOf(j) = p /\ m = n /\ file'[p][n] = x
      BY <3>1, <3>2, PutOne
    <3> QED BY <3>1, <3>3 DEF AfterCopy
  <2> QED BY <2>3, <2>4, <2>5, <2>6, FileSteps
<1>2. IInv /\ [Next]_vars =>
        [deletes' = deletes =>
           \A p \in Paths, n \in Names :
             file[p][n] \in {"old", "new"} /\ file'[p][n] # file[p][n] =>
               \E j \in Jobs : pc[j] \in Working /\ Takes(j, p, n)]_vars
  BY <1>1
<1> QED BY <1>2, Invariance, PTL DEF Spec, SkipKeepsOld

\* A download's steps touch no file outside the directory its dest_path was
\* resolved to, unless that is the server root and is cleaned.
THEOREM DownloadStaysInDest == Spec => OnlyInDest
<1>1. ASSUME IInv, [Next]_vars, UNCHANGED envVars, NEW p \in Paths, NEW n \in Names,
             file'[p][n] # file[p][n]
      PROVE  \E j \in Jobs : pc[j] \in Working /\ InReach(j, p)
  <2> USE <1>1 DEF IInv
  <2>1. ~(Tick \/ Restart \/ UNCHANGED vars \/ DeleteServer \/ OthersWrite)
    BY DEF Tick, Restart, vars, fsVars, envVars, DeleteServer, OthersWrite, TypeOK
  <2>2. PICK j \in Jobs : JobStep(j)
    BY <2>1, NextSteps
  <2>3. CASE Removes(j)
    BY <2>3 DEF Removes, Planned, PlannedFor, InReach, Working
  <2>4. ASSUME NEW m \in Names, Creates(j, m) \/ Fills(j, m)
        PROVE  pc[j] \in Working /\ InReach(j, p)
    <3>1. pc[j] \in Working /\ \E x : Put(DestOf(j), m, x)
      BY <2>4 DEF Creates, Fills, Working
    <3>2. DestOf(j) = p
      BY <3>1, PutOne, Request
    <3> QED BY <3>1, <3>2 DEF InReach
  <2> QED BY <2>2, <2>3, <2>4, FileSteps
<1>2. IInv /\ [Next]_vars =>
        [UNCHANGED envVars =>
           \A p \in Paths, n \in Names : file'[p][n] # file[p][n] =>
             \E j \in Jobs : pc[j] \in Working /\ InReach(j, p)]_vars
  BY <1>1
<1> QED BY <1>2, Invariance, PTL DEF Spec, OnlyInDest

-----------------------------------------------------------------------------
\* The refinement of JobBoard, by step simulation: what a caller sees of a job
\* at each place of its code, and of a status file.
TicketFor(j) == {[slot |-> id[j], id |-> id[j]]}

Seen ==
  \A j \in Jobs :
    /\ pc[j] \in {"idle", "lockRun", "writeRun"} => Phase(j) = "new" /\ Ticket(j) = {}
    /\ pc[j] = "rejected" => Phase(j) = "turned away" /\ Ticket(j) = {}
    /\ pc[j] \in Accepted \cup {"writeEnd"} => Phase(j) = "accepted" /\ Ticket(j) = TicketFor(j)
    /\ pc[j] \in {"muted", "lost"} => Phase(j) = "silent" /\ Ticket(j) = {}
    /\ pc[j] = "ended" => Phase(j) = res[j] /\ Ticket(j) = TicketFor(j)

LEMMA PlacesSeen == Seen
<1> SUFFICES ASSUME NEW j \in Jobs
             PROVE  /\ pc[j] \in {"idle", "lockRun", "writeRun"} => Phase(j) = "new" /\ Ticket(j) = {}
                    /\ pc[j] = "rejected" => Phase(j) = "turned away" /\ Ticket(j) = {}
                    /\ pc[j] \in Accepted \cup {"writeEnd"} => Phase(j) = "accepted" /\ Ticket(j) = TicketFor(j)
                    /\ pc[j] \in {"muted", "lost"} => Phase(j) = "silent" /\ Ticket(j) = {}
                    /\ pc[j] = "ended" => Phase(j) = res[j] /\ Ticket(j) = TicketFor(j)
  BY DEF Seen
<1>1. pc[j] \in {"idle", "lockRun", "writeRun"} => Phase(j) = "new" /\ Ticket(j) = {}
  BY DEF Phase, Ticket, Accepted, Working
<1>2. pc[j] = "rejected" => Phase(j) = "turned away" /\ Ticket(j) = {}
  BY DEF Phase, Ticket, Accepted, Working
<1>3. pc[j] \in Accepted \cup {"writeEnd"} => Phase(j) = "accepted" /\ Ticket(j) = TicketFor(j)
  BY DEF Phase, Ticket, TicketFor, Accepted, Working
<1>4. pc[j] \in {"muted", "lost"} => Phase(j) = "silent" /\ Ticket(j) = {}
  BY DEF Phase, Ticket, Accepted, Working
<1>5. pc[j] = "ended" => Phase(j) = res[j] /\ Ticket(j) = TicketFor(j)
  BY DEF Phase, Ticket, TicketFor, Accepted, Working
<1> QED BY <1>1, <1>2, <1>3, <1>4, <1>5

Shown ==
  \A i \in Seconds :
    /\ status[i].kind = "json" => Hung(i) = {[id |-> i, st |-> status[i].st]}
    /\ status[i].kind \in {"absent", "empty"} => Hung(i) = {}

LEMMA FilesShown == Shown
BY DEF Shown, Hung

LEMMA BoardStands ==
  ASSUME status' = status
  PROVE  [i \in Seconds |-> Hung(i)]' = [i \in Seconds |-> Hung(i)]
BY DEF Hung

LEMMA Unseen ==
  ASSUME \A j \in Jobs : Phase(j)' = Phase(j) /\ Ticket(j)' = Ticket(j),
         status' = status
  PROVE  UNCHANGED Promise!vars
<1>1. [i \in Seconds |-> Hung(i)]' = [i \in Seconds |-> Hung(i)]
  BY BoardStands
<1> QED BY <1>1 DEF Promise!vars

OthersAsBefore(j) == \A k \in Jobs \ {j} : Phase(k)' = Phase(k) /\ Ticket(k)' = Ticket(k)
OneCard(s, c)     == \A i \in Seconds : Hung(i)' = IF i = s THEN c ELSE Hung(i)

LEMMA OneCardChanged ==
  ASSUME NEW s \in Seconds, Shown', NEW f, f.kind \in {"json", "empty"},
         \A i \in Seconds : status'[i] = IF i = s THEN f ELSE status[i]
  PROVE  OneCard(s, IF f.kind = "empty" THEN {} ELSE {[id |-> s, st |-> f.st]})
<1>1. \A i \in Seconds \ {s} : status'[i] = status[i]
  OBVIOUS
<1>2. \A i \in Seconds \ {s} : Hung(i)' = Hung(i)
  BY <1>1 DEF Hung
<1>3. status'[s] = f
  OBVIOUS
<1>4. Hung(s)' = IF f.kind = "empty" THEN {} ELSE {[id |-> s, st |-> f.st]}
  BY <1>3 DEF Shown
<1> QED BY <1>2, <1>4 DEF OneCard

LEMMA OthersSeen ==
  ASSUME NEW j \in Jobs, OthersStand(j)
  PROVE  OthersAsBefore(j)
BY DEF OthersStand, OthersAsBefore, Phase, Ticket

\* The transitions of JobBoard, from what they look like here.
LEMMA SeenTurnAway ==
  ASSUME NEW j \in Jobs, Phase(j) = "new", Phase(j)' = "turned away",
         Ticket(j)' = Ticket(j), OthersAsBefore(j), status' = status
  PROVE  Promise!TurnAway(j)
<1>1. [i \in Seconds |-> Hung(i)]' = [i \in Seconds |-> Hung(i)]
  BY BoardStands
<1> QED BY <1>1 DEF Promise!TurnAway, OthersAsBefore

LEMMA SeenAccept ==
  ASSUME NEW j \in Jobs, NEW i \in Seconds,
         Phase(j) = "new", Phase(j)' = "accepted", OthersAsBefore(j),
         Ticket(j)' = {[slot |-> i, id |-> i]}, OneCard(i, {[id |-> i, st |-> "running"]})
  PROVE  Promise!Accept(j)
<1> DEFINE t == [slot |-> i, id |-> i]
<1>1. t \in Promise!Tickets /\ t.slot = i /\ t.id = i
  BY DEF Promise!Tickets
<1>2. Promise!Post(t, "running")
  BY <1>1 DEF Promise!Post, Promise!Card, OneCard
<1>3. [k \in Jobs |-> Ticket(k)]' = [[k \in Jobs |-> Ticket(k)] EXCEPT ![j] = {t}]
  BY DEF OthersAsBefore
<1>4. [k \in Jobs |-> Phase(k)]' = [[k \in Jobs |-> Phase(k)] EXCEPT ![j] = "accepted"]
  BY DEF OthersAsBefore
<1> HIDE DEF t
<1> QED BY <1>1, <1>2, <1>3, <1>4 DEF Promise!Accept

LEMMA SeenEnd ==
  ASSUME NEW j \in Jobs, NEW i \in Seconds, NEW x \in {"done", "failed"},
         Phase(j) = "accepted", Phase(j)' = x, OthersAsBefore(j),
         Ticket(j) = {[slot |-> i, id |-> i]}, Ticket(j)' = Ticket(j),
         OneCard(i, {[id |-> i, st |-> x]})
  PROVE  Promise!End(j)
<1> DEFINE t == [slot |-> i, id |-> i]
<1>1. t \in [k \in Jobs |-> Ticket(k)][j] /\ t.slot = i /\ t.id = i
  OBVIOUS
<1>2. Promise!Post(t, x)
  BY <1>1 DEF Promise!Post, Promise!Card, OneCard
<1>3. [k \in Jobs |-> Ticket(k)]' = [k \in Jobs |-> Ticket(k)]
  BY DEF OthersAsBefore
<1>4. [k \in Jobs |-> Phase(k)]' = [[k \in Jobs |-> Phase(k)] EXCEPT ![j] = x]
  BY DEF OthersAsBefore
<1> HIDE DEF t
<1> QED BY <1>1, <1>2, <1>3, <1>4 DEF Promise!End

LEMMA SeenBlank ==
  ASSUME NEW j \in Jobs, NEW i \in Seconds,
         Phase(j) = "new" \/ (Phase(j) = "accepted" /\ Ticket(j) = {[slot |-> i, id |-> i]}),
         \A k \in Jobs : Phase(k)' = Phase(k) /\ Ticket(k)' = Ticket(k),
         OneCard(i, {})
  PROVE  Promise!GoBlank(i)
<1>1. Promise!PostsOn(j, i)
  <2>1. CASE Phase(j) = "accepted" /\ Ticket(j) = {[slot |-> i, id |-> i]}
    <3>1. [slot |-> i, id |-> i] \in [k \in Jobs |-> Ticket(k)][j]
      BY <2>1
    <3>2. [slot |-> i, id |-> i].slot = i
      OBVIOUS
    <3> QED BY <2>1, <3>1, <3>2 DEF Promise!PostsOn
  <2> QED BY <2>1 DEF Promise!PostsOn
<1>2. [k \in Seconds |-> Hung(k)]' = [[k \in Seconds |-> Hung(k)] EXCEPT ![i] = {}]
  BY DEF OneCard
<1> QED BY <1>1, <1>2 DEF Promise!GoBlank, Promise!Blank

LEMMA SeenSilence ==
  ASSUME NEW S \in SUBSET Jobs,
         \A j \in S : Phase(j) \in {"new", "accepted"} /\ Phase(j)' = "silent" /\ Ticket(j)' = {},
         \A j \in Jobs \ S : Phase(j)' = Phase(j) /\ Ticket(j)' = Ticket(j),
         status' = status
  PROVE  Promise!FallSilent(S)
<1>1. [i \in Seconds |-> Hung(i)]' = [i \in Seconds |-> Hung(i)]
  BY BoardStands
<1> QED BY <1>1 DEF Promise!FallSilent

\* Between its two records a job is accepted, whatever it does.
LEMMA RunsUnseen ==
  ASSUME TypeOK, NEW j \in Jobs, RunDownload(j) \/ StepFails(j)
  PROVE  /\ pc[j] \in Working /\ pc'[j] \in Accepted
         /\ UNCHANGED <<status, id>>
<1> USE DEF TypeOK, Goto, Fail, Working, Accepted, jobVars
<1>1. CASE Clean(j)
  BY <1>1 DEF Clean, ListDest, RemoveEntry, CleanDone
<1>2. CASE Get(j)
  BY <1>2 DEF Get, MakeDest, CreateTemp, Fetch, FetchFails
<1>3. CASE Place(j)
  BY <1>3 DEF Place, SkipName, TakeName, CreateFile, CreateRefused, FillFile
<1>4. CASE PlacedAll(j) \/ ChownAll(j) \/ StepFails(j)
  BY <1>4 DEF PlacedAll, ChownAll, StepFails
<1> QED BY <1>1, <1>2, <1>3, <1>4 DEF RunDownload

\* Every step of the downloads is a step of JobBoard, or invisible.
LEMMA PromiseStep ==
  ASSUME IInv, IInv', Seen, Seen', Shown, Shown', [Next]_vars
  PROVE  [Promise!Next]_(Promise!vars)
<1> USE DEF IInv
<1>1. CASE Tick \/ DeleteServer \/ OthersWrite \/ UNCHANGED vars
  <2>1. status' = status /\ \A j \in Jobs : Phase(j)' = Phase(j) /\ Ticket(j)' = Ticket(j)
    BY <1>1 DEF Tick, DeleteServer, OthersWrite, vars, jobVars, Phase, Ticket
  <2> QED BY <2>1, Unseen
<1>2. CASE Restart
  <2> DEFINE S == {j \in Jobs : pc[j] \notin {"idle", "rejected"} \cup Returned}
  <2>1. /\ UNCHANGED <<status, id, res>>
        /\ \A k \in Jobs : pc'[k] = IF k \in S THEN "lost" ELSE pc[k]
    BY <1>2 DEF Restart, jobVars
  <2>2. ASSUME NEW j \in S
        PROVE  Phase(j) \in {"new", "accepted"} \cup {"silent"} /\ Phase(j)' = "silent" /\ Ticket(j)' = {}
    <3>1. pc'[j] = "lost" /\ j \in Jobs
      BY <2>1
    <3>2. pc[j] \in {"lockRun", "writeRun", "writeEnd", "lost"} \cup Accepted
      BY DEF TypeOK, PcStates, Writing, Returned
    <3> QED BY <3>1, <3>2 DEF Seen
  <2> DEFINE L == {j \in S : pc[j] # "lost"}
  <2>3. \A j \in L : Phase(j) \in {"new", "accepted"} /\ Phase(j)' = "silent" /\ Ticket(j)' = {}
    <3> SUFFICES ASSUME NEW j \in L PROVE Phase(j) \in {"new", "accepted"}
      BY <2>2
    <3>1. pc[j] \in {"lockRun", "writeRun", "writeEnd"} \cup Accepted
      BY DEF TypeOK, PcStates, Writing, Returned
    <3> QED BY <3>1 DEF Seen
  <2>4. \A j \in Jobs \ L : Phase(j)' = Phase(j) /\ Ticket(j)' = Ticket(j)
    <3> SUFFICES ASSUME NEW j \in Jobs \ L PROVE Phase(j)' = Phase(j) /\ Ticket(j)' = Ticket(j)
      OBVIOUS
    <3>1. pc'[j] = pc[j]
      BY <2>1
    <3> QED BY <2>1, <3>1 DEF Phase, Ticket
  <2>5. Promise!FallSilent(L)
    BY <2>1, <2>3, <2>4, SeenSilence
  <2> QED BY <2>5 DEF Promise!Next
<1>3. ASSUME NEW j \in Jobs, JobStep(j) PROVE [Promise!Next]_(Promise!vars)
  <2>1. OthersAsBefore(j)
    BY <1>3, OneAtATime, OthersSeen
  <2>2. CASE MintID(j) \/ RunDownload(j) \/ StepFails(j)
    <3>1. status' = status /\ Phase(j)' = Phase(j) /\ Ticket(j)' = Ticket(j)
      <4>1. CASE MintID(j)
        <5>1. pc[j] = "idle" /\ pc'[j] = "lockRun" /\ status' = status
          BY <4>1 DEF MintID, Goto, TypeOK
        <5> QED BY <5>1 DEF Seen
      <4>2. CASE RunDownload(j) \/ StepFails(j)
        BY <4>2, RunsUnseen DEF Seen, Accepted, TicketFor
      <4> QED BY <2>2, <4>1, <4>2
    <3> QED BY <2>1, <3>1, Unseen DEF OthersAsBefore
  <2>3. CASE WriteFails(j)
    <3>1. /\ UNCHANGED <<status, id>> /\ pc'[j] = AfterError(j)
          /\ pc[j] \in {"lockRun", "lockEnd"} \cup Writing
      BY <2>3 DEF WriteFails, OpenStatusFails, FillStatusFails, Goto, TypeOK, jobVars
    <3>2. CASE pc[j] \in {"lockRun", "writeRun"}
      <4>1. Promise!TurnAway(j)
        BY <2>1, <3>1, <3>2, SeenTurnAway DEF Seen, AfterError
      <4> QED BY <4>1 DEF Promise!Next
    <3>3. CASE pc[j] \in {"lockEnd", "writeEnd"}
      <4>1. Phase(j) = "accepted" /\ Phase(j)' = "silent" /\ Ticket(j)' = {}
        BY <3>1, <3>3 DEF Seen, AfterError, Accepted
      <4>2. Promise!FallSilent({j})
        BY <2>1, <3>1, <4>1, SeenSilence DEF OthersAsBefore
      <4> QED BY <4>2 DEF Promise!Next
    <3> QED BY <3>1, <3>2, <3>3 DEF Writing
  <2>4. CASE TruncateStatus(j)
    <3>1. /\ UNCHANGED <<id, res>> /\ id[j] \in Seconds
          /\ \A i \in Seconds : status'[i] = IF i = id[j] THEN EmptyFile ELSE status[i]
          /\ \/ pc[j] = "lockRun" /\ pc'[j] = "writeRun"
             \/ pc[j] = "lockEnd" /\ pc'[j] = "writeEnd"
      BY <2>4 DEF TruncateStatus, StatusKey, AfterLock, Goto, TypeOK, jobVars
    <3>2. OneCard(id[j], {})
      <4>1. EmptyFile.kind = "empty"
        BY DEF EmptyFile
      <4>2. \A i \in Seconds : status'[i] = IF i = id[j] THEN EmptyFile ELSE status[i]
        BY <3>1
      <4>3. id[j] \in Seconds /\ EmptyFile.kind \in {"json", "empty"}
        BY <3>1, <4>1
      <4>4. OneCard(id[j], IF EmptyFile.kind = "empty" THEN {} ELSE {[id |-> id[j], st |-> EmptyFile.st]})
        BY <4>2, <4>3, OneCardChanged
      <4> QED BY <4>1, <4>4
    <3>3. \/ Phase(j) = "new"
          \/ Phase(j) = "accepted" /\ Ticket(j) = {[slot |-> id[j], id |-> id[j]]}
      BY <3>1 DEF Seen, Accepted, TicketFor
    <3>4. Phase(j)' = Phase(j) /\ Ticket(j)' = Ticket(j)
      BY <3>1 DEF Seen, Accepted, TicketFor
    <3>5. Promise!GoBlank(id[j])
      BY <2>1, <3>1, <3>2, <3>3, <3>4, SeenBlank DEF OthersAsBefore
    <3> QED BY <3>1, <3>5 DEF Promise!Next
  <2>5. CASE FillStatus(j)
    <3>1. /\ UNCHANGED <<id, res>> /\ id[j] \in Seconds
          /\ pc[j] \in Writing /\ pc'[j] = AfterWrite(j)
          /\ status[id[j]].kind = "empty"
      BY <2>5 DEF FillStatus, Goto, TypeOK, jobVars, MutexInv
    <3>2. /\ \A i \in Seconds : status'[i] = IF i = id[j] THEN NewStatus(j) ELSE status[i]
          /\ NewStatus(j).kind = "json"
      BY <2>5, <3>1 DEF FillStatus, StatusKey, Written, NewStatus, TypeOK
    <3>3. OneCard(id[j], {[id |-> id[j], st |-> NewStatus(j).st]})
      BY <3>1, <3>2, OneCardChanged
    <3>4. CASE pc[j] = "writeRun"
      <4>1. NewStatus(j).st = "running"
        BY <3>4 DEF NewStatus
      <4>2. /\ Phase(j) = "new" /\ Phase(j)' = "accepted"
            /\ Ticket(j)' = {[slot |-> id[j], id |-> id[j]]}
        BY <3>1, <3>4 DEF Seen, AfterWrite, FirstStep, Accepted, Working, TicketFor
      <4>3. Promise!Accept(j)
        BY <2>1, <3>1, <3>3, <4>1, <4>2, SeenAccept
      <4> QED BY <4>3 DEF Promise!Next
    <3>5. CASE pc[j] = "writeEnd"
      <4>1. NewStatus(j).st = res[j] /\ res[j] \in {"done", "failed"}
        BY <3>5 DEF NewStatus, Planned, PlannedFor
      <4>2. /\ Phase(j) = "accepted" /\ Phase(j)' = res[j]
            /\ Ticket(j) = {[slot |-> id[j], id |-> id[j]]} /\ Ticket(j)' = Ticket(j)
        BY <3>1, <3>5 DEF Seen, AfterWrite, TicketFor
      <4>3. Promise!End(j)
        BY <2>1, <3>1, <3>3, <4>1, <4>2, SeenEnd
      <4> QED BY <4>3 DEF Promise!Next
    <3> QED BY <3>1, <3>4, <3>5 DEF Writing
  <2> QED BY <1>3, <2>2, <2>3, <2>4, <2>5 DEF JobStep, WriteStatus
<1> QED BY <1>1, <1>2, <1>3, NextSteps

LEMMA PromiseInit == Init => Promise!Init
<1> SUFFICES ASSUME Init PROVE Promise!Init
  OBVIOUS
<1>1. \A j \in Jobs : Phase(j) = "new" /\ Ticket(j) = {}
  BY PlacesSeen DEF Init, Seen
<1>2. \A i \in Seconds : Hung(i) = {}
  BY DEF Init, Hung, AbsentFile
<1> QED BY <1>1, <1>2 DEF Promise!Init, Promise!Blank

\* Through replies and status files nobody can tell StartDownload, runDownload and
\* their files from JobBoard: downloads and backups make callers one promise.
THEOREM PromiseKept == Spec => KeepsPromise
<1>1. []Seen /\ []Shown
  BY PlacesSeen, FilesShown, PTL
<1> QED
  BY <1>1, Invariance, PromiseInit, PromiseStep, PTL DEF Spec, KeepsPromise, Promise!Spec
=============================================================================
