---------------------------- MODULE RestoreProofs ----------------------------
(***************************************************************************)
(* Proofs about CommandPipe, for every stream length and pipe capacity,    *)
(* and about Restore, for all archives, files and failures and any number  *)
(* of attempts.  What the invariant of the pipeline says also holds of the *)
(* pipeline in a restore, since it is shown for every step of Next; to it  *)
(* come where tar stands in the directory, and what chownRecursive has yet *)
(* to do.                                                                  *)
(***************************************************************************)
EXTENDS Restore, WellFoundedInduction, TLAPS

-----------------------------------------------------------------------------
\* CommandPipe.

\* Nothing is lost or made up on the way through the pipe.
Conserved == left + pipe + got = total

\* A descriptor is held by exactly the processes that the steps of the gateway
\* and of the children have left it with.
EndsHeld ==
  /\ "gateway" \in writeEnds => gw \in {"start", "run", "failed"}
  /\ gw \in {"start", "run"} => "gateway" \in writeEnds
  /\ "producer" \in writeEnds => prod = "live"
  /\ gw = "wait" => "gateway" \notin readEnds

\* The gateway knows what it waited for.
Waited ==
  /\ gw \in {"start", "run"} => prod = "none"
  /\ gw = "wait" => prod \in Exited
  /\ gw = "done" => prod = "ok" /\ cons = "ok"

\* What a successful exit says about the stream.
ExitsTrue ==
  /\ prod = "ok" => left = 0
  /\ cons = "ok" => pipe = 0 /\ writeEnds = {}
  /\ prod = "live" => "producer" \in writeEnds

IInv == TypeOK /\ Conserved /\ EndsHeld /\ Waited /\ ExitsTrue

LEMMA IInvInit == Init => IInv
BY PipeAssumption
   DEF PipeAssumption, Init, IInv, TypeOK, Conserved, EndsHeld, Waited, ExitsTrue, Exited

\* Every step keeps the inductive invariant.
LEMMA IInvStep == IInv /\ [Next]_vars => IInv'
<1> SUFFICES ASSUME IInv, [Next]_vars PROVE IInv'
  OBVIOUS
<1> USE PipeAssumption
    DEF PipeAssumption, IInv, TypeOK, Conserved, EndsHeld, Waited, ExitsTrue, Exited
<1>1. CASE StartConsumer
  <2>1. CASE /\ gw' = "run" /\ cons' = "live"
             /\ readEnds' = readEnds \cup {"consumer"} /\ UNCHANGED deaths
    BY <1>1, <2>1 DEF StartConsumer
  <2>2. CASE gw' = "failed" /\ Death /\ UNCHANGED <<cons, readEnds>>
    BY <1>1, <2>2 DEF StartConsumer, Death
  <2> QED BY <1>1, <2>1, <2>2 DEF StartConsumer
<1>2. CASE StartProducer
  <2>1. CASE /\ gw' = "runWait" /\ prod' = "live"
             /\ writeEnds' = {"producer"} /\ UNCHANGED <<readEnds, deaths>>
    BY <1>2, <2>1 DEF StartProducer
  <2>2. CASE /\ Death /\ gw' = "wait" /\ prod' = "failed"
             /\ writeEnds' = {} /\ readEnds' = readEnds \ {"gateway"}
    BY <1>2, <2>2 DEF StartProducer, Death
  <2> QED BY <1>2, <2>1, <2>2 DEF StartProducer
<1>3. CASE WaitProducer
  BY <1>3 DEF WaitProducer
<1>4. CASE WaitConsumer
  BY <1>4 DEF WaitConsumer, Verdict
<1>5. CASE Produce
  BY <1>5 DEF Produce
<1>6. CASE ProducerDone
  BY <1>6 DEF ProducerDone, ExitProducer
<1>7. CASE ProducerFails
  BY <1>7 DEF ProducerFails, ExitProducer, Death
<1>8. CASE Consume
  BY <1>8 DEF Consume
<1>9. CASE ConsumerDone
  BY <1>9 DEF ConsumerDone, ExitConsumer
<1>10. CASE ConsumerFails
  BY <1>10 DEF ConsumerFails, ExitConsumer, Death
<1>11. CASE UNCHANGED vars
  BY <1>11 DEF vars
<1> QED
  BY <1>1, <1>2, <1>3, <1>4, <1>5, <1>6, <1>7, <1>8, <1>9, <1>10, <1>11
     DEF Next, Gateway, Producer, Consumer

\* The inductive invariant holds throughout.
THEOREM Invariance == Spec => []IInv
BY IInvInit, IInvStep, PTL DEF Spec

\* A pipeline reported as done moved the whole stream (runBackup's "done",
\* Restore's nil error).
THEOREM PipeDone == Spec => []DoneMeansWhole
<1>1. IInv => DoneMeansWhole
  BY DEF IInv, DoneMeansWhole, TypeOK, Conserved, Waited, ExitsTrue
<1> QED BY <1>1, Invariance, PTL

\* While the gateway waits for the consumer, the consumer's EOF is certain.
THEOREM PipeEof == Spec => []EofIsComing
<1>1. IInv => EofIsComing
  BY DEF IInv, EofIsComing, TypeOK, EndsHeld, Waited, Exited
<1> QED BY <1>1, Invariance, PTL

\* The pipeline of a tree that fits in the pipe cannot block, and a longer one
\* only after its consumer has failed.
THEOREM PipeBlocked == Spec => []BlockedOnlyByDeath
<1>1. IInv => BlockedOnlyByDeath
  BY PipeAssumption
     DEF PipeAssumption, IInv, BlockedOnlyByDeath, Blocked, TypeOK, Conserved, ExitsTrue, Exited
<1> QED BY <1>1, Invariance, PTL

-----------------------------------------------------------------------------
\* Restore.

DirOK ==
  /\ dir \in [Names -> Contents] /\ before \in [Names -> Contents]
  /\ arch \in Archives \cup {<<>>}
  /\ phase \in {"idle", "pipe", "chown", "answered"}
  /\ opened \in BOOLEAN /\ faulty \in BOOLEAN

\* The archive that is extracted and how much of it there is.
Stream ==
  /\ total <= Len(arch) /\ (tail = "whole" => total = Len(arch))
  /\ opened => got < Len(arch)
  /\ phase = "idle" => prod = "none" /\ cons = "none"

\* ReplacedInOrder, with what tar has done to the entry it is in.
InOrder ==
  /\ \A n \in Names \ touched : ~InArchive(n) => dir[n] = before[n]
  /\ \A i \in 1..Len(arch) :
       arch[i] \notin touched =>
         /\ i <= got => dir[arch[i]] = "new" \/ faulty
         /\ i = got + 1 => dir[arch[i]] = IF opened /\ arch[i] \notin Links THEN "part" ELSE before[arch[i]]
         /\ i > got + 1 => dir[arch[i]] = before[arch[i]]

\* An error of tar's is in its exit code, and so in the pipeline's.
Told == faulty => cons # "ok"

\* From the end of the pipeline to the answer.
Owning ==
  /\ phase = "chown" => gw = "done" /\ Present \ touched \subseteq owned \cup todo
  /\ phase = "answered" /\ status = 200 => gw = "done" /\ Present \ touched \subseteq owned
  /\ phase \in {"idle", "pipe", "chown"} => status = 0

RInv == IInv /\ DirOK /\ Stream /\ InOrder /\ Told /\ Owning

-----------------------------------------------------------------------------
\* What the assumption says of one archive.
LEMMA ArchiveFacts ==
  ASSUME DirOK
  PROVE  /\ Len(arch) \in Nat
         /\ \A i \in 1..Len(arch) : arch[i] \in Names
         /\ \A i, j \in 1..Len(arch) : arch[i] = arch[j] => i = j
<1>1. CASE arch = <<>>
  BY <1>1
<1>2. CASE arch \in Archives
  BY <1>2, RestoreAssumption DEF RestoreAssumption
<1> QED BY <1>1, <1>2 DEF DirOK

\* Of some numbers one is the least.
LEMMA LeastNat ==
  ASSUME NEW S \in SUBSET Nat, S # {}
  PROVE  \E n \in S : \A m \in S : n <= m
<1>1. PICK x \in S : ~\E y \in S : <<y, x>> \in OpToRel(<, Nat)
  BY NatLessThanWellFounded, WFMin
<1> QED BY <1>1 DEF OpToRel

LEMMA MinNat ==
  ASSUME NEW S \in SUBSET Nat, S # {}
  PROVE  Min(S) \in S
<1>1. \E n \in S : \A m \in S : n <= m
  BY LeastNat
<1> QED BY <1>1 DEF Min

LEMMA InitRInv == RestoreInit => RInv
<1> SUFFICES ASSUME RestoreInit PROVE RInv
  OBVIOUS
<1> USE DEF RestoreInit
<1>1. IInv
  BY IInvInit
<1>2. DirOK
  <2>1. dir \in [Names -> Contents]
    BY DEF Contents
  <2> QED BY <2>1 DEF DirOK
<1>3. Stream /\ InOrder /\ Told /\ Owning
  BY DEF Init, Stream, InOrder, InArchive, Told, Owning
<1> QED BY <1>1, <1>2, <1>3 DEF RInv

\* An empty pipe to nobody conserves the stream.
LEMMA NothingAdded == \A n \in Nat : n + 0 + 0 = n
OBVIOUS

-----------------------------------------------------------------------------
\* The pipeline's invariant.  Three steps are not CommandPipe's own.
LEMMA PipelineStep ==
  ASSUME IInv, RestoreNext, RInv
  PROVE  IInv'
<1> USE PipeAssumption DEF PipeAssumption, IInv, TypeOK, Conserved, EndsHeld, Waited, ExitsTrue, Exited
<1>1. CASE StartRestore
  <2>1. Len(arch') \in Nat /\ Len(arch') <= MaxTotal
    BY <1>1, RestoreAssumption DEF StartRestore, Offered, RestoreAssumption
  <2>2. total' \in 0..MaxTotal
    BY <1>1, <2>1 DEF StartRestore, Offered
  <2>3. /\ gw' = "start" /\ prod' = "none" /\ cons' = "none"
        /\ left' = total' /\ pipe' = 0 /\ got' = 0 /\ deaths' = deaths
        /\ readEnds' = {"gateway"} /\ writeEnds' = {"gateway"}
    BY <1>1 DEF StartRestore, Offered
  <2>4. TypeOK'
    BY <2>2, <2>3
  <2>5. Conserved'
    <3>1. left' = total' /\ pipe' = 0 /\ got' = 0 /\ total' \in Nat
      BY <2>2, <2>3
    <3> QED BY <3>1, NothingAdded
  <2>6. EndsHeld' /\ Waited' /\ ExitsTrue'
    BY <2>3
  <2> QED BY <2>4, <2>5, <2>6
<1>2. CASE SkipEntry
  BY <1>2 DEF SkipEntry, Death
<1>3. CASE tail = "cut" /\ prod = "live" /\ left = 0 /\ ExitProducer("failed") /\ UNCHANGED deaths
  BY <1>3 DEF ExitProducer
<1>4. CASE cons = "live" /\ pipe = 0 /\ writeEnds = {} /\ ExitConsumer("failed") /\ UNCHANGED deaths
  BY <1>4 DEF ExitConsumer
<1>5. CASE [Next]_vars
  <2> HIDE DEF IInv, TypeOK, Conserved, EndsHeld, Waited, ExitsTrue, Exited
  <2> QED BY <1>5, IInvStep
<1>6. \/ StartRestore \/ SkipEntry \/ [Next]_vars
      \/ tail = "cut" /\ prod = "live" /\ left = 0 /\ ExitProducer("failed") /\ UNCHANGED deaths
      \/ cons = "live" /\ pipe = 0 /\ writeEnds = {} /\ ExitConsumer("failed") /\ UNCHANGED deaths
  <2> HIDE DEF IInv, TypeOK, Conserved, EndsHeld, Waited, ExitsTrue, Exited
  <2>1. NoBackup => UNCHANGED vars
    BY DEF NoBackup
  <2>2. Handler => [Next]_vars
    BY DEF Handler, RunPipeline, PipelineFailed, StartChown, ChownNext, Restored, Next
  <2>3. OpenEntry => UNCHANGED vars
    BY DEF OpenEntry
  <2>4. FillEntry => Next
    BY DEF FillEntry, Next, Consumer
  <2>5. LiveChange => UNCHANGED vars
    BY DEF LiveChange, Change
  <2>6. ChildDies => Next
    BY DEF ChildDies, Next
  <2> QED BY <2>1, <2>2, <2>3, <2>4, <2>5, <2>6
         DEF RestoreNext, Decompress, Tar, TarExits, Next, Producer, Consumer
<1> QED BY <1>1, <1>2, <1>3, <1>4, <1>5, <1>6

-----------------------------------------------------------------------------
\* Steps of the pipeline that leave the directory alone.
Aside ==
  /\ UNCHANGED <<arch, tail, dir, opened, faulty, before, touched, total, got>>
  /\ gw = "done" => gw' = "done"
  /\ cons' = "ok" => cons = "ok" \/ (~opened /\ ~faulty)

LEMMA AsideKeeps ==
  ASSUME RInv, Aside, IInv', DirOK',
         phase' = "idle" => prod' = "none" /\ cons' = "none"
  PROVE  Stream' /\ InOrder' /\ Told'
BY DEF RInv, Aside, dirVars, Stream, InOrder, InArchive, Told

LEMMA ChildrenKeep ==
  ASSUME RInv, IInv', Decompress \/ TarExits \/ ChildDies \/ RunPipeline
  PROVE  RInv'
<1> USE DEF RInv
<1>1. UNCHANGED restoreVars /\ phase # "idle" /\ Aside
  <2>1. CASE Decompress
    BY <2>1 DEF Decompress, Produce, ProducerDone, ExitProducer, Aside, restoreVars, dirVars, Stream
  <2>2. CASE TarExits
    BY <2>2 DEF TarExits, ConsumerDone, ExitConsumer, Aside, restoreVars, dirVars, Stream
  <2>3. CASE ChildDies
    BY <2>3 DEF ChildDies, ProducerFails, ConsumerFails, ExitProducer, ExitConsumer, Death,
       Aside, restoreVars, dirVars, Stream
  <2>4. CASE RunPipeline
    <3>1. CASE StartConsumer
      BY <2>4, <3>1 DEF RunPipeline, StartConsumer, Death, Aside, restoreVars, dirVars
    <3>2. CASE StartProducer
      BY <2>4, <3>2 DEF RunPipeline, StartProducer, Death, Aside, restoreVars, dirVars
    <3>3. CASE WaitProducer
      BY <2>4, <3>3 DEF RunPipeline, WaitProducer, Aside, restoreVars, dirVars
    <3>4. CASE WaitConsumer
      BY <2>4, <3>4 DEF RunPipeline, WaitConsumer, Aside, restoreVars, dirVars
    <3> QED BY <2>4, <3>1, <3>2, <3>3, <3>4 DEF RunPipeline, Gateway
  <2> QED BY <2>1, <2>2, <2>3, <2>4
<1>2. DirOK' /\ Owning'
  BY <1>1 DEF restoreVars, dirVars, DirOK, Owning, Present, Aside
<1> QED BY <1>1, <1>2, AsideKeeps DEF restoreVars

\* The handler's own steps.
LEMMA HandlerKeeps ==
  ASSUME RInv, IInv', NoBackup \/ PipelineFailed \/ StartChown \/ ChownNext \/ Restored
  PROVE  RInv'
<1> USE DEF RInv
<1>1. Aside /\ phase' # "idle"
  <2>1. UNCHANGED <<vars, arch, tail, dir, opened, faulty, before, touched>>
    BY DEF NoBackup, PipelineFailed, StartChown, ChownNext, Restored, dirVars
  <2> QED BY <2>1 DEF NoBackup, PipelineFailed, StartChown, ChownNext, Restored, Answer, Aside, vars
<1>2. DirOK'
  BY DEF NoBackup, PipelineFailed, StartChown, ChownNext, Restored, Answer, dirVars, DirOK
<1>3. Owning'
  <2>1. CASE NoBackup
    BY <2>1 DEF NoBackup, Answer, Owning
  <2>2. CASE PipelineFailed
    BY <2>2 DEF PipelineFailed, Answer, Owning
  <2>3. CASE StartChown
    BY <2>3 DEF StartChown, ToChown, Owning, Present, dirVars, vars
  <2>4. CASE ChownNext
    <3> DEFINE n == Min(todo)
    <3>1. CASE CannotChown(n)
      BY <2>4, <3>1 DEF ChownNext, Answer, Owning
    <3>2. CASE ~CannotChown(n)
      <4>1. owned' = owned \cup {n} /\ todo' = todo \ {n} /\ UNCHANGED <<phase, status, gw, dir, touched>>
        BY <2>4, <3>2 DEF ChownNext, vars
      <4> HIDE DEF n
      <4> QED BY <2>4, <4>1 DEF ChownNext, Owning, Present
    <3> QED BY <3>1, <3>2
  <2>5. CASE Restored
    BY <2>5 DEF Restored, Answer, Owning, Present, dirVars, vars
  <2> QED BY <2>1, <2>2, <2>3, <2>4, <2>5
<1> QED BY <1>1, <1>2, <1>3, AsideKeeps

-----------------------------------------------------------------------------
\* tar's steps in the directory.

\* Where tar is in the stream.
LEMMA Place ==
  ASSUME RInv
  PROVE  /\ got \in Nat /\ total \in Nat /\ pipe \in Nat /\ left \in Nat
         /\ left + pipe + got = total /\ got <= Len(arch) /\ Len(arch) \in Nat
         /\ got < Len(arch) => got + 1 \in 1..Len(arch) /\ Entry \in Names
BY ArchiveFacts, PipeAssumption
   DEF PipeAssumption, RInv, IInv, TypeOK, Conserved, Stream, Entry

LEMMA OpenKeeps ==
  ASSUME RInv, IInv', OpenEntry
  PROVE  RInv'
<1> USE DEF RInv, OpenEntry
<1>1. /\ got < Len(arch) /\ Entry \in Names /\ got + 1 \in 1..Len(arch) /\ cons = "live"
      /\ got \in Nat /\ Len(arch) \in Nat
  BY Place
<1>2. \A i \in 1..Len(arch) : arch[i] = Entry => i = got + 1
  BY <1>1, ArchiveFacts DEF Entry
<1>3. UNCHANGED <<vars, arch, tail, phase, status, faulty, todo, before, touched>> /\ opened'
  OBVIOUS
<1>4. \/ Entry \in Links /\ UNCHANGED <<dir, owned>>
      \/ Entry \notin Links /\ dir' = [dir EXCEPT ![Entry] = "part"] /\ owned' = owned \ {Entry}
  OBVIOUS
<1>5. DirOK'
  BY <1>3, <1>4 DEF DirOK, Contents
<1>6. Stream' /\ Told'
  BY <1>1, <1>3 DEF Stream, Told, vars
<1>7. InOrder'
  <2>1. \A n \in Names : n # Entry => dir'[n] = dir[n]
    BY <1>4 DEF DirOK
  <2>2. \A n \in Names \ touched : ~InArchive(n) => dir'[n] = before[n]
    BY <1>1, <2>1 DEF InArchive, InOrder, Entry
  <2>3. \A i \in 1..Len(arch) : i # got + 1 => dir'[arch[i]] = dir[arch[i]]
    BY <1>2, <2>1, ArchiveFacts
  <2>4. Entry \notin touched =>
          dir'[Entry] = IF Entry \notin Links THEN "part" ELSE before[Entry]
    BY <1>1, <1>4 DEF InOrder, DirOK, Entry
  <2> QED BY <1>1, <1>3, <2>2, <2>3, <2>4 DEF InOrder, InArchive, Entry, vars
<1>8. Owning'
  BY <1>1, <1>3 DEF Owning, IInv, Waited, vars
<1> QED BY <1>5, <1>6, <1>7, <1>8

LEMMA FillKeeps ==
  ASSUME RInv, IInv', FillEntry \/ SkipEntry
  PROVE  RInv'
<1> USE DEF RInv
<1>1. opened /\ opened' = FALSE /\ got' = got + 1 /\ cons = "live" /\ cons' = "live"
  BY DEF FillEntry, SkipEntry, Consume
<1>2. /\ UNCHANGED <<arch, tail, phase, status, todo, before, touched, total, gw, prod>>
      /\ faulty' \in BOOLEAN /\ (faulty => faulty')
  BY DEF FillEntry, SkipEntry, Consume, DirOK
<1>3. /\ got < Len(arch) /\ Entry \in Names /\ got + 1 \in 1..Len(arch)
      /\ got \in Nat /\ Len(arch) \in Nat
  BY <1>1, Place DEF Stream
<1>4. \A i \in 1..Len(arch) : arch[i] = Entry => i = got + 1
  BY <1>3, ArchiveFacts DEF Entry
<1>5. /\ \A n \in Names : n # Entry => dir'[n] = dir[n]
      /\ dir' \in [Names -> Contents]
      /\ Entry \notin touched => dir'[Entry] = "new" \/ faulty'
  <2>1. CASE FillEntry
    <3>1. dir' = [dir EXCEPT ![Entry] = IF @ = "part" \/ Entry \in Links THEN "new" ELSE @]
      BY <2>1 DEF FillEntry
    <3>2. Entry \notin touched => dir[Entry] = "part" \/ Entry \in Links
      BY <1>1, <1>3 DEF InOrder, Entry
    <3> QED BY <1>3, <3>1, <3>2 DEF DirOK, Contents
  <2>2. CASE SkipEntry
    BY <2>2 DEF SkipEntry, DirOK
  <2> QED BY <2>1, <2>2
<1>6. DirOK'
  BY <1>1, <1>2, <1>5 DEF DirOK
<1>7. Stream' /\ Told'
  BY <1>1, <1>2 DEF Stream, Told
<1>8. InOrder'
  <2>1. \A n \in Names \ touched : ~InArchive(n) => dir'[n] = before[n]
    BY <1>3, <1>5 DEF InArchive, InOrder, Entry
  <2>2. \A i \in 1..Len(arch) : i # got + 1 => dir'[arch[i]] = dir[arch[i]]
    BY <1>4, <1>5, ArchiveFacts
  <2>3. ASSUME NEW i \in 1..Len(arch), arch[i] \notin touched
        PROVE  /\ i <= got + 1 => dir'[arch[i]] = "new" \/ faulty'
               /\ i > got + 1 => dir'[arch[i]] = before[arch[i]]
    <3>1. CASE i <= got
      BY <1>2, <1>3, <2>2, <2>3, <3>1 DEF InOrder
    <3>2. CASE i = got + 1
      BY <1>3, <1>5, <2>3, <3>2 DEF Entry
    <3>3. CASE i > got + 1
      BY <1>3, <2>2, <2>3, <3>3 DEF InOrder
    <3> QED BY <1>3, <3>1, <3>2, <3>3
  <2> QED BY <1>1, <1>2, <1>3, <2>1, <2>3 DEF InOrder, InArchive
<1>9. Owning'
  BY <1>1, <1>2 DEF Owning, IInv, Waited
<1> QED BY <1>6, <1>7, <1>8, <1>9

LEMMA ChangeKeeps ==
  ASSUME RInv, IInv', LiveChange
  PROVE  RInv'
<1> USE DEF RInv
<1>1. PICK n \in Names, what \in {"live", "none"} : Change(n, what)
  BY DEF LiveChange
<1>2. /\ touched' = touched \cup {n} /\ dir' = [dir EXCEPT ![n] = what] /\ owned' = owned \ {n}
      /\ UNCHANGED <<vars, phase, status, arch, tail, opened, faulty, todo, before>>
      /\ phase \in {"pipe", "chown"}
  BY <1>1 DEF Change
<1>3. DirOK'
  BY <1>2 DEF DirOK, Contents
<1>4. Stream' /\ Told'
  BY <1>2 DEF Stream, Told, vars
<1>5. \A m \in Names : m # n => dir'[m] = dir[m]
  BY <1>2 DEF DirOK
<1>6. InOrder'
  BY <1>2, <1>5, ArchiveFacts DEF InOrder, InArchive, vars
<1>7. Owning'
  BY <1>2, <1>5 DEF Owning, Present, vars
<1> QED BY <1>3, <1>4, <1>6, <1>7

\* Where a restore begins, an earlier one's end is what is there before.
LEMMA StartKeeps ==
  ASSUME RInv, IInv', StartRestore
  PROVE  RInv'
<1> USE DEF RInv
<1>1. /\ before' = dir /\ touched' = {} /\ dir' = dir /\ got' = 0
      /\ opened' = FALSE /\ faulty' = FALSE /\ phase' = "pipe" /\ status' = 0 /\ cons' = "none"
      /\ arch' \in Archives
  BY DEF StartRestore, Offered, StartDir
<1>2. Len(arch') \in Nat /\ \A i \in 1..Len(arch') : arch'[i] \in Names
  BY <1>1, RestoreAssumption DEF RestoreAssumption
<1>3. DirOK'
  BY <1>1 DEF DirOK
<1>4. Stream'
  <2>1. total' \in Nat /\ total' <= Len(arch') /\ (tail' = "whole" => total' = Len(arch'))
    BY <1>2 DEF StartRestore, Offered
  <2> QED BY <1>1, <2>1 DEF Stream
<1>5. InOrder'
  BY <1>1, <1>2 DEF InOrder, InArchive
<1>6. Told' /\ Owning'
  BY <1>1 DEF Told, Owning
<1> QED BY <1>3, <1>4, <1>5, <1>6

LEMMA RInvStep == RInv /\ [RestoreNext]_allVars => RInv'
<1> SUFFICES ASSUME RInv, [RestoreNext]_allVars PROVE RInv'
  OBVIOUS
<1>1. CASE UNCHANGED allVars
  <2>1. IInv'
    BY <1>1, IInvStep DEF allVars, RInv
  <2> QED BY <1>1, <2>1 DEF allVars, vars, restoreVars, dirVars, RInv, DirOK, Stream, InOrder, InArchive,
        Told, Owning, Present
<1>2. CASE RestoreNext
  <2>1. IInv'
    BY <1>2, PipelineStep DEF RInv
  <2> QED BY <1>2, <2>1, ChildrenKeep, HandlerKeeps, OpenKeeps, FillKeeps, ChangeKeeps, StartKeeps
       DEF RestoreNext, Handler, Tar
<1> QED BY <1>1, <1>2

LEMMA RestoreInvariance == RestoreSpec => []RInv
BY InitRInv, RInvStep, PTL DEF RestoreSpec

\* A restore that is answered with 200 has moved a whole stream.
THEOREM RestorePipeDone == RestoreSpec => []DoneMeansWhole
<1>1. RInv => DoneMeansWhole
  BY DEF RInv, IInv, DoneMeansWhole, TypeOK, Conserved, Waited, ExitsTrue
<1> QED BY <1>1, RestoreInvariance, PTL

\* A restore is stuck only on a tar that has died too early.
THEOREM RestoreBlocked == RestoreSpec => []BlockedOnlyByDeath
<1>1. RInv => BlockedOnlyByDeath
  BY PipeAssumption
     DEF PipeAssumption, RInv, IInv, BlockedOnlyByDeath, Blocked, TypeOK, Conserved, ExitsTrue, Exited
<1> QED BY <1>1, RestoreInvariance, PTL

\* "restored" is true of every file of a whole archive, for all archives and
\* whatever failed before.
THEOREM RestoredWhole == RestoreSpec => []RestoredIsWhole
<1>1. RInv => RestoredIsWhole
  <2> SUFFICES ASSUME RInv, phase = "answered", status = 200
               PROVE  /\ tail = "whole" => \A n \in Names \ touched : InArchive(n) => dir[n] = "new"
                      /\ Present \ touched \subseteq owned
    BY DEF RestoredIsWhole
  <2> USE DEF RInv
  <2>1. gw = "done" /\ Present \ touched \subseteq owned
    BY DEF Owning
  <2>2. left = 0 /\ got = total /\ ~faulty
    BY <2>1 DEF IInv, TypeOK, Conserved, Waited, ExitsTrue, Told
  <2>3. ASSUME tail = "whole", NEW n \in Names \ touched, InArchive(n)
        PROVE  dir[n] = "new"
    <3>1. PICK i \in 1..Len(arch) : arch[i] = n
      BY <2>3 DEF InArchive
    <3>2. i <= got
      BY <2>2, <2>3, Place DEF Stream
    <3> QED BY <2>2, <2>3, <3>1, <3>2 DEF InOrder
  <2> QED BY <2>1, <2>3
<1> QED BY <1>1, RestoreInvariance, PTL

\* At every moment of every attempt the directory is the old one up to an
\* entry and the archive's before it.
THEOREM RestoreInOrder == RestoreSpec => []ReplacedInOrder
<1>1. RInv => ReplacedInOrder
  <2> SUFFICES ASSUME RInv PROVE ReplacedInOrder
    OBVIOUS
  <2> USE DEF RInv
  <2>1. faulty => status # 200
    <3>1. status = 200 => gw = "done"
      BY DEF Owning, DirOK
    <3> QED BY <3>1 DEF Told, IInv, Waited
  <2>2. ASSUME NEW i \in 1..Len(arch), arch[i] \notin touched
        PROVE  /\ i <= got    => dir[arch[i]] = "new" \/ faulty
               /\ i = got + 1 => dir[arch[i]] \in {before[arch[i]], "part"}
               /\ i > got + 1 => dir[arch[i]] = before[arch[i]]
    BY <2>2 DEF InOrder
  <2> QED BY <2>1, <2>2 DEF ReplacedInOrder, InOrder
<1> QED BY <1>1, RestoreInvariance, PTL

-----------------------------------------------------------------------------
\* What the invariant does not need of the rest of the state.
Rest ==
  /\ status \in {0, 200, 404, 500} /\ tail \in {"whole", "frame", "cut"}
  /\ owned \subseteq Names /\ todo \subseteq Names /\ touched \subseteq Names
  /\ attempts \in 0..MaxAttempts

LEMMA RestStep ==
  ASSUME RInv, Rest, [RestoreNext]_allVars
  PROVE  Rest'
<1> USE DEF Rest
<1>1. CASE UNCHANGED allVars
  BY <1>1 DEF allVars, restoreVars, dirVars
<1>2. CASE StartRestore
  BY <1>2, RestoreAssumption DEF RestoreAssumption, StartRestore, Offered
<1>3. CASE NoBackup
  BY <1>3, RestoreAssumption DEF RestoreAssumption, NoBackup, Answer, dirVars
<1>4. CASE Handler
  <2>1. /\ UNCHANGED <<tail, touched, attempts>> /\ status' \in {status, 200, 500}
        /\ owned' = owned \/ (\E n \in todo : owned' = owned \cup {n})
        /\ todo' \subseteq todo \/ todo' = Present
    <3>1. CASE ChownNext
      <4>1. Min(todo) \in todo
        <5>1. todo \in SUBSET Nat /\ todo # {}
          BY <3>1, RestoreAssumption DEF RestoreAssumption, ChownNext
        <5> QED BY <5>1, MinNat
      <4> HIDE DEF Rest
      <4> QED BY <3>1, <4>1 DEF ChownNext, Answer
    <3> QED BY <1>4, <3>1 DEF Handler, RunPipeline, PipelineFailed, StartChown, ToChown, Restored, Answer,
               restoreVars, dirVars
  <2>2. todo' \subseteq Names
    BY <2>1 DEF Present
  <2>3. owned' \subseteq Names /\ status' \in {0, 200, 404, 500}
    BY <2>1
  <2> QED BY <2>1, <2>2, <2>3
<1>5. CASE Decompress \/ TarExits \/ ChildDies
  <2>1. UNCHANGED restoreVars
    BY <1>5 DEF Decompress, TarExits, ChildDies
  <2> QED BY <2>1 DEF restoreVars, dirVars
<1>6. CASE OpenEntry \/ FillEntry \/ SkipEntry
  <2>1. owned' \subseteq owned /\ UNCHANGED <<status, tail, todo, touched, attempts>>
    BY <1>6 DEF OpenEntry, FillEntry, SkipEntry
  <2> QED BY <2>1
<1>7. CASE LiveChange
  <2>1. PICK n \in Names, what \in {"live", "none"} : Change(n, what)
    BY <1>7 DEF LiveChange
  <2> QED BY <2>1 DEF Change
<1> QED BY <1>1, <1>2, <1>3, <1>4, <1>5, <1>6, <1>7 DEF RestoreNext, Tar

\* The state is always of its type: chownRecursive is never left with names
\* outside the directory, and tar never past the end of the archive.
THEOREM RestoreTypes == RestoreSpec => []RestoreTypeOK
<1>1. RestoreInit => Rest
  BY RestoreAssumption DEF RestoreAssumption, RestoreInit, Rest
<1>2. RInv /\ Rest => RestoreTypeOK
  BY Place DEF RInv, Rest, IInv, DirOK, RestoreTypeOK
<1> QED BY <1>1, <1>2, RestStep, RestoreInvariance, PTL DEF RestoreSpec

-----------------------------------------------------------------------------
\* What the walk has before it, and where it stopped.
Walked ==
  /\ phase = "chown" => gw = "done" /\ \A n \in todo : dir[n] # "none" \/ n \in touched
  /\ phase = "answered" /\ status = 500 /\ gw = "done" =>
       \E n \in Links \cup touched : \A m \in Present \ touched : m < n => m \in owned

\* The first in a walk's order comes before all the others.
LEMMA MinIsLeast ==
  ASSUME NEW S \in SUBSET Nat, S # {}
  PROVE  \A m \in S : Min(S) <= m
<1>1. \E n \in S : \A m \in S : n <= m
  BY LeastNat
<1> QED BY <1>1 DEF Min

LEMMA WalkedStep ==
  ASSUME RInv, Rest, Walked, [RestoreNext]_allVars
  PROVE  Walked'
<1>1. CASE UNCHANGED allVars
  BY <1>1 DEF allVars, vars, restoreVars, dirVars, Walked, Present
<1>2. CASE StartRestore
  BY <1>2 DEF StartRestore, Walked
<1>3. CASE NoBackup
  BY <1>3 DEF NoBackup, Answer, Walked
<1>4. CASE RunPipeline
  BY <1>4 DEF RunPipeline, restoreVars, dirVars, Walked
<1>5. CASE PipelineFailed
  BY <1>5 DEF PipelineFailed, Answer, Walked, vars
<1>6. CASE StartChown
  BY <1>6 DEF StartChown, ToChown, Present, Walked, vars, dirVars
<1>7. CASE ChownNext
  <2> DEFINE n == Min(todo)
  <2>1. todo \in SUBSET Nat /\ todo # {}
    BY <1>7, RestoreAssumption DEF RestoreAssumption, ChownNext, Rest
  <2>2. n \in todo /\ \A m \in todo : n <= m
    BY <2>1, MinNat, MinIsLeast
  <2>3. phase = "chown" /\ UNCHANGED <<dir, touched, gw>>
    BY <1>7 DEF ChownNext, vars
  <2>4. CASE CannotChown(n)
    <3>1. phase' = "answered" /\ owned' = owned
      BY <1>7, <2>4 DEF ChownNext, Answer
    <3>2. n \in Links \cup touched
      BY <2>2, <2>3, <2>4 DEF CannotChown, Walked
    <3>3. ASSUME NEW m \in Present \ touched, m < n
          PROVE  m \in owned
      <4>1. m \in owned \cup todo
        BY <2>3 DEF RInv, Owning
      <4>2. m \notin todo
        <5>1. ASSUME m \in todo PROVE FALSE
          <6>1. n \in Nat /\ m \in Nat /\ n <= m
            BY <2>1, <2>2, <5>1
          <6> HIDE DEF n
          <6> QED BY <3>3, <6>1
        <5> QED BY <5>1
      <4> QED BY <4>1, <4>2
    <3> HIDE DEF n
    <3> QED BY <2>3, <3>1, <3>2, <3>3 DEF Walked, Present
  <2>5. CASE ~CannotChown(n)
    <3>1. phase' = phase /\ todo' \subseteq todo
      BY <1>7, <2>5 DEF ChownNext
    <3> QED BY <2>3, <3>1 DEF Walked
  <2> QED BY <2>4, <2>5
<1>8. CASE Restored
  BY <1>8 DEF Restored, Answer, Walked
<1>9. CASE Decompress \/ TarExits \/ ChildDies
  <2>1. UNCHANGED restoreVars /\ gw' = gw
    BY <1>9 DEF Decompress, TarExits, ChildDies, Produce, ProducerDone, ConsumerDone, ProducerFails,
       ConsumerFails, ExitProducer, ExitConsumer
  <2> QED BY <2>1 DEF restoreVars, dirVars, Walked, Present
<1>10. CASE OpenEntry \/ FillEntry \/ SkipEntry
  \* tar lives, so the pipeline has not ended.
  <2>1. cons = "live" /\ UNCHANGED <<gw, phase, status>>
    BY <1>10 DEF OpenEntry, FillEntry, SkipEntry, Consume, vars
  <2>2. gw # "done"
    BY <2>1 DEF RInv, IInv, Waited
  <2> QED BY <2>1, <2>2 DEF Walked
<1>11. CASE LiveChange
  <2>1. PICK n \in Names, what \in {"live", "none"} : Change(n, what)
    BY <1>11 DEF LiveChange
  <2>2. /\ phase \in {"pipe", "chown"} /\ UNCHANGED <<gw, phase, todo>>
        /\ touched' = touched \cup {n} /\ \A m \in Names : m # n => dir'[m] = dir[m]
    BY <2>1 DEF Change, vars, RInv, DirOK
  <2> QED BY <2>2 DEF Walked, Rest
<1> QED BY <1>1, <1>2, <1>3, <1>4, <1>5, <1>6, <1>7, <1>8, <1>9, <1>10, <1>11
     DEF RestoreNext, Handler, Tar

\* A restore that fails in the walk has replaced all of a whole archive, and
\* what it has not owned comes after a link or a file the server has changed.
THEOREM FailedWhole == RestoreSpec => []FailedIsWhole
<1>1. RestoreInit => Rest /\ Walked
  BY RestoreAssumption DEF RestoreAssumption, RestoreInit, Rest, Walked
<1>2. RInv /\ Walked => FailedIsWhole
  <2> SUFFICES ASSUME RInv, Walked, phase = "answered", status = 500, gw = "done"
               PROVE  tail = "whole" => \A n \in Names \ touched : InArchive(n) => dir[n] = "new"
    BY DEF FailedIsWhole, Walked
  <2> USE DEF RInv
  <2>1. left = 0 /\ got = total /\ ~faulty
    BY DEF IInv, TypeOK, Conserved, Waited, ExitsTrue, Told
  <2>2. ASSUME tail = "whole", NEW n \in Names \ touched, InArchive(n)
        PROVE  dir[n] = "new"
    <3>1. PICK i \in 1..Len(arch) : arch[i] = n
      BY <2>2 DEF InArchive
    <3>2. i <= got
      BY <2>1, <2>2, Place DEF Stream
    <3> QED BY <2>1, <2>2, <3>1, <3>2 DEF InOrder
  <2> QED BY <2>2
<1> QED BY <1>1, <1>2, RestStep, WalkedStep, RestoreInvariance, PTL DEF RestoreSpec
=============================================================================
