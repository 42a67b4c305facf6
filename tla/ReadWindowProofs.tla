-------------------------- MODULE ReadWindowProofs --------------------------
(***************************************************************************)
(* Proofs about ReadWindow: what a read returns of a file that changes     *)
(* under it, for all sizes, limits and windows and any number of changes.  *)
(*                                                                         *)
(* WindowIsExact is not inductive: IInv adds what holds on the way to the  *)
(* answer.  While steady, the file os.Stat saw still begins with the bytes *)
(* it had then, is the one that is opened and read, and has grown by no    *)
(* more than grown counts.                                                 *)
(***************************************************************************)
EXTENDS ReadWindow, TLAPS

Placed == pc = "read" \/ Succeeded

\* The bytes os.Stat measured are in their place in the file that is read.
Kept ==
  pc \in {"open", "read"} /\ steady =>
    /\ st <= size[node] /\ size[node] <= st + grown
    /\ \A k \in 1..st : data[node][k] = snap[k]
    /\ pc = "open" => at = node
    /\ pc = "read" => fd = node

\* The buffer's window, and the limits the request has passed.
Framed ==
  /\ pc \in {"ask", "stat", "open"} => got = 0
  /\ Placed => len = Window(st) /\ off = Offset(st)
  /\ pc = "open" \/ Placed => (call.op = "file" => st <= MaxRead)
  /\ pc \in {"stat", "open"} \/ Placed => (call.op # "file" => call.max <= HardMax)

\* What is in the buffer so far.
Filled ==
  Placed /\ steady =>
    /\ \A k \in 1..got : off + k <= st => buf[k] = snap[off + k]
    /\ call.op = "file" => got <= st + grown
    /\ Succeeded => got >= Least(len, st - off)

\* A file that comes to the path is a new one.
Known == at <= used /\ node <= used

IInv == TypeOK /\ Known /\ Kept /\ Framed /\ Filled

-----------------------------------------------------------------------------
LEMMA Numbers ==
  /\ MaxSize \in Nat /\ MaxChanges \in Nat /\ MaxRead \in Nat /\ HardMax \in Nat
  /\ MaxNodes \in Nat /\ MaxNodes > 0
BY ReadAssumption DEF ReadAssumption

LEMMA TheCall ==
  ASSUME ReadOK
  PROVE  call.max \in Nat /\ call.max > 0 /\ call.op \in {"file", "start", "end"}
BY ReadAssumption DEF ReadAssumption, ReadOK, Call

\* Where a window lies in a file of s bytes.
LEMMA WindowFits ==
  ASSUME TypeOK, NEW s \in 0..MaxSize
  PROVE  /\ Window(s) \in 0..MaxSize /\ Offset(s) \in 0..MaxSize
         /\ call.op # "file" => /\ Window(s) = Least(s, call.max)
                                /\ Offset(s) + Window(s) <= s
                                /\ call.op = "end" => Offset(s) + Window(s) = s
                                /\ call.op = "start" => Offset(s) = 0
         /\ call.op = "file" => Window(s) = MaxSize /\ Offset(s) = 0
BY Numbers, TheCall DEF TypeOK, Window, Offset, Least

LEMMA InitIInv == Init => IInv
<1> SUFFICES ASSUME Init PROVE IInv
  OBVIOUS
<1> USE ReadAssumption DEF ReadAssumption, Init
<1>1. TypeOK
  BY DEF TypeOK, FilesOK, ReadOK, HistoryOK, NoWrite, Files, NoFile, Positions, Changes
<1>2. Known /\ Kept /\ Framed /\ Filled
  BY Numbers DEF Known, NoFile, Kept, Framed, Filled, Placed, Succeeded
<1> QED BY <1>1, <1>2 DEF IInv

-----------------------------------------------------------------------------
\* The others' steps.

\* They leave the read alone.
LEMMA ReadStays ==
  ASSUME ReadOK, UNCHANGED readVars
  PROVE  ReadOK'
BY DEF ReadOK, readVars

LEMMA FramedStays ==
  ASSUME Framed, UNCHANGED readVars
  PROVE  Framed'
BY DEF Framed, Placed, Succeeded, Window, Offset, readVars

LEMMA GrowKeeps ==
  ASSUME IInv, NEW f \in Files, Grow(f)
  PROVE  IInv'
<1> USE Numbers DEF IInv, TypeOK, Grow, Change
<1> DEFINE k == size[f] + 1
<1>1. size[f] \in 0..MaxSize /\ k \in Positions /\ changes + 1 \in Changes
  <2>1. FilesOK /\ size[f] < MaxSize /\ changes < MaxChanges
    OBVIOUS
  <2> HIDE DEF IInv, TypeOK, Grow, Change
  <2>2. size[f] \in 0..MaxSize /\ changes \in 0..MaxChanges
    BY <2>1 DEF FilesOK, Changes
  <2> QED BY <2>1, <2>2 DEF Positions, Changes
<1>2. FilesOK'
  <2>1. size' \in [Files -> 0..MaxSize]
    BY <1>1 DEF FilesOK
  <2>2. [data[f] EXCEPT ![k] = changes + 1] \in [Positions -> Changes]
    BY <1>1 DEF FilesOK
  <2>3. data' = [data EXCEPT ![f] = [data[f] EXCEPT ![k] = changes + 1]]
    BY DEF FilesOK
  <2>4. data' \in [Files -> [Positions -> Changes]]
    BY <2>2, <2>3 DEF FilesOK
  <2> HIDE DEF k
  <2> QED BY <1>1, <2>1, <2>4 DEF FilesOK
<1>3. HistoryOK'
  BY DEF HistoryOK, readVars
<1>4. Kept'
  <2> SUFFICES ASSUME pc \in {"open", "read"}, steady PROVE Kept'
    BY DEF Kept, readVars
  <2>1. node \in Files /\ size[node] \in 0..MaxSize /\ st \in 0..MaxSize /\ grown \in Nat
    BY DEF HistoryOK, FilesOK, NoFile, ReadOK
  <2>2. CASE f = node
    <3>1. size'[node] = size[node] + 1 /\ grown' = grown + 1
      BY <2>1, <2>2 DEF FilesOK, Follows
    <3>2. \A i \in 1..st : data'[node][i] = data[node][i]
      BY <1>1, <2>1, <2>2 DEF FilesOK, Kept, Positions
    <3> QED BY <2>1, <3>1, <3>2 DEF Kept, readVars
  <2>3. CASE f # node
    <3>1. size'[node] = size[node] /\ grown' = grown /\ data'[node] = data[node]
      BY <2>1, <2>3 DEF FilesOK, Follows
    <3> QED BY <2>1, <3>1 DEF Kept, readVars
  <2> QED BY <2>2, <2>3
<1>5. Filled'
  BY DEF HistoryOK, ReadOK, Filled, Placed, Succeeded, Follows, Least, readVars
<1> QED BY <1>2, <1>3, <1>4, <1>5, ReadStays, FramedStays DEF Known

LEMMA ReplaceKeeps ==
  ASSUME IInv, Replace
  PROVE  IInv'
<1> USE Numbers DEF IInv, TypeOK, Replace, Change
<1>1. FilesOK'
  <2>1. changes + 1 \in Changes /\ used + 1 \in Files /\ used' \in Files /\ at' \in Files
    BY DEF FilesOK, Changes, Files
  <2>2. PICK n \in Sizes : size' = [size EXCEPT ![used + 1] = n]
    OBVIOUS
  <2>3. size' \in [Files -> 0..MaxSize]
    BY <2>2, ReadAssumption DEF ReadAssumption, FilesOK
  <2>4. data' \in [Files -> [Positions -> Changes]]
    BY <2>1 DEF FilesOK
  <2> QED BY <2>1, <2>3, <2>4 DEF FilesOK
<1>2. HistoryOK'
  BY DEF HistoryOK, readVars
<1>3. Kept'
  <2> SUFFICES ASSUME pc = "read", steady PROVE Kept'
    BY DEF Kept, readVars
  <2>1. node \in Files /\ node # used + 1
    BY DEF HistoryOK, FilesOK, Known, NoFile, Files
  <2>2. size'[node] = size[node] /\ data'[node] = data[node]
    BY <2>1 DEF FilesOK
  <2> QED BY <2>2 DEF Kept, readVars
<1>4. Filled'
  BY DEF HistoryOK, Filled, Placed, Succeeded, readVars
<1>5. Known'
  BY DEF Known, FilesOK, HistoryOK, Files, NoFile
<1> QED BY <1>1, <1>2, <1>3, <1>4, <1>5, ReadStays, FramedStays

LEMMA RemoveKeeps ==
  ASSUME IInv, Remove
  PROVE  IInv'
<1> USE Numbers DEF IInv, TypeOK, Remove, Change
<1>1. FilesOK'
  BY DEF FilesOK, Changes
<1>2. HistoryOK'
  BY DEF HistoryOK, readVars
<1>3. Kept'
  BY DEF Kept, readVars
<1>4. Filled'
  BY DEF HistoryOK, Filled, Placed, Succeeded, readVars
<1>5. Known'
  BY DEF Known, NoFile, FilesOK, Files
<1> QED BY <1>1, <1>2, <1>3, <1>4, <1>5, ReadStays, FramedStays

LEMMA WriteOpenKeeps ==
  ASSUME IInv, WriteOpen
  PROVE  IInv'
<1> USE Numbers DEF IInv, TypeOK, WriteOpen, Change
<1>1. PICK n \in Sizes : wr' = [to |-> IF at = NoFile THEN used + 1 ELSE at, len |-> n]
  OBVIOUS
<1>2. n \in 0..MaxSize
  BY ReadAssumption DEF ReadAssumption
<1>3. /\ at' \in Files /\ used' \in Files /\ used' >= used /\ wr'.to = at'
      /\ at' = at \/ at' = used + 1
  BY <1>1 DEF FilesOK, Files, NoFile
<1>4. FilesOK'
  <2>1. wr' = [to |-> at', len |-> n]
    BY <1>1, <1>3
  <2>2. size' \in [Files -> 0..MaxSize]
    <3>1. size' = [size EXCEPT ![at'] = 0]
      BY <1>3
    <3> QED BY <1>3, <3>1 DEF FilesOK
  <2>3. changes' \in Changes
    BY DEF FilesOK, Changes
  <2> QED BY <1>2, <1>3, <2>1, <2>2, <2>3 DEF FilesOK
<1>5. HistoryOK'
  BY DEF HistoryOK, readVars
<1>6. Known'
  BY <1>3 DEF Known, FilesOK, HistoryOK, Files, NoFile
<1>7. Kept'
  <2> SUFFICES ASSUME pc \in {"open", "read"}, steady' PROVE Kept'
    BY DEF Kept, readVars
  <2>1. node \in Files /\ node # wr'.to /\ steady
    BY DEF HistoryOK, FilesOK, NoFile, Follows
  <2>2. size'[node] = size[node]
    BY <2>1 DEF FilesOK
  <2>3. pc = "open" => at' = at
    BY <2>1 DEF Kept, FilesOK, Files, NoFile
  <2> QED BY <2>1, <2>2, <2>3 DEF Kept, readVars
<1>8. Filled'
  BY DEF HistoryOK, Filled, Placed, Succeeded, readVars
<1> QED BY <1>4, <1>5, <1>6, <1>7, <1>8, ReadStays, FramedStays

LEMMA WriteFillKeeps ==
  ASSUME IInv, WriteFill
  PROVE  IInv'
<1> USE Numbers DEF IInv, TypeOK, WriteFill, Change
<1>1. wr.to \in Files \cup {NoFile} /\ wr.len \in 0..MaxSize
  BY DEF FilesOK
<1>2. FilesOK'
  <2>1. size' \in [Files -> 0..MaxSize]
    BY <1>1 DEF FilesOK
  <2>2. data' \in [Files -> [Positions -> Changes]]
    <3> DEFINE filled == [k \in Positions |-> IF k <= wr.len THEN changes + 1 ELSE data[wr.to][k]]
    <3>1. changes + 1 \in Changes
      BY DEF FilesOK, Changes
    <3>2. wr.to \in Files => filled \in [Positions -> Changes]
      BY <3>1 DEF FilesOK
    <3>3. wr.to \in Files => data' = [data EXCEPT ![wr.to] = filled]
      BY DEF FilesOK
    <3>4. wr.to \notin Files => data' = data
      BY DEF FilesOK
    <3> HIDE DEF filled
    <3> QED BY <3>2, <3>3, <3>4 DEF FilesOK
  <2>3. wr' \in [to : Files \cup {NoFile}, len : 0..MaxSize] /\ changes' \in Changes
    BY DEF FilesOK, NoWrite, Changes
  <2> QED BY <2>1, <2>2, <2>3 DEF FilesOK
<1>3. HistoryOK'
  BY <1>1 DEF HistoryOK, readVars
<1>4. Known'
  BY DEF Known
<1>5. Kept'
  <2> SUFFICES ASSUME pc \in {"open", "read"}, steady' PROVE Kept'
    BY DEF Kept, readVars
  <2>1. node \in Files /\ steady /\ size[node] \in 0..MaxSize /\ st \in 0..MaxSize /\ grown \in Nat
    BY DEF HistoryOK, FilesOK, NoFile, ReadOK
  <2>2. CASE wr.to = node
    <3>1. Follows(wr.to)
      BY <2>2 DEF Follows
    <3>2. ~(size[node] > 0)
      BY <2>2, <3>1
    <3>3. size[node] = 0 /\ st = 0
      BY <2>1, <3>2 DEF Kept
    <3>4. grown' = grown + wr.len
      BY <3>1
    <3>5. size'[node] = wr.len
      BY <2>1, <2>2, <3>3, <1>1 DEF FilesOK
    <3> QED BY <1>1, <2>1, <3>3, <3>4, <3>5 DEF Kept, readVars
  <2>3. CASE wr.to # node
    <3>1. size'[node] = size[node] /\ data'[node] = data[node] /\ grown' = grown
      BY <2>1, <2>3 DEF FilesOK, Follows
    <3> QED BY <2>1, <3>1 DEF Kept, readVars
  <2> QED BY <2>2, <2>3
<1>6. Filled'
  BY <1>1 DEF HistoryOK, ReadOK, Filled, Placed, Succeeded, Follows, Least, readVars
<1> QED BY <1>2, <1>3, <1>4, <1>5, <1>6, ReadStays, FramedStays

-----------------------------------------------------------------------------
\* The read's own steps.

LEMMA AskKeeps ==
  ASSUME IInv, Ask
  PROVE  IInv'
<1> USE Numbers, TheCall DEF IInv, TypeOK, Ask, fileVars, histVars
<1>1. FilesOK' /\ Known' /\ HistoryOK'
  BY DEF FilesOK, Known, HistoryOK, Answer
<1>2. CASE call.op # "file" /\ call.max > HardMax
  BY <1>1, <1>2 DEF ReadOK, Answer, Kept, Framed, Filled, Placed, Succeeded
<1>3. CASE ~(call.op # "file" /\ call.max > HardMax)
  BY <1>1, <1>3 DEF ReadOK, Kept, Framed, Filled, Placed, Succeeded
<1> QED BY <1>2, <1>3

LEMMA StatKeeps ==
  ASSUME IInv, Stat
  PROVE  IInv'
<1> USE Numbers, TheCall DEF IInv, TypeOK, Stat, fileVars
<1>1. FilesOK'
  BY DEF FilesOK
<1>2. CASE Refusal # 0
  <2>1. Refusal \in {0, 404, 500, 400, 415}
    BY DEF Refusal
  <2>2. ReadOK' /\ HistoryOK' /\ Known'
    BY <1>2, <2>1 DEF ReadOK, HistoryOK, Known, Answer
  <2>3. Kept' /\ Framed' /\ Filled'
    BY <1>2, <2>1 DEF Answer, Kept, Framed, Filled, Placed, Succeeded
  <2> QED BY <1>1, <2>2, <2>3
<1>3. CASE Refusal = 0
  <2>1. at \in Files /\ (call.op = "file" => size[at] <= MaxRead)
    BY <1>3 DEF Refusal, FilesOK
  <2>2. size[at] \in 0..MaxSize /\ data[at] \in [Positions -> Changes] /\ st' = size[at]
    BY <1>3, <2>1 DEF FilesOK
  <2>3. ReadOK'
    BY <1>3, <2>2 DEF ReadOK
  <2>4. HistoryOK' /\ Known'
    BY <1>3, <2>1, <2>2 DEF HistoryOK, Known, Files, NoFile
  <2>5. Kept'
    BY <1>3, <2>1, <2>2 DEF Kept
  <2>6. Framed' /\ Filled'
    BY <1>3, <2>1, <2>2 DEF Framed, Filled, Placed, Succeeded
  <2> QED BY <1>1, <2>3, <2>4, <2>5, <2>6
<1> QED BY <1>2, <1>3

LEMMA OpenKeeps ==
  ASSUME IInv, Open
  PROVE  IInv'
<1> USE Numbers, TheCall DEF IInv, TypeOK, Open, fileVars, histVars
<1>1. FilesOK' /\ HistoryOK' /\ Known'
  BY DEF FilesOK, HistoryOK, Known, Answer
<1>2. CASE at = NoFile
  BY <1>1, <1>2 DEF ReadOK, Answer, Kept, Framed, Filled, Placed, Succeeded
<1>3. CASE at # NoFile
  <2>1. st \in 0..MaxSize /\ got = 0
    BY DEF ReadOK, Framed
  <2>2. len' \in 0..MaxSize /\ off' \in 0..MaxSize /\ fd' \in Files
    BY <1>3, <2>1, WindowFits DEF FilesOK
  <2>3. ReadOK'
    BY <1>3, <2>1, <2>2 DEF ReadOK, NoFile, Files
  <2>4. Kept'
    BY <1>3 DEF Kept
  <2>5. Framed'
    BY <1>3, <2>1 DEF Framed, Placed, Succeeded, Window, Offset
  <2>6. Filled'
    BY <1>3, <2>1 DEF ReadOK, HistoryOK, Filled, Placed, Succeeded
  <2> QED BY <1>1, <2>3, <2>4, <2>5, <2>6
<1> QED BY <1>2, <1>3

LEMMA ReadKeeps ==
  ASSUME IInv, Read
  PROVE  IInv'
<1> USE Numbers, TheCall DEF IInv, TypeOK, Read, fileVars, histVars
<1>1. FilesOK' /\ HistoryOK' /\ Known'
  BY DEF FilesOK, HistoryOK, Known
<1>2. /\ fd \in Files /\ size[fd] \in 0..MaxSize /\ data[fd] \in [Positions -> Changes]
      /\ len \in 0..MaxSize /\ off \in 0..MaxSize /\ got \in 0..len /\ st \in 0..MaxSize
      /\ grown \in Nat
  BY DEF ReadOK, FilesOK, HistoryOK, NoFile
<1>3. PICK n \in Positions :
        /\ n <= Left
        /\ got' = got + n
        /\ buf' = [k \in Positions |-> IF k \in got + 1 .. got + n THEN data[fd][off + k] ELSE buf[k]]
  OBVIOUS
<1>4. got + n <= len /\ off + got + n <= size[fd] /\ n \in Nat
  BY <1>2, <1>3 DEF Left, Least, Positions
<1>5. ReadOK'
  <2>1. \A k \in Positions : k \in got + 1 .. got + n => off + k \in Positions
    <3>1. \A k \in got + 1 .. got + n : off + k \in Nat /\ 1 <= off + k /\ off + k <= size[fd] /\ size[fd] <= MaxSize
      <4> HIDE DEF IInv, TypeOK, Read
      <4> QED BY <1>2, <1>4
    <3> HIDE DEF IInv, TypeOK, Read
    <3>2. \A k \in got + 1 .. got + n : off + k \in 1..MaxSize
      BY <1>2, <3>1
    <3> QED BY <3>2 DEF Positions
  <2>2. buf' \in [Positions -> Changes]
    BY <1>2, <1>3, <2>1 DEF ReadOK
  <2>3. got' \in 0..len'
    BY <1>2, <1>3, <1>4
  <2> QED BY <2>2, <2>3 DEF ReadOK
<1>6. Kept'
  BY DEF Kept
<1>7. Framed'
  BY DEF Framed, Placed, Succeeded, Window, Offset
<1>8. Filled'
  <2> SUFFICES ASSUME steady PROVE Filled'
    BY DEF Filled
  <2>1. \A k \in 1..got' : off + k <= st => buf'[k] = snap[off + k]
    <3> SUFFICES ASSUME NEW k \in 1..got', off + k <= st
                 PROVE  buf'[k] = snap[off + k]
      OBVIOUS
    <3>1. k \in Positions /\ off + k \in 1..st
      BY <1>2, <1>3, <1>4 DEF Positions
    <3>2. CASE k <= got
      BY <1>2, <1>3, <3>1, <3>2 DEF Filled, Placed
    <3>3. CASE k > got
      <4>1. buf'[k] = data[fd][off + k]
        BY <1>2, <1>3, <1>4, <3>1, <3>3
      <4> QED BY <3>1, <4>1 DEF Kept
    <3> QED BY <1>2, <3>1, <3>2, <3>3
  <2>2. call.op = "file" => got' <= st + grown
    BY <1>2, <1>3, <1>4 DEF Kept
  <2> QED BY <2>1, <2>2 DEF Filled, Succeeded
<1> QED BY <1>1, <1>5, <1>6, <1>7, <1>8

LEMMA FinishKeeps ==
  ASSUME IInv, Finish
  PROVE  IInv'
<1> USE Numbers, TheCall DEF IInv, TypeOK, Finish, Answer, fileVars, histVars
<1>1. FilesOK' /\ HistoryOK' /\ Known' /\ ReadOK'
  BY DEF FilesOK, HistoryOK, Known, ReadOK
<1>2. Kept' /\ Framed'
  BY DEF Kept, Framed, Placed, Succeeded, Window, Offset
<1>3. /\ size[fd] \in 0..MaxSize /\ st \in 0..MaxSize
      /\ len \in 0..MaxSize /\ off \in 0..MaxSize /\ got \in 0..len
  BY DEF ReadOK, FilesOK, NoFile
<1>4. steady => got >= Least(len, st - off)
  BY <1>3 DEF Left, Least, Kept
<1>5. Filled'
  BY <1>4 DEF Filled, Placed, Succeeded, Least
<1> QED BY <1>1, <1>2, <1>5

-----------------------------------------------------------------------------
LEMMA IInvStep == IInv /\ [Next]_vars => IInv'
<1> SUFFICES ASSUME IInv, [Next]_vars PROVE IInv'
  OBVIOUS
<1>1. CASE UNCHANGED vars
  <2>1. TypeOK'
    BY <1>1 DEF vars, fileVars, readVars, histVars, IInv, TypeOK, FilesOK, ReadOK, HistoryOK
  <2> QED BY <1>1, <2>1 DEF vars, fileVars, readVars, histVars, IInv, Known, Kept, Framed, Filled,
             Placed, Succeeded, Window, Offset
<1>2. CASE Writers
  BY <1>2, GrowKeeps, ReplaceKeeps, RemoveKeeps, WriteOpenKeeps, WriteFillKeeps DEF Writers
<1> QED BY <1>1, <1>2, AskKeeps, StatKeeps, OpenKeeps, ReadKeeps, FinishKeeps DEF Next

LEMMA Invariance == Spec => []IInv
BY InitIInv, IInvStep, PTL DEF Spec

\* No read fills its buffer past its end or reads past the end of its file,
\* however the file changes.
THEOREM TypeCorrect == Spec => []TypeOK
BY Invariance, PTL DEF IInv

\* A read of a file that only grows returns exactly the window it was asked
\* for of the file it measured, for all sizes and limits.
THEOREM WindowExact == Spec => []WindowIsExact
<1>1. IInv => WindowIsExact
  <2> SUFFICES ASSUME IInv, Succeeded, steady
               PROVE  /\ CASE call.op = "file"  -> off = 0 /\ got >= st
                           [] call.op = "start" -> off = 0 /\ got = Least(st, call.max)
                           [] call.op = "end"   -> got = Least(st, call.max) /\ off + got = st
                      /\ \A k \in 1..got : off + k <= st => buf[k] = snap[off + k]
                      /\ Truncated <=> got < st
    BY DEF WindowIsExact
  <2> USE DEF IInv, TypeOK
  <2>1. /\ st \in 0..MaxSize /\ len \in 0..MaxSize /\ off \in 0..MaxSize /\ got \in 0..len
        /\ MaxSize \in Nat
    BY Numbers DEF ReadOK
  <2>2. len = Window(st) /\ off = Offset(st) /\ got >= Least(len, st - off)
    BY DEF Framed, Filled, Placed
  <2>3. \A k \in 1..got : off + k <= st => buf[k] = snap[off + k]
    BY DEF Filled, Placed
  <2>4. call.max \in Nat /\ call.max > 0 /\ call.op \in {"file", "start", "end"}
    BY TheCall
  <2>5. CASE call.op = "file"
    BY <2>1, <2>2, <2>3, <2>5, WindowFits DEF Least, Truncated
  <2>6. CASE call.op = "start"
    BY <2>1, <2>2, <2>3, <2>4, <2>6, WindowFits DEF Least, Truncated
  <2>7. CASE call.op = "end"
    BY <2>1, <2>2, <2>3, <2>4, <2>7, WindowFits DEF Least, Truncated
  <2> QED BY <2>4, <2>5, <2>6, <2>7
<1> QED BY <1>1, Invariance, PTL

\* The limits hold whatever the writers do, for ReadFile up to what the file
\* has grown since it was measured.
THEOREM LimitsHold == Spec => []WithinLimit
<1>1. IInv => WithinLimit
  <2> SUFFICES ASSUME IInv, Succeeded
               PROVE  IF call.op = "file" THEN steady => got <= MaxRead + grown
                      ELSE got <= st /\ got <= call.max /\ got <= HardMax
    BY DEF WithinLimit
  <2> USE DEF IInv, TypeOK
  <2>1. /\ st \in 0..MaxSize /\ len \in 0..MaxSize /\ got \in 0..len /\ grown \in Nat
        /\ MaxSize \in Nat /\ MaxRead \in Nat /\ HardMax \in Nat /\ call.max \in Nat
    BY Numbers, TheCall DEF ReadOK, HistoryOK
  <2>2. CASE call.op = "file"
    BY <2>1, <2>2 DEF Framed, Filled, Placed
  <2>3. CASE call.op # "file"
    <3>1. len = Least(st, call.max)
      BY <2>1, <2>3, WindowFits DEF Framed, Placed
    <3>2. call.max <= HardMax
      BY <2>3 DEF Framed, Placed
    <3> QED BY <2>1, <2>3, <3>1, <3>2 DEF Least
  <2> QED BY <2>2, <2>3
<1> QED BY <1>1, Invariance, PTL
=============================================================================
