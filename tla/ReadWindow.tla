----------------------------- MODULE ReadWindow -----------------------------
(***************************************************************************)
(* ReadFile and ReadFileEx: a read of a file that is being written, such   *)
(* as a server's log.  The size is taken by os.Stat on the path, the file  *)
(* is opened afterwards, and the window computed from that size is read    *)
(* from it in as many pieces as the kernel cares to give.  In between the  *)
(* server appends, the log is rotated or truncated, and WriteFile, the     *)
(* deletion of a file and MoveFile work on the same path.                  *)
(*                                                                         *)
(* A file is a sequence of bytes, each known by the change that wrote it.  *)
(* Device files and sockets, and directories moved to the path, are left   *)
(* out: a read of the latter would fail.                                   *)
(***************************************************************************)
EXTENDS Integers

CONSTANTS
  Calls,      \* the reads that are made
  Sizes,      \* sizes of whole files that are written or moved to the path
  MaxRead,    \* maxFileReadSize, the limit of ReadFile
  HardMax,    \* readHardMaxBytes, the limit of max_bytes
  MaxWrite,   \* maxWriteFileSize, the limit of WriteFile
  MaxSize,    \* bound: no file is longer
  MaxNodes,   \* bound: files ever at the path
  MaxChanges  \* bound: changes of the path or of a file

\* "file" is GET files/read; "start" and "end" are GET read, by origin.
Call == [op : {"file", "start", "end"}, max : Nat]

ASSUME ReadAssumption ==
  /\ \A c \in Calls : c \in Call /\ c.max > 0
  /\ Sizes \subseteq 0..MaxSize
  /\ {MaxRead, HardMax, MaxWrite, MaxSize, MaxChanges} \subseteq Nat
  /\ MaxNodes \in Nat \ {0}

VARIABLES
  at,      \* the file at the path, or NoFile
  used,    \* files there have been
  kind,    \* file -> "file" or "dir"
  size,    \* file -> its size
  data,    \* file -> position -> the change that wrote the byte there
  changes,
  wr,      \* a WriteFile between os.WriteFile's open and its write: file, length
  call,    \* the read
  pc,      \* where its code stands
  code,    \* the status code of its answer
  st,      \* the size os.Stat gave
  fd,      \* the file it has open
  off,     \* where its window begins
  len,     \* the size of its buffer
  got,     \* how much of it is filled
  buf,     \* the bytes read
  node,    \* history: the file os.Stat saw
  snap,    \* history: its bytes then
  steady,  \* history: those bytes have stayed in place in the file that is read
  grown    \* history: bytes appended since

fileVars == <<at, used, kind, size, data, changes, wr>>
readVars == <<call, pc, code, st, fd, off, len, got, buf>>
histVars == <<node, snap, steady, grown>>
vars == <<fileVars, readVars, histVars>>

-----------------------------------------------------------------------------
NoFile    == 0
Files     == 1..MaxNodes
Positions == 1..MaxSize
Changes   == 0..MaxChanges
Least(m, n) == IF m < n THEN m ELSE n

NoWrite == [to |-> NoFile, len |-> 0]

FilesOK ==
  /\ at \in Files \cup {NoFile} /\ used \in Files
  /\ kind \in [Files -> {"file", "dir"}]
  /\ size \in [Files -> 0..MaxSize]
  /\ data \in [Files -> [Positions -> Changes]]
  /\ changes \in Changes
  /\ wr \in [to : Files \cup {NoFile}, len : 0..MaxSize]

ReadOK ==
  /\ call \in Calls
  /\ pc \in {"ask", "stat", "open", "read", "answered"}
  /\ code \in {0, 200, 400, 404, 413, 415, 500}
  /\ st \in 0..MaxSize /\ off \in 0..MaxSize /\ len \in 0..MaxSize /\ got \in 0..len
  /\ fd \in Files \cup {NoFile} /\ (pc = "read" => fd # NoFile)
  /\ buf \in [Positions -> Changes]

HistoryOK ==
  /\ node \in Files \cup {NoFile} /\ (pc \in {"open", "read"} => node # NoFile)
  /\ snap \in [Positions -> Changes] /\ steady \in BOOLEAN /\ grown \in Nat

TypeOK == FilesOK /\ ReadOK /\ HistoryOK

Init ==
  /\ at \in {NoFile, 1} /\ used = 1
  /\ kind \in [Files -> {"file", "dir"}]
  /\ \A f \in Files \ {1} : kind[f] = "file"
  /\ \E n \in Sizes : size = [f \in Files |-> IF f = 1 THEN n ELSE 0]
  /\ data = [f \in Files |-> [k \in Positions |-> 0]]
  /\ changes = 0 /\ wr = NoWrite
  /\ call \in Calls
  /\ pc = "ask" /\ code = 0 /\ st = 0 /\ fd = NoFile /\ off = 0 /\ len = 0 /\ got = 0
  /\ buf = [k \in Positions |-> 0]
  /\ node = NoFile /\ snap = [k \in Positions |-> 0] /\ steady = TRUE /\ grown = 0

-----------------------------------------------------------------------------
\* The others.  Each change has a number of its own.
Change == changes < MaxChanges /\ changes' = changes + 1

Follows(f) == pc \in {"open", "read"} /\ node = f

\* The server appends to its log.
Grow(f) ==
  /\ Change
  /\ size[f] < MaxSize
  /\ size' = [size EXCEPT ![f] = @ + 1]
  /\ data' = [data EXCEPT ![f][size[f] + 1] = changes + 1]
  /\ grown' = IF Follows(f) THEN grown + 1 ELSE grown
  /\ UNCHANGED <<at, used, kind, wr, readVars, node, snap, steady>>

\* A rotated log (size 0), or MoveFile: another file takes the path.
Replace ==
  /\ Change
  /\ used < MaxNodes /\ used' = used + 1 /\ at' = used + 1
  /\ \E n \in Sizes : size' = [size EXCEPT ![used + 1] = n]
  /\ data' = [data EXCEPT ![used + 1] = [k \in Positions |-> changes + 1]]
  /\ steady' = (steady /\ pc # "open")
  /\ UNCHANGED <<kind, wr, readVars, node, snap, grown>>

\* deleteFileHandler, or a log that is moved away.
Remove ==
  /\ Change
  /\ at # NoFile /\ at' = NoFile
  /\ steady' = (steady /\ pc # "open")
  /\ UNCHANGED <<used, kind, size, data, wr, readVars, node, snap, grown>>

\* WriteFile: os.WriteFile truncates the file, or makes it, and then writes.
MayWrite(n) == n <= MaxWrite

WriteOpen ==
  /\ Change /\ wr = NoWrite
  /\ \E n \in Sizes : /\ MayWrite(n)
                      /\ wr' = [to |-> IF at = NoFile THEN used + 1 ELSE at, len |-> n]
  /\ IF at = NoFile
     THEN used < MaxNodes /\ used' = used + 1 /\ at' = used + 1
     ELSE kind[at] = "file" /\ UNCHANGED <<at, used>>
  /\ size' = [size EXCEPT ![wr'.to] = 0]
  /\ steady' = (steady /\ ~Follows(wr'.to))
  /\ UNCHANGED <<kind, data, readVars, node, snap, grown>>

WriteFill ==
  /\ Change /\ wr # NoWrite /\ wr' = NoWrite
  /\ size' = [size EXCEPT ![wr.to] = IF @ < wr.len THEN wr.len ELSE @]
  /\ data' = [data EXCEPT ![wr.to] = [k \in Positions |-> IF k <= wr.len THEN changes + 1 ELSE @[k]]]
  /\ steady' = (steady /\ ~(Follows(wr.to) /\ size[wr.to] > 0))
  /\ grown' = IF Follows(wr.to) THEN grown + wr.len ELSE grown
  /\ UNCHANGED <<at, used, kind, readVars, node, snap>>

Writers == (\E f \in Files : f <= used /\ kind[f] = "file" /\ Grow(f))
             \/ Replace \/ Remove \/ WriteOpen \/ WriteFill

-----------------------------------------------------------------------------
\* The read.
Answer(c) == pc' = "answered" /\ code' = c

\* readHandler; readFileHandler has no max_bytes.
Ask ==
  /\ pc = "ask"
  /\ IF call.op # "file" /\ call.max > HardMax
     THEN Answer(413)
     ELSE pc' = "stat" /\ UNCHANGED code
  /\ UNCHANGED <<fileVars, call, st, fd, off, len, got, buf, histVars>>

\* Mutant: the limit of ReadFile is not looked at.
RefusalNoLimit ==
  IF at = NoFile THEN 404
  ELSE CASE call.op = "file" -> IF kind[at] = "dir" THEN 500 ELSE 0
         [] call.op # "file" -> IF kind[at] # "file" THEN 415 ELSE 0

\* What os.Stat tells, or 0 where the read goes on.
Refusal ==
  IF at = NoFile THEN 404
  ELSE CASE call.op = "file" -> IF kind[at] = "dir" THEN 500
                                ELSE IF size[at] > MaxRead THEN 400 ELSE 0
         [] call.op # "file" -> IF kind[at] # "file" THEN 415 ELSE 0

Stat ==
  /\ pc = "stat"
  /\ IF Refusal # 0
     THEN Answer(Refusal) /\ UNCHANGED <<st, node, snap, steady, grown>>
     ELSE /\ st' = size[at]
          /\ node' = at /\ snap' = data[at] /\ steady' = TRUE /\ grown' = 0
          /\ pc' = "open" /\ UNCHANGED code
  /\ UNCHANGED <<fileVars, call, fd, off, len, got, buf>>

\* The buffer, and where in the file it is filled from.  Mutant: the head of
\* the file for any origin.
Window(s) == IF call.op = "file" THEN MaxSize ELSE Least(s, call.max)

FromHead(s) == 0

Offset(s) == IF call.op = "end" /\ s > call.max THEN s - Window(s) ELSE 0

Open ==
  /\ pc = "open"
  /\ IF at = NoFile
     THEN Answer(404) /\ UNCHANGED <<fd, off, len>>
     ELSE /\ fd' = at
          /\ len' = Window(st) /\ off' = Offset(st)
          /\ pc' = "read" /\ UNCHANGED code
  /\ UNCHANGED <<fileVars, call, st, got, buf, histVars>>

\* Mutant: what is left of the file is read past the buffer's end.
LeftOfFile == size[fd] - (off + got)

\* io.ReadFull and os.ReadFile: one read(2).
Left == Least(len - got, size[fd] - (off + got))

Read ==
  /\ pc = "read"
  /\ \E n \in Positions :
       /\ n <= Left
       /\ got' = got + n
       /\ buf' = [k \in Positions |-> IF k \in got + 1 .. got + n THEN data[fd][off + k] ELSE buf[k]]
  /\ UNCHANGED <<fileVars, call, pc, code, st, fd, off, len, histVars>>

\* The buffer is full, or the end of the file reached, now perhaps before the
\* window's.
Finish ==
  /\ pc = "read" /\ Left <= 0
  /\ Answer(200)
  /\ UNCHANGED <<fileVars, call, st, fd, off, len, got, buf, histVars>>

Next == Ask \/ Stat \/ Open \/ Read \/ Finish \/ Writers

Spec == Init /\ [][Next]_vars

\* X-Truncated.
Truncated == call.op # "file" /\ st > call.max

-----------------------------------------------------------------------------
Succeeded == pc = "answered" /\ code = 200

\* A read returns the file as it was when its size was taken, or the window of
\* it that was asked for, with every byte in its place and X-Truncated just
\* where something is missing, however the file grew since and in whatever
\* pieces it was read.  It takes a file that is truncated, rewritten in place
\* or, before it was opened, replaced to get anything else.
WindowIsExact ==
  Succeeded /\ steady =>
    /\ CASE call.op = "file"  -> off = 0 /\ got >= st
         [] call.op = "start" -> off = 0 /\ got = Least(st, call.max)
         [] call.op = "end"   -> got = Least(st, call.max) /\ off + got = st
    /\ \A k \in 1..got : off + k <= st => buf[k] = snap[off + k]
    /\ Truncated <=> got < st

\* ReadFileEx keeps to its maximum whatever becomes of the file.  ReadFile's
\* limit is on the size os.Stat gave: it returns more only by what the file
\* grew after that, if it is still the same file.
WithinLimit ==
  Succeeded =>
    IF call.op = "file" THEN steady => got <= MaxRead + grown
                        ELSE got <= st /\ got <= call.max /\ got <= HardMax
=============================================================================
