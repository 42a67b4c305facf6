--------------------------- MODULE ExtractArchive ---------------------------
(***************************************************************************)
(* Reading one archive: extractZip, extractTarGz and extractTarZst, and    *)
(* the listing of the same three formats (ListArchiveContents).            *)
(*                                                                         *)
(* A zip archive has a central directory: its entries are all known.  A    *)
(* tar archive is a stream of blocks, one for an entry's header, then its  *)
(* data padded to whole blocks, and two zero blocks at the end.  Extract-  *)
(* TarGz cuts the stream off one byte after maxExtractSize; extractTarZst  *)
(* reads it from a pzstd process that may die.  What archive/tar answers   *)
(* at a cut depends on where it falls: io.EOF, the normal end, at the      *)
(* start of a header or in padding; an error inside a header or data.      *)
(*                                                                         *)
(* One step is one turn of the extractor's loop.  The destination is flat. *)
(***************************************************************************)
EXTENDS Integers, SequencesExt

CONSTANTS
  Names,      \* where in the destination an entry may go
  Befores,    \* the destinations that are found
  Archives,   \* the archives that are read: sequences of Entry
  Block,      \* bytes in a tar block (512)
  MaxExtract, \* maxExtractSize, in bytes
  MaxFaults   \* bound: failing writes and corrupt data

\* What an entry is: a regular file, a directory, a symbolic or hard link, a
\* file with an absolute name, and one whose name leads out of the destination.
Kinds == {"file", "dir", "link", "abs", "out"}
Entry == [kind : Kinds, name : Names, size : Nat]

\* What stands under a name; a positive number is the entry whose data it holds.
None == 0
Old  == -1
Dir  == -2
Torn == -3

ASSUME BeforesAssumption == Befores \subseteq [Names -> {None, Old, Dir}]
ASSUME ArchivesAssumption == Archives \subseteq Seq(Entry)
ASSUME SizesAssumption == Block \in Nat \ {0} /\ MaxExtract \in Nat /\ MaxFaults \in Nat

VARIABLES
  arc, fmt, \* the archive and its format
  op,       \* "extract" or "list"
  skip,     \* is the mode skip_existing
  before,   \* the destination before
  disk,     \* the destination
  avail,    \* bytes of the tar stream that can be read
  child,    \* how pzstd exits
  i,        \* the entry that comes next
  pos,      \* the offset in the stream where its header starts
  total,    \* totalBytes
  faults, pc

input == <<arc, fmt, op, skip, before, avail, child>>
vars  == <<arc, fmt, op, skip, before, disk, avail, child, i, pos, total, faults, pc>>

-----------------------------------------------------------------------------
Size(e)   == IF e.kind \in {"file", "abs", "out"} THEN e.size ELSE 0
Padded(n) == ((n + Block - 1) \div Block) * Block
Length(e) == Block + Padded(Size(e))
DataEnd   == pos + Block + Size(arc[i])

\* What the first k numbers of a sequence add up to.
Sums(s) == LET sum[k \in 0..Len(s)] == IF k = 0 THEN 0 ELSE sum[k - 1] + s[k] IN sum

Ends(a)      == Sums([k \in 1..Len(a) |-> Length(a[k])])
StreamEnd(a) == Ends(a)[Len(a)] + 2 * Block

TypeOK ==
  /\ arc \in Archives /\ fmt \in {"zip", "tgz", "tzst"} /\ op \in {"extract", "list"}
  /\ skip \in BOOLEAN
  /\ before \in Befores
  /\ disk \in [Names -> Torn..Len(arc)]
  /\ avail \in 0..(StreamEnd(arc) + MaxExtract + 1) /\ child \in {"ok", "failed"}
  /\ i \in 1..(Len(arc) + 1) /\ pos \in 0..StreamEnd(arc)
  /\ total \in Nat /\ faults \in 0..MaxFaults
  /\ pc \in {"next", "done", "failed"}

GzipLimit == MaxExtract + 1

Init ==
  /\ arc \in Archives /\ fmt \in {"zip", "tgz", "tzst"} /\ op \in {"extract", "list"}
  /\ skip \in BOOLEAN
  /\ before \in Befores /\ disk = before
  /\ \/ child = "ok" /\ avail = IF fmt = "tgz" /\ op = "extract" THEN GzipLimit ELSE StreamEnd(arc)
     \/ child = "failed" /\ fmt = "tzst" /\ avail \in 0..StreamEnd(arc)
  /\ i = 1 /\ pos = 0 /\ total = 0 /\ faults = 0
  /\ pc = "next"

Fault == faults < MaxFaults /\ faults' = faults + 1

-----------------------------------------------------------------------------
\* The loop.
Tar == fmt # "zip"

\* tr.Next: where the stream is cut short of the next header, of this entry's
\* data, or of the second zero block.
HeaderCut  == Tar /\ avail > pos /\ avail < pos + Block
TrailerCut == Tar /\ i > Len(arc) /\ avail > pos + Block /\ avail < pos + 2 * Block
AtEnd      == IF Tar THEN pos >= avail \/ i > Len(arc) ELSE i > Len(arc)
DataCut    == Tar /\ DataEnd > avail

HasEntry == pc = "next" /\ ~AtEnd /\ ~HeaderCut

\* Mutant: only the tar reader's answer counts.
IgnoreChild == "done"

\* At the end of the stream pzstd's exit status decides.
AtEndOfFile == IF child = "ok" THEN "done" ELSE "failed"

Finish ==
  /\ pc = "next" /\ AtEnd /\ ~HeaderCut /\ ~TrailerCut
  /\ pc' = AtEndOfFile
  /\ UNCHANGED <<input, disk, i, pos, total, faults>>

UnexpectedEOF ==
  /\ pc = "next" /\ (HeaderCut \/ TrailerCut)
  /\ pc' = "failed"
  /\ UNCHANGED <<input, disk, i, pos, total, faults>>

\* Mutant: the loop does not come to the next entry.
StuckOnEntry == i' = i /\ pos' = pos + Length(arc[i])

Advance == i' = i + 1 /\ pos' = pos + Length(arc[i])

\* Entries that are passed by without a look at the destination.  Their data
\* is discarded by the next tr.Next, which notices a cut in it.
PassedBy(e) == op = "list" \/ e.kind = "link" \/ (e.kind = "abs" /\ Tar)

PassBy ==
  /\ HasEntry /\ PassedBy(arc[i])
  /\ IF DataCut THEN pc' = "failed" /\ UNCHANGED <<i, pos>>
                ELSE Advance /\ UNCHANGED pc
  /\ UNCHANGED <<input, disk, total, faults>>

Escapes ==
  /\ HasEntry /\ ~PassedBy(arc[i]) /\ arc[i].kind = "out"
  /\ pc' = "failed"
  /\ UNCHANGED <<input, disk, i, pos, total, faults>>

\* os.MkdirAll is content with a directory that is there, not with a file.
MakeDir ==
  /\ HasEntry /\ ~PassedBy(arc[i]) /\ arc[i].kind = "dir"
  /\ IF disk[arc[i].name] \in {None, Dir}
     THEN /\ disk' = [disk EXCEPT ![arc[i].name] = Dir]
          /\ Advance /\ UNCHANGED pc
     ELSE pc' = "failed" /\ UNCHANGED <<disk, i, pos>>
  /\ UNCHANGED <<input, total, faults>>

IsFile(e) == ~PassedBy(e) /\ e.kind \in {"file", "abs"}

\* Mutant: the mode is not passed to extractZip either.
SkipsNever(n) == FALSE

\* Only extractZip is given the mode.
Skips(n) == skip /\ ~Tar /\ disk[n] # None

SkipExisting ==
  /\ HasEntry /\ IsFile(arc[i]) /\ Skips(arc[i].name)
  /\ Advance
  /\ UNCHANGED <<input, disk, total, faults, pc>>

\* Mutants: no limit on what the entries add up to; one that is a byte short.
NoLimit(n) == FALSE
AtLimit(n) == n >= MaxExtract

OverLimit(n) == n > MaxExtract

\* os.Create fails on a directory; io.Copy fails where the data is cut; the
\* limit is looked at when the entry has been written.
ExtractFile ==
  /\ HasEntry /\ IsFile(arc[i]) /\ ~Skips(arc[i].name)
  /\ LET n == arc[i].name
     IN  IF disk[n] = Dir
         THEN pc' = "failed" /\ UNCHANGED <<disk, i, pos, total>>
         ELSE IF DataCut
         THEN /\ disk' = [disk EXCEPT ![n] = Torn]
              /\ pc' = "failed" /\ UNCHANGED <<i, pos, total>>
         ELSE /\ disk' = [disk EXCEPT ![n] = i]
              /\ total' = total + arc[i].size
              /\ IF OverLimit(total') THEN pc' = "failed" /\ UNCHANGED <<i, pos>>
                                      ELSE Advance /\ UNCHANGED pc
  /\ UNCHANGED <<input, faults>>

\* The data does not decompress, fails its checksum, or cannot be written.
CopyFails ==
  /\ HasEntry /\ IsFile(arc[i]) /\ ~Skips(arc[i].name) /\ disk[arc[i].name] # Dir
  /\ Fault
  /\ disk' = [disk EXCEPT ![arc[i].name] = Torn]
  /\ pc' = "failed"
  /\ UNCHANGED <<input, i, pos, total>>

\* The archive cannot be opened or its next header not be read.
ReadFails ==
  /\ pc = "next"
  /\ Fault
  /\ pc' = "failed"
  /\ UNCHANGED <<input, disk, i, pos, total>>

Next == \/ Finish \/ UnexpectedEOF \/ ReadFails
        \/ PassBy \/ Escapes \/ MakeDir \/ SkipExisting \/ ExtractFile \/ CopyFails

Spec == Init /\ [][Next]_vars

-----------------------------------------------------------------------------
\* The reference: what the first k entries may leave under a name.  Where what
\* exists is skipped, that is what was there, or else the first entry that came
\* to the name; where it is overwritten, the last one.  The documentation says
\* that skip_existing skips, in every format (client.go:231); the code passes the
\* mode to no tar extractor.  Of a tar archive in that mode the reference
\* demands neither: it accepts both.
Placing(n, k) == {m \in 1..k : arc[m].name = n /\ (IsFile(arc[m]) \/ arc[m].kind = "dir")}
ByEntry(m)    == IF arc[m].kind = "dir" THEN Dir ELSE m

Kept(n, k)   == IF before[n] # None THEN before[n] ELSE ByEntry(Min(Placing(n, k)))
Latest(n, k) == ByEntry(Max(Placing(n, k)))

Expected(n, k) ==
  IF Placing(n, k) = {} THEN {before[n]}
  ELSE (IF skip THEN {Kept(n, k)} ELSE {}) \cup (IF skip /\ ~Tar THEN {} ELSE {Latest(n, k)})

\* The archive lies within the limit for its format: for tar.gz the limit is on
\* the stream with its headers and padding, otherwise on the files' data.
Fits == fmt = "tgz" => StreamEnd(arc) <= GzipLimit
Bytes     == Sums([k \in 1..Len(arc) |-> IF IsFile(arc[k]) THEN arc[k].size ELSE 0])
DataBytes == Bytes[Len(arc)]

\* Safety.

\* While an archive is being extracted the destination holds what the entries
\* so far say, and nothing else; a failure adds at most the entry it struck.
\* Nothing is rolled back.
DiskIsPrefix ==
  op = "extract" =>
    \A n \in Names : \/ disk[n] \in Expected(n, i - 1)
                     \/ /\ pc = "failed" /\ i <= Len(arc) /\ arc[i].name = n
                        /\ disk[n] \in {i, Torn}

\* Success means that every entry was dealt with, if the archive is not one
\* whose stream the tar.gz limit cuts; and a listing that succeeds is complete.
\* A truncated tar.zst is never a success.
SuccessIsWhole ==
  /\ pc = "done" /\ op = "extract" /\ Fits =>
       /\ \A n \in Names : disk[n] \in Expected(n, Len(arc))
       /\ \A k \in 1..Len(arc) : arc[k].kind = "out" => PassedBy(arc[k])
  /\ pc = "done" /\ op = "list" => i = Len(arc) + 1

\* Sizes are checked after an entry is written: the limit is overshot by no
\* more than one entry, and for tar.gz by no more than one byte.
OvershootIsOneEntry ==
  /\ pc # "failed" => total <= MaxExtract
  /\ total <= MaxExtract + (IF i <= Len(arc) THEN arc[i].size ELSE 0)
  /\ fmt = "tgz" => total <= MaxExtract + 1

\* A sound archive within the limits is not refused: a failure without a fault
\* has its reason in the archive or in what stood in its way.
InTheWay == \E n \in Names : before[n] # None \/ Cardinality(Placing(n, Len(arc))) > 1

FailedForReason ==
  pc = "failed" /\ faults = 0 /\ child = "ok" /\ ~InTheWay =>
    /\ op = "extract"
    /\ \/ \E k \in 1..Len(arc) : arc[k].kind = "out"
       \/ DataBytes > MaxExtract
       \/ ~Fits

-----------------------------------------------------------------------------
\* What the documentation says and the code does not keep.

\* "If extract is true, zip/tar.gz/tar.zst archives are extracted to destPath."
\* (client.go:79): an extraction that reports success has extracted the archive.
ExtractedMeansAll ==
  pc = "done" /\ op = "extract" => \A n \in Names : disk[n] \in Expected(n, Len(arc))
=============================================================================
