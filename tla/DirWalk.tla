------------------------------ MODULE DirWalk ------------------------------
(***************************************************************************)
(* The calls that look over a directory: ListDir (flat and recursive),     *)
(* FindFiles, ListFiles, ListServers, GrepFiles and DiskUsage.  Each walks *)
(* it while other requests and the server's own processes create and       *)
(* remove what it walks over.                                              *)
(*                                                                         *)
(* filepath.WalkDir visits a directory before its entries and entries in   *)
(* lexical order.  It learns of an entry when it reads the directory, asks *)
(* for its FileInfo when it comes to it, and reads it in its turn after    *)
(* that: three moments with anything in between.  A walk stops where it    *)
(* would emit an entry too many, and then says "truncated".                *)
(*                                                                         *)
(* GrepFiles and DiskUsage leave the walk to grep -r and du.  These report *)
(* what they cannot read and go on, and then exit with an error, for which *)
(* the call throws all of their output away; GrepFiles cuts off the output *)
(* of a grep that has come to its end.                                     *)
(***************************************************************************)
EXTENDS Integers, SequencesExt

CONSTANTS
  Order,      \* every path below Target that may exist, and Target itself
              \* first, as a sequence in the order of a walk (grep and du have
              \* an order of their own, for which this one stands)
  Parent,     \* path -> the directory it lies in, for all but Target
  Kind,       \* path -> "file", "dir", "link" or "special"
  Target,     \* the directory that is listed
  Calls,      \* the calls that are made
  Default,    \* the limit for a call that gives none (1000)
  MaxChanges, \* bound: paths created or removed during the call
  MaxFaults   \* bound: directories and files that cannot be read

Paths == ToSet(Order)
Pos(p) == CHOOSE k \in 1..Len(Order) : Order[k] = p

\* only: the paths that pass FindFiles' filters for type, name, age and suffix,
\* or the files in which grep finds the pattern, once each, and that are not
\* skipped.  max: the limit, for grep where its lines reach maxGrepLines or
\* maxGrepBytes.
Ops  == {"flat", "walk", "find", "files", "servers", "grep", "du"}
Call == [op : Ops, max : Int, depth : Int, only : SUBSET Paths]

\* Order is that of a walk: whatever it has between a directory and a path in
\* that directory lies below the directory.
ASSUME TreeAssumption ==
  /\ Order \in Seq(Paths) /\ IsInjective(Order) /\ Order # <<>> /\ Head(Order) = Target
  /\ Parent \in [Paths \ {Target} -> Paths]
  /\ Kind \in [Paths -> {"file", "dir", "link", "special"}] /\ Kind[Target] = "dir"
  /\ \A p \in Paths \ {Target} : Kind[Parent[p]] = "dir" /\ Pos(Parent[p]) < Pos(p)
  /\ \A p, q \in Paths \ {Target} :
       Pos(Parent[p]) < Pos(q) /\ Pos(q) < Pos(p) => Pos(Parent[p]) <= Pos(Parent[q])
ASSUME CallsAssumption ==
  /\ \A c \in Calls : c \in Call
  /\ Default \in Nat \ {0} /\ MaxChanges \in Nat /\ MaxFaults \in Nat

VARIABLES
  tree,      \* the paths that exist
  call,      \* the call
  pc,        \* "start", "visit", "read", "done" or "failed"
  todo,      \* paths known and not dealt with, in order
  out,       \* entries
  truncated,
  broken,    \* grep or du has met an error
  changes, faults,
  steady,    \* history: paths that have existed since the call began
  seen       \* history: paths that have existed at some time of the call

envVars == <<tree, changes, steady, seen>>
vars == <<tree, call, pc, todo, out, truncated, broken, changes, faults, steady, seen>>

-----------------------------------------------------------------------------
\* Some paths, in the order of a walk.
InOrder(S) ==
  LET upTo[k \in 0..Len(Order)] ==
        IF k = 0 THEN <<>>
        ELSE IF Order[k] \in S THEN Append(upTo[k - 1], Order[k]) ELSE upTo[k - 1]
  IN  upTo[Len(Order)]

Children(p) == InOrder({q \in tree \ {Target} : Parent[q] = p})

\* A path and the directories it lies in, from Target on.
Above[p \in Paths] == {p} \cup (IF p = Target THEN {} ELSE Above[Parent[p]])

Below(p) == {q \in Paths : p \in Above[q]}
Depth(p) == Cardinality(Above[p] \ {p})

Limit(c) == CASE c.op \in {"files", "servers", "du"} -> Len(Order)
              [] OTHER -> IF c.max <= 0 THEN Default ELSE c.max

External == call.op \in {"grep", "du"}
Flat     == call.op \in {"flat", "files", "servers"}

Closed(S) == Target \in S /\ \A p \in S \ {Target} : Parent[p] \in S

TypeOK ==
  /\ tree \subseteq Paths /\ (tree = {} \/ Closed(tree))
  /\ call \in Calls /\ pc \in {"start", "visit", "read", "done", "failed"}
  /\ todo \in Seq(Paths)
  /\ out \in Seq(Paths) /\ Len(out) <= Limit(call)
  /\ truncated \in BOOLEAN /\ broken \in BOOLEAN
  /\ changes \in 0..MaxChanges /\ faults \in 0..MaxFaults
  /\ steady \subseteq tree /\ tree \subseteq seen /\ seen \subseteq Paths

Init ==
  /\ tree \in {S \in SUBSET Paths : Closed(S)}
  /\ call \in Calls
  /\ pc = "start" /\ todo = <<>> /\ out = <<>> /\ truncated = FALSE /\ broken = FALSE
  /\ changes = 0 /\ faults = 0
  /\ steady = tree /\ seen = tree

-----------------------------------------------------------------------------
\* Others.
Busy == pc \in {"start", "visit", "read"} /\ changes < MaxChanges /\ changes' = changes + 1

CreatePath ==
  /\ Busy
  /\ \E p \in Paths \ tree : /\ p # Target /\ Parent[p] \in tree
                             /\ tree' = tree \cup {p} /\ seen' = seen \cup {p}
  /\ UNCHANGED <<call, pc, todo, out, truncated, broken, faults, steady>>

RemovePath ==
  /\ Busy
  /\ \E p \in tree : tree' = tree \ Below(p) /\ steady' = steady \ Below(p)
  /\ UNCHANGED <<call, pc, todo, out, truncated, broken, faults, seen>>

-----------------------------------------------------------------------------
\* The call.

\* The server and the path are looked up; a walk then starts at the path, a
\* flat listing reads it.  grep and du fail where there is nothing.
Resolve ==
  /\ pc = "start"
  /\ IF Target \in tree
     THEN /\ todo' = <<Target>>
          /\ pc' = IF Flat THEN "read" ELSE "visit"
     ELSE pc' = "failed" /\ UNCHANGED todo
  /\ UNCHANGED <<envVars, call, out, truncated, broken, faults>>

Listable(p)   == CASE call.op \in {"flat", "walk", "find"} -> Kind[p] \in {"file", "dir"}
                   [] call.op = "servers" -> Kind[p] = "dir"
                   [] call.op = "grep"    -> Kind[p] = "file"
                   [] OTHER               -> TRUE

\* The FileInfo of the walk's root was taken when it began; ListServers asks
\* for none.
HasInfo(p)    == p = Target \/ p \in tree \/ call.op = "servers"
OverDepth(p)  == call.op = "find" /\ call.depth > 0 /\ Depth(p) > call.depth
Passes(p)     == CASE call.op = "find" -> p \in call.only /\ ~OverDepth(p)
                   [] call.op = "grep" -> p \in call.only
                   [] call.op = "du"   -> TRUE
                   [] OTHER            -> p # Target
Emits(p)      == HasInfo(p) /\ Listable(p) /\ Passes(p)

\* Mutants: the limit is looked at whatever the next entry is; one entry late.
FullAnyway(p) == Len(out) >= Limit(call)
FullLate(p)   == Emits(p) /\ Len(out) > Limit(call)

Full(p)       == Emits(p) /\ Len(out) >= Limit(call)

\* Mutant: a directory at the depth limit is the first that is left out.
DescendsLess(p) == Kind[p] = "dir" /\ ~(call.op = "find" /\ call.depth > 0 /\ Depth(p) + 1 >= call.depth)

Descends(p) == /\ Kind[p] = "dir" /\ ~Flat
               /\ ~(call.op = "find" /\ call.depth > 0 /\ Depth(p) >= call.depth)

\* grep does not look for a file it is to skip, a link or a special file, nor
\* does it fail for them.
Missed(p) == IF ~External \/ HasInfo(p) THEN {FALSE}
             ELSE IF call.op = "du" \/ Kind[p] = "dir" \/ p \in call.only THEN {TRUE}
             ELSE BOOLEAN

\* The walk of a call of ours ends with the first entry too many, that of grep
\* does not.
Visit ==
  /\ pc = "visit" /\ todo # <<>>
  /\ LET p == Head(todo)
     IN  IF Full(p) /\ ~External
         THEN /\ truncated' = TRUE /\ pc' = "done"
              /\ UNCHANGED <<todo, out, broken>>
         ELSE /\ out' = IF Emits(p) /\ ~Full(p) THEN Append(out, p) ELSE out
              /\ truncated' = (truncated \/ Full(p))
              /\ \E b \in Missed(p) : broken' = (broken \/ b)
              /\ IF Descends(p) THEN pc' = "read" /\ UNCHANGED todo
                                ELSE todo' = Tail(todo) /\ UNCHANGED pc
  /\ UNCHANGED <<envVars, call, faults>>

\* Mutant: breadth first.
AtTheEnd(s) == Tail(todo) \o s
InPlace(s)  == s \o Tail(todo)

\* os.ReadDir.  Where the root cannot be read the call fails, where another
\* directory cannot, the walk goes on without what is in it.
ReadDir ==
  /\ pc = "read"
  /\ LET p == Head(todo)
     IN  IF p \in tree
         THEN todo' = InPlace(Children(p)) /\ pc' = "visit" /\ UNCHANGED broken
         ELSE /\ todo' = InPlace(<<>>)
              /\ pc' = IF p = Target THEN "failed" ELSE "visit"
              /\ broken' = External
  /\ UNCHANGED <<envVars, call, out, truncated, faults>>

ReadDirFails ==
  /\ pc = "read"
  /\ faults < MaxFaults /\ faults' = faults + 1
  /\ todo' = Tail(todo)
  /\ pc' = IF Head(todo) = Target THEN "failed" ELSE "visit"
  /\ broken' = External
  /\ UNCHANGED <<envVars, call, out, truncated>>

\* grep cannot read a file; nothing else reads any.
ReadFileFails ==
  /\ pc = "visit" /\ todo # <<>> /\ call.op = "grep" /\ Kind[Head(todo)] = "file"
  /\ faults < MaxFaults /\ faults' = faults + 1
  /\ todo' = Tail(todo) /\ broken' = TRUE
  /\ UNCHANGED <<envVars, call, pc, out, truncated>>

\* grep is killed after 30 seconds.
TimeOut ==
  /\ call.op = "grep" /\ pc \in {"visit", "read"}
  /\ pc' = "failed"
  /\ UNCHANGED <<envVars, call, todo, out, truncated, broken, faults>>

Return ==
  /\ pc = "visit" /\ todo = <<>>
  /\ pc' = IF broken THEN "failed" ELSE "done"
  /\ UNCHANGED <<envVars, call, todo, out, truncated, broken, faults>>

Walk == Resolve \/ Visit \/ ReadDir \/ Return
Fail == ReadDirFails \/ ReadFileFails \/ TimeOut
Next == Walk \/ Fail \/ CreatePath \/ RemovePath

Spec == Init /\ [][Next]_vars

-----------------------------------------------------------------------------
\* The reference: the paths a call asks for.
Asked(p) ==
  CASE call.op = "flat"    -> Depth(p) = 1 /\ Kind[p] \in {"file", "dir"}
    [] call.op = "walk"    -> Depth(p) >= 1 /\ Kind[p] \in {"file", "dir"}
    [] call.op = "find"    -> /\ p \in call.only /\ Kind[p] \in {"file", "dir"}
                              /\ call.depth <= 0 \/ Depth(p) <= call.depth
    [] call.op = "files"   -> Depth(p) = 1
    [] call.op = "servers" -> Depth(p) = 1 /\ Kind[p] = "dir"
    [] call.op = "grep"    -> p \in call.only /\ Kind[p] = "file"
    [] call.op = "du"      -> TRUE

\* Where nothing changes and everything can be read, a call returns the first
\* entries of those it asks for, and truncated says exactly whether there are more.
StillIsExact ==
  pc = "done" /\ changes = 0 /\ faults = 0 =>
    LET all == InOrder({p \in tree : Asked(p)})
        n   == Len(all)
    IN  /\ out = SubSeq(all, 1, IF n < Limit(call) THEN n ELSE Limit(call))
        /\ truncated <=> n > Limit(call)

\* A path that was there all the time is listed, whatever came and went around
\* it, unless the result says it is truncated.  What grep and du return is the
\* whole even where something could not be read: then they return nothing.
SteadyIsListed ==
  pc = "done" /\ ~truncated /\ (faults = 0 \/ External) =>
    \A p \in steady : Asked(p) => p \in ToSet(out)

\* Whatever changes during the walk: its entries are in order, none is there
\* twice, and each was there at some time and was asked for; "truncated" is said
\* of a full result, and only where there was something more to list.
ListedInOrder ==
  /\ \A k, l \in 1..Len(out) : k < l => Pos(out[k]) < Pos(out[l])
  /\ \A p \in ToSet(out) : p \in seen /\ Asked(p)
  /\ truncated => /\ Len(out) = Limit(call)
                  /\ \E p \in seen \ ToSet(out) : Asked(p)
=============================================================================
