---------------------------- MODULE CommandPipe ----------------------------
(***************************************************************************)
(* The two-process pipeline of runBackup (tar | pzstd) and Restore         *)
(* (pzstd -d | tar), built from exec.Cmd without a shell:                  *)
(*                                                                         *)
(*     consumer.Stdin = producer.StdoutPipe()                              *)
(*     consumer.Start(); producer.Run(); consumer.Wait()                   *)
(*                                                                         *)
(* The pipe's ends are file descriptors that several processes hold: a     *)
(* writer gets SIGPIPE only when nobody holds a read end, a reader gets    *)
(* EOF only when nobody holds a write end.  The gateway holds both ends    *)
(* from StdoutPipe on; Start of the producer closes its write end, Wait    *)
(* for the producer its read end.                                          *)
(***************************************************************************)
EXTENDS Naturals

CONSTANTS
  MaxTotal,  \* bound: the longest stream, in chunks
  Capacity,  \* chunks the pipe buffer holds (64 KiB on Linux)
  MaxDeaths  \* bound: child processes that fail before their work is done

ASSUME PipeAssumption == MaxTotal \in Nat /\ Capacity \in Nat \ {0} /\ MaxDeaths \in Nat

VARIABLES
  gw,         \* where runBackup / Restore stands, or how it returned
  prod, cons, \* the child processes
  total,      \* chunks the producer has to write in all
  left,       \* chunks the producer has yet to write
  pipe,       \* chunks in the pipe
  got,        \* chunks the consumer has read
  readEnds,   \* who holds a read end
  writeEnds,  \* who holds a write end
  deaths      \* failures so far

vars == <<gw, prod, cons, total, left, pipe, got, readEnds, writeEnds, deaths>>

Exited == {"ok", "failed"}

TypeOK ==
  /\ gw \in {"start", "run", "runWait", "wait", "done", "failed"}
  /\ prod \in {"none", "live"} \cup Exited
  /\ cons \in {"none", "live"} \cup Exited
  /\ total \in 0..MaxTotal /\ left \in 0..total
  /\ pipe \in 0..Capacity /\ got \in 0..total
  /\ readEnds \subseteq {"gateway", "consumer"}
  /\ writeEnds \subseteq {"gateway", "producer"}
  /\ deaths \in 0..MaxDeaths

Init ==
  /\ gw = "start"
  /\ prod = "none" /\ cons = "none"
  /\ total \in 0..MaxTotal /\ left = total /\ pipe = 0 /\ got = 0
  /\ readEnds = {"gateway"} /\ writeEnds = {"gateway"}
  /\ deaths = 0

Death == deaths < MaxDeaths /\ deaths' = deaths + 1

-----------------------------------------------------------------------------
\* The gateway.

\* consumer.Start fails: the function returns at once, with both ends open.
StartConsumer ==
  /\ gw = "start"
  /\ \/ /\ gw' = "run" /\ cons' = "live"
        /\ readEnds' = readEnds \cup {"consumer"}
        /\ UNCHANGED deaths
     \/ /\ Death /\ gw' = "failed"
        /\ UNCHANGED <<cons, readEnds>>
  /\ UNCHANGED <<total, prod, left, pipe, got, writeEnds>>

\* Mutant: the gateway keeps its write end.
StartProducerKeepsEnd ==
  /\ gw = "run"
  /\ gw' = "runWait" /\ prod' = "live"
  /\ writeEnds' = {"producer", "gateway"}
  /\ UNCHANGED <<total, cons, readEnds, left, pipe, got, deaths>>

\* producer.Run is Start and Wait.  A failed Start closes both ends, so that
\* the consumer sees EOF and can be waited for.
StartProducer ==
  /\ gw = "run"
  /\ \/ /\ gw' = "runWait" /\ prod' = "live"
        /\ writeEnds' = {"producer"}
        /\ UNCHANGED <<readEnds, deaths>>
     \/ /\ Death /\ gw' = "wait" /\ prod' = "failed"
        /\ writeEnds' = {}
        /\ readEnds' = readEnds \ {"gateway"}
  /\ UNCHANGED <<total, cons, left, pipe, got>>

WaitProducer ==
  /\ gw = "runWait" /\ prod \in Exited
  /\ gw' = "wait"
  /\ readEnds' = readEnds \ {"gateway"}
  /\ UNCHANGED <<total, prod, cons, left, pipe, got, writeEnds, deaths>>

\* Mutant: the consumer's exit status is dropped.
ProducerDecides == IF prod = "ok" THEN "done" ELSE "failed"

Verdict == IF prod = "ok" /\ cons = "ok" THEN "done" ELSE "failed"

WaitConsumer ==
  /\ gw = "wait" /\ cons \in Exited
  /\ gw' = Verdict
  /\ UNCHANGED <<total, prod, cons, left, pipe, got, readEnds, writeEnds, deaths>>

-----------------------------------------------------------------------------
\* The child processes and the kernel.  A write with no read end left would
\* raise SIGPIPE; the gateway's own read end, kept until the producer has
\* exited, makes that impossible here, so there is no such step.

Produce ==
  /\ prod = "live" /\ left > 0
  /\ pipe < Capacity
  /\ left' = left - 1 /\ pipe' = pipe + 1
  /\ UNCHANGED <<total, gw, prod, cons, got, readEnds, writeEnds, deaths>>

ExitProducer(x) ==
  /\ prod' = x
  /\ writeEnds' = writeEnds \ {"producer"}
  /\ UNCHANGED <<total, gw, cons, left, pipe, got, readEnds>>

ProducerDone == prod = "live" /\ left = 0 /\ ExitProducer("ok") /\ UNCHANGED deaths

\* tar finds an unreadable file, pzstd a corrupt frame.  A process blocked in
\* write does not get that far.
ProducerFails == /\ prod = "live" /\ (pipe < Capacity \/ left = 0)
                 /\ Death /\ ExitProducer("failed")

Consume ==
  /\ cons = "live" /\ pipe > 0
  /\ pipe' = pipe - 1 /\ got' = got + 1
  /\ UNCHANGED <<total, gw, prod, cons, left, readEnds, writeEnds, deaths>>

ExitConsumer(x) ==
  /\ cons' = x
  /\ readEnds' = readEnds \ {"consumer"}
  /\ UNCHANGED <<total, gw, prod, left, pipe, got, writeEnds>>

\* Mutant: a consumer that stops reading before EOF.
ConsumerQuitsEarly == cons = "live" /\ got > 0 /\ ExitConsumer("ok") /\ UNCHANGED deaths

ConsumerDone  == /\ cons = "live" /\ pipe = 0 /\ writeEnds = {}
                 /\ ExitConsumer("ok") /\ UNCHANGED deaths
ConsumerFails == cons = "live" /\ Death /\ ExitConsumer("failed")

Producer == Produce \/ ProducerDone
Consumer == Consume \/ ConsumerDone
Gateway  == StartConsumer \/ StartProducer \/ WaitProducer \/ WaitConsumer

Next == Gateway \/ Producer \/ Consumer \/ ProducerFails \/ ConsumerFails

\* The gateway and the child processes are scheduled; nothing makes a child
\* fail, and nothing kills one: exec.Command has no context here.
Spec == /\ Init /\ [][Next]_vars
        /\ WF_vars(Gateway) /\ WF_vars(Producer) /\ WF_vars(Consumer)

-----------------------------------------------------------------------------
\* "done" means that the whole stream went through: all of it was written and
\* all of it was read, by a consumer that then exited cleanly.
DoneMeansWhole == gw = "done" => left = 0 /\ got = total

\* While the consumer waits for EOF it can count on it: whenever the gateway
\* waits for the consumer, nobody can write to the pipe any more.
EofIsComing == gw = "wait" => writeEnds = {} /\ "gateway" \notin readEnds

\* The producer is blocked on a full pipe that nobody will ever read: its
\* reader is gone, and the gateway, which holds the last read end, waits for
\* the producer.
Blocked ==
  /\ gw = "runWait" /\ prod = "live" /\ left > 0 /\ pipe = Capacity
  /\ cons \in Exited /\ readEnds = {"gateway"}

\* It takes a consumer that dies with more than a pipe's worth unread.
BlockedOnlyByDeath == Blocked => cons = "failed" /\ got + Capacity < total
=============================================================================
