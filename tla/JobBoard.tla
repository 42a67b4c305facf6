------------------------------ MODULE JobBoard ------------------------------
(***************************************************************************)
(* What the gateway promises the callers of its asynchronous operations    *)
(* (StartBackup, StartDownload), without goroutines, locks and files:      *)
(*                                                                         *)
(* A call is turned away, or it is accepted: it is given a ticket and a    *)
(* card "running" with the ticket's number hangs on the ticket's slot of a *)
(* board.  An accepted job ends once, and its outcome and its card appear  *)
(* together; or it falls silent.  A card is a whole card or none: a slot   *)
(* may go blank only while some job that posts there has not ended.        *)
(*                                                                         *)
(* BackupJobs has a slot per server, DownloadJobs one per download ID.     *)
(***************************************************************************)
CONSTANTS
  Jobs,   \* calls
  Slots,  \* places a card can hang
  Ids     \* what tickets are numbered with

VARIABLES
  phase,  \* where a job stands, as its caller can know
  ticket, \* the ticket an accepted job holds: a set of at most one
  board   \* slot -> the card on it, a set of at most one card

vars == <<phase, ticket, board>>

Tickets == [slot : Slots, id : Ids]
Card(i, x) == [id |-> i, st |-> x]
Cards == [id : Ids, st : {"running", "done", "failed"}]
Blank == {}

Phases == {"new", "turned away", "accepted", "done", "failed", "silent"}

TypeOK == /\ phase \in [Jobs -> Phases]
          /\ ticket \in [Jobs -> {{}} \cup {{t} : t \in Tickets}]
          /\ board \in [Slots -> {Blank} \cup {{c} : c \in Cards}]

Init == /\ phase = [j \in Jobs |-> "new"]
        /\ ticket = [j \in Jobs |-> {}]
        /\ board = [s \in Slots |-> Blank]

Post(t, x) == board' = [board EXCEPT ![t.slot] = {Card(t.id, x)}]

Accept(j) ==
  /\ phase[j] = "new"
  /\ phase' = [phase EXCEPT ![j] = "accepted"]
  /\ \E t \in Tickets : ticket' = [ticket EXCEPT ![j] = {t}] /\ Post(t, "running")

End(j) ==
  /\ phase[j] = "accepted"
  /\ \E t \in ticket[j], x \in {"done", "failed"} :
       phase' = [phase EXCEPT ![j] = x] /\ Post(t, x)
  /\ UNCHANGED ticket

TurnAway(j) ==
  /\ phase[j] = "new"
  /\ phase' = [phase EXCEPT ![j] = "turned away"]
  /\ UNCHANGED <<ticket, board>>

\* Jobs whose outcome will never be posted: all of a stopped gateway at once,
\* or one whose last card could not be written.  Their tickets are worthless.
FallSilent(S) ==
  /\ \A j \in S : phase[j] \in {"new", "accepted"}
  /\ phase' = [j \in Jobs |-> IF j \in S THEN "silent" ELSE phase[j]]
  /\ ticket' = [j \in Jobs |-> IF j \in S THEN {} ELSE ticket[j]]
  /\ UNCHANGED board

\* The slot may still become a new job's, or is that of an accepted one.
PostsOn(j, s) == \/ phase[j] = "new"
                 \/ phase[j] = "accepted" /\ \E t \in ticket[j] : t.slot = s

GoBlank(s) ==
  /\ \E j \in Jobs : PostsOn(j, s)
  /\ board' = [board EXCEPT ![s] = Blank]
  /\ UNCHANGED <<phase, ticket>>

Next == \/ \E j \in Jobs : Accept(j) \/ End(j) \/ TurnAway(j)
        \/ \E S \in SUBSET Jobs : FallSilent(S)
        \/ \E s \in Slots : GoBlank(s)

Spec == Init /\ [][Next]_vars
=============================================================================
