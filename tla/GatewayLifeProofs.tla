-------------------------- MODULE GatewayLifeProofs --------------------------
(***************************************************************************)
(* Proofs about GatewayLife: what an exit code of 0 says, for any number   *)
(* of connections and requests.  CleanExit is not inductive: Tracked ties  *)
(* what Shutdown sees of a connection to what its goroutine is doing.      *)
(* NothingAnswerableDropped needs Timed: a request still in hand and not   *)
(* late is at most NewLimit ticks younger than the shutdown.               *)
(***************************************************************************)
EXTENDS GatewayLife, TLAPS

\* Shutdown can only overlook a request between the reading of its header and
\* the change of the connection's state.
Tracked ==
  \A c \in Conns :
    /\ step[c] \in {"handle", "write"} => conn[c] \in {"active", "closed"}
    /\ step[c] = "read" => conn[c] \in {"new", "idle", "closed"}
    /\ step[c] # "wait" /\ conn[c] = "closed" => c \in cut

\* Every lost answer has its reason.
Explained ==
  /\ late \subseteq overran
  /\ unanswered \subseteq cut \cup overran

\* What Shutdown found when it returned nil.
Drained ==
  /\ signalled => main # "boot"
  /\ signalled /\ code = "0" => \A c \in Conns : step[c] # "wait" => c \in cut

\* How old the shutdown and the requests are.
Timed ==
  /\ main \in {"boot", "serving"} => sinceStop = 0 /\ ~deadline
  /\ main = "draining" => listener # "open"
  /\ main = "draining" /\ sinceStop > NewLimit => \A c \in Conns : conn[c] \notin {"new", "idle"}
  /\ main = "draining" => \A c \in Conns : InHand(c) => sinceStop <= age[c] + NewLimit
  /\ deadline => sinceStop = StopLimit /\ \A c \in Conns : ~InHand(c)

IInv == TypeOK /\ Tracked /\ Explained /\ Drained /\ Timed

LEMMA InitIInv == Init => IInv
<1> SUFFICES ASSUME Init PROVE IInv
  OBVIOUS
<1>1. TypeOK
  <2>1. uses \in [Conns -> 0..MaxRequests]
    BY LifeAssumption DEF LifeAssumption, Init
  <2>2. age \in [Conns -> 0..WriteLimit] /\ sinceStop \in 0..StopLimit
    BY DEF Init, WriteLimit, StopLimit
  <2> QED BY <2>1, <2>2 DEF Init, TypeOK
<1>2. Tracked /\ Explained /\ Drained /\ Timed
  BY DEF Init, Tracked, Explained, Drained, Timed, InHand
<1> QED BY <1>1, <1>2 DEF IInv

\* Steps of main and Run that leave the connections alone and either do not
\* exit or exit with something else than 0.
LEMMA RunKeeps ==
  ASSUME IInv, UNCHANGED connVars, TypeOK', Timed',
         signalled' => main' # "boot",
         signalled' /\ code' = "0" => signalled /\ code = "0"
  PROVE  IInv'
BY DEF IInv, connVars, Tracked, Explained, Drained

LEMMA MainKeeps ==
  ASSUME IInv, Boot \/ Signal \/ Listen \/ AcceptFails \/ Expire \/ RunFails \/ StartShutdown \/ GiveUp
  PROVE  IInv'
<1> USE DEF IInv, TypeOK, Exit
<1>1. CASE Boot
  <2>1. TypeOK' /\ ~signalled'
    BY <1>1 DEF Boot, connVars, Drained
  <2>2. Timed'
    BY <1>1 DEF Boot, Timed, connVars, InHand
  <2> QED BY <1>1, <2>1, <2>2, RunKeeps DEF Boot
<1>2. CASE Signal
  <2>1. TypeOK' /\ (signalled' => main' # "boot") /\ (code' = "0" => FALSE)
    BY <1>2 DEF Signal, connVars, Drained
  <2>2. Timed'
    BY <1>2 DEF Signal, Timed, connVars, InHand
  <2> QED BY <1>2, <2>1, <2>2, RunKeeps DEF Signal
<1>3. CASE Listen
  <2>1. TypeOK'
    BY <1>3 DEF Listen, connVars
  <2>2. Timed'
    BY <1>3 DEF Listen, Timed, connVars, InHand
  <2> QED BY <1>3, <2>1, <2>2, RunKeeps DEF Listen, Drained
<1>4. CASE AcceptFails
  <2>1. TypeOK'
    BY <1>4 DEF AcceptFails, connVars
  <2>2. Timed'
    BY <1>4 DEF AcceptFails, Timed, connVars, InHand
  <2> QED BY <1>4, <2>1, <2>2, RunKeeps DEF AcceptFails, Drained
<1>5. CASE Expire
  <2>1. TypeOK'
    BY <1>5 DEF Expire, connVars
  <2>2. Timed'
    <3>1. sinceStop = StopLimit /\ main = "draining" /\ age \in [Conns -> 0..WriteLimit]
      BY <1>5 DEF Expire
    <3>2. \A c \in Conns : ~InHand(c)
      <4>1. SUFFICES ASSUME NEW c \in Conns, InHand(c) PROVE FALSE
        OBVIOUS
      <4>2. sinceStop <= age[c] + NewLimit
        BY <3>1, <4>1 DEF Timed
      <4>3. age[c] \in 0..WriteLimit
        BY <3>1
      <4> QED BY <3>1, <4>2, <4>3 DEF StopLimit, NewLimit, WriteLimit
    <3> QED BY <1>5, <3>1, <3>2 DEF Expire, Timed, connVars, InHand
  <2> QED BY <1>5, <2>1, <2>2, RunKeeps DEF Expire, Drained
<1>6. CASE RunFails
  <2>1. TypeOK'
    BY <1>6 DEF RunFails, connVars
  <2>2. Timed'
    BY <1>6 DEF RunFails, Timed, connVars, InHand
  <2> QED BY <1>6, <2>1, <2>2, RunKeeps DEF RunFails
<1>7. CASE StartShutdown
  <2>1. TypeOK'
    BY <1>7 DEF StartShutdown, connVars
  <2>2. Timed'
    <3>1. sinceStop = 0 /\ ~deadline /\ UNCHANGED <<sinceStop, deadline, conn, step, late, age>>
      BY <1>7 DEF StartShutdown, Timed, connVars
    <3>2. \A c \in Conns : sinceStop <= age[c] + NewLimit
      BY <3>1 DEF NewLimit, WriteLimit
    <3>3. main' = "draining" /\ listener' # "open" /\ ~(sinceStop > NewLimit)
      BY <1>7, <3>1 DEF StartShutdown, NewLimit
    <3> QED BY <3>1, <3>2, <3>3 DEF Timed, InHand
  <2> QED BY <1>7, <2>1, <2>2, RunKeeps DEF StartShutdown
<1>8. CASE GiveUp
  <2>1. TypeOK'
    BY <1>8 DEF GiveUp, connVars
  <2>2. Timed'
    BY <1>8 DEF GiveUp, Timed, connVars, InHand
  <2> QED BY <1>8, <2>1, <2>2, RunKeeps DEF GiveUp
<1> QED BY <1>1, <1>2, <1>3, <1>4, <1>5, <1>6, <1>7, <1>8

\* The round of Shutdown after which it returns nil finds no connection at
\* work, but for those it has just closed, or closed before, as idle.
LEMMA PollKeeps ==
  ASSUME IInv, Poll
  PROVE  IInv'
<1> USE DEF IInv, Poll
<1>1. PICK S \in SUBSET {c \in Conns : conn[c] \in {"new", "idle"}} :
        /\ \A c \in Conns : conn[c] = "idle" => c \in S
        /\ conn' = [c \in Conns |-> IF c \in S THEN "closed" ELSE conn[c]]
        /\ cut' = cut \cup {c \in S : step[c] # "wait"}
        /\ IF Quiescent(S) THEN Exit("0") ELSE UNCHANGED <<main, code>>
  OBVIOUS
<1>2. TypeOK'
  BY <1>1 DEF TypeOK, Exit
<1>3. Tracked'
  BY <1>1 DEF Tracked, TypeOK
<1>4. Explained'
  BY <1>1 DEF Explained
<1>6. Timed'
  BY <1>1 DEF Timed, InHand, Exit, TypeOK
<1>5. Drained'
  <2>1. CASE Quiescent(S)
    <3>1. \A c \in Conns : step[c] # "wait" => c \in cut'
      BY <1>1, <2>1 DEF Quiescent, Tracked, TypeOK
    <3> QED BY <1>1, <2>1, <3>1 DEF Drained, Exit
  <2>2. CASE ~Quiescent(S)
    BY <1>1, <2>2 DEF Drained, TypeOK
  <2> QED BY <2>1, <2>2
<1> QED BY <1>2, <1>3, <1>4, <1>5, <1>6

LEMMA ConnKeeps ==
  ASSUME IInv, NEW c \in Conns, Accept(c) \/ HangUp(c) \/ Serve(c)
  PROVE  IInv'
<1> USE DEF IInv, runVars
<1>0. /\ Alive /\ code = "none" /\ UNCHANGED runVars /\ cut' = cut
      /\ main \in {"serving", "draining"}
  BY DEF Accept, HangUp, Serve, ReadRequest, Dispatch, Handle, WriteTimeout, WriteAnswer, Alive, TypeOK
<1>1. Drained'
  BY <1>0 DEF Drained
<1>2. CASE Accept(c)
  <2>1. TypeOK' /\ Tracked' /\ Explained'
    BY <1>2 DEF Accept, TypeOK, Tracked, Explained
  <2>2. main = "serving"
    BY <1>0, <1>2 DEF Accept, Timed
  <2>3. Timed'
    BY <1>0, <1>2, <2>2 DEF Accept, Timed, InHand
  <2> QED BY <1>1, <2>1, <2>3
<1>3. CASE HangUp(c)
  <2>1. TypeOK' /\ Tracked' /\ Explained'
    BY <1>3 DEF HangUp, TypeOK, Tracked, Explained
  <2>2. Timed'
    BY <1>0, <1>3 DEF HangUp, Timed, InHand, TypeOK
  <2> QED BY <1>1, <2>1, <2>2
<1>4. CASE ReadRequest(c)
  <2>1. TypeOK'
    BY <1>4, LifeAssumption DEF LifeAssumption, ReadRequest, TypeOK, WriteLimit
  <2>2. Tracked' /\ Explained'
    BY <1>4 DEF ReadRequest, Tracked, Explained, TypeOK
  <2>3. /\ main = "draining" => sinceStop <= NewLimit /\ ~deadline
        /\ main = "serving" => ~deadline
    BY <1>4 DEF ReadRequest, Timed, TypeOK, NewLimit, StopLimit
  <2>4. Timed'
    <3>1. /\ age'[c] = 0 /\ \A d \in Conns : d # c => age'[d] = age[d] /\ step'[d] = step[d]
          /\ UNCHANGED <<conn, late>>
      BY <1>4 DEF ReadRequest, TypeOK
    <3>2. main = "draining" => \A d \in Conns : InHand(d)' => sinceStop <= age'[d] + NewLimit
      BY <2>3, <3>1 DEF Timed, InHand, NewLimit, TypeOK
    <3> QED BY <1>0, <2>3, <3>1, <3>2 DEF Timed
  <2> QED BY <1>1, <2>1, <2>2, <2>4
<1>5. CASE Dispatch(c)
  <2>1. TypeOK' /\ Tracked' /\ Explained'
    BY <1>5 DEF Dispatch, TypeOK, Tracked, Explained
  <2>2. Timed'
    BY <1>0, <1>5 DEF Dispatch, Timed, InHand, TypeOK
  <2> QED BY <1>1, <2>1, <2>2
<1>6. CASE Handle(c)
  <2>1. TypeOK' /\ Tracked' /\ Explained'
    BY <1>6 DEF Handle, TypeOK, Tracked, Explained
  <2>2. Timed'
    BY <1>0, <1>6 DEF Handle, Timed, InHand, TypeOK
  <2> QED BY <1>1, <2>1, <2>2
<1>7. CASE WriteTimeout(c)
  <2>1. TypeOK' /\ Tracked' /\ Explained'
    BY <1>7 DEF WriteTimeout, TypeOK, Tracked, Explained, WriteLimit
  <2>2. Timed'
    BY <1>0, <1>7 DEF WriteTimeout, Timed, InHand, TypeOK
  <2> QED BY <1>1, <2>1, <2>2
<1>8. CASE WriteAnswer(c)
  <2>1. TypeOK'
    BY <1>8 DEF WriteAnswer, Tracked, TypeOK, WriteLimit
  <2>2. Tracked'
    BY <1>8 DEF WriteAnswer, Tracked, TypeOK
  <2>3. Explained'
    BY <1>8 DEF WriteAnswer, Tracked, Explained, TypeOK
  <2>4. Timed'
    <3>1. /\ step'[c] = "wait" /\ late' \subseteq late /\ late \ {c} \subseteq late'
          /\ \A d \in Conns : d # c => age'[d] = age[d] /\ step'[d] = step[d] /\ conn'[d] = conn[d]
          /\ main = "draining" => conn'[c] = "closed"
      BY <1>8 DEF WriteAnswer, TypeOK
    <3>2. \A d \in Conns : InHand(d)' => InHand(d) /\ age'[d] = age[d]
      BY <3>1 DEF InHand
    <3> QED BY <1>0, <3>1, <3>2 DEF Timed
  <2> QED BY <1>1, <2>1, <2>2, <2>3, <2>4
<1> QED BY <1>2, <1>3, <1>4, <1>5, <1>6, <1>7, <1>8 DEF Serve

LEMMA TickKeeps ==
  ASSUME IInv, Tick
  PROVE  IInv'
<1> USE DEF IInv
<1>1. /\ \A c \in Conns : InHand(c)' = InHand(c)
      /\ \A c \in Conns : age'[c] = IF InHand(c) THEN age[c] + 1 ELSE age[c]
      /\ \A c \in Conns : InHand(c) => age[c] < WriteLimit
      /\ age \in [Conns -> 0..WriteLimit] /\ sinceStop \in 0..StopLimit
  BY DEF Tick, InHand, TypeOK
<1>2. age' \in [Conns -> 0..WriteLimit]
  <2>1. \A c \in Conns : (IF InHand(c) THEN age[c] + 1 ELSE age[c]) \in 0..WriteLimit
    BY <1>1 DEF WriteLimit
  <2> QED BY <2>1 DEF Tick
<1>3. sinceStop' \in 0..StopLimit
  <2>1. main = "draining" => sinceStop < StopLimit
    BY DEF Tick
  <2> QED BY <1>1, <2>1 DEF Tick, StopLimit
<1>4. TypeOK'
  BY <1>2, <1>3 DEF Tick, TypeOK
<1>5. Tracked' /\ Explained' /\ Drained'
  BY DEF Tick, Tracked, Explained, Drained
<1>6. CASE main = "draining"
  <2>1. ~deadline
    BY <1>1, <1>6 DEF Tick, Timed, StopLimit
  <2>2. sinceStop' = sinceStop + 1 /\ UNCHANGED <<main, listener, conn, deadline>>
    BY <1>6 DEF Tick
  <2>3. sinceStop' > NewLimit => \A c \in Conns : conn[c] \notin {"new", "idle"}
    BY <1>1, <1>6, <2>2 DEF Tick, NewLimit
  <2>4. \A c \in Conns : InHand(c)' => sinceStop' <= age'[c] + NewLimit
    BY <1>1, <1>6, <2>2 DEF Timed, NewLimit
  <2>5. Timed'
    BY <1>6, <2>1, <2>2, <2>3, <2>4 DEF Timed
  <2> QED BY <1>4, <1>5, <2>5
<1>7. CASE main # "draining"
  <2>1. UNCHANGED <<main, listener, deadline, sinceStop>> /\ main = "serving"
    BY <1>7 DEF Tick, Alive
  <2>2. Timed'
    BY <2>1 DEF Timed
  <2> QED BY <1>4, <1>5, <2>2
<1> QED BY <1>6, <1>7

LEMMA IInvStep == IInv /\ [Next]_vars => IInv'
<1> SUFFICES ASSUME IInv, [Next]_vars PROVE IInv'
  OBVIOUS
<1>1. CASE UNCHANGED vars
  BY <1>1 DEF vars, runVars, connVars, IInv, TypeOK, Tracked, Explained, Drained,
     Timed, InHand
<1> QED BY <1>1, MainKeeps, PollKeeps, ConnKeeps, TickKeeps DEF Next, Run

LEMMA Invariance == Spec => []IInv
BY InitIInv, IInvStep, PTL DEF Spec

\* Types, and that a connection Shutdown has closed under a request stays so.
THEOREM LifeTypeCorrect == Spec => []TypeOK
BY Invariance, PTL DEF IInv

\* An exit code of 0 after a signal means that nothing was dropped silently.
THEOREM ExitIsClean == Spec => []CleanExit
<1>1. IInv => CleanExit
  BY DEF IInv, TypeOK, Explained, Drained, CleanExit
<1> QED BY <1>1, Invariance, PTL

\* Whoever is cut off by the end of a gateway that was told to stop could not
\* have had an answer any more, or came on a connection taken for idle.
THEOREM NoAnswerDropped == Spec => []NothingAnswerableDropped
<1>1. IInv => NothingAnswerableDropped
  BY DEF IInv, Drained, Timed, InHand, NothingAnswerableDropped
<1> QED BY <1>1, Invariance, PTL
=============================================================================
