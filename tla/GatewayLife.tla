----------------------------- MODULE GatewayLife -----------------------------
(***************************************************************************)
(* The gateway process from start to exit: main, Server.Run, and what      *)
(* net/http does with connections and requests when the server is shut     *)
(* down.  SIGTERM cancels the context Run waits for; Shutdown closes the   *)
(* listener and the idle connections and waits for the others, for 30      *)
(* seconds at most.  A request passes requestLogger and bearerAuth on its  *)
(* way to a handler, which takes as long as its system calls and children  *)
(* do: once WriteTimeout has passed its answer is lost, while it goes on.  *)
(*                                                                         *)
(* Time goes in ticks of five seconds.  A timer of k ticks fires between   *)
(* the k-th tick after it was set and the next; goroutines that have       *)
(* nothing to wait for take no time, but for the handlers.                 *)
(***************************************************************************)
EXTENDS Naturals

CONSTANTS
  Conns,       \* connections clients make
  MaxRequests  \* bound: requests on one connection

ASSUME LifeAssumption == MaxRequests \in Nat

VARIABLES
  main,      \* where main stands
  code,      \* its exit code
  signalled, \* SIGINT or SIGTERM has come: ctx is done
  listener,  \* what ListenAndServe's goroutine has come to
  errCh,     \* an error waits in errCh
  deadline,  \* shutdownCtx has expired
  sinceStop, \* ticks since Shutdown began
  conn,      \* connection -> its http.ConnState, or "none"
  step,      \* connection -> where its goroutine stands
  token,     \* connection -> the request in hand carries the key or needs none
  age,       \* connection -> ticks since the header of its request was read
  late,      \* connections whose request has outlived WriteTimeout
  uses,      \* connection -> requests read from it
  cut,       \* history: connections closed under a request that had been read
  overran,   \* history: connections that have had a late request
  unanswered \* history: connections on which an answer was lost

runVars  == <<main, code, signalled, listener, errCh, deadline, sinceStop>>
connVars == <<conn, step, token, age, late, uses, cut, overran, unanswered>>
vars     == <<runVars, connVars>>

\* Mutant: Shutdown is given no more time than an answer has.
StopLimitOfWrite == 3

WriteLimit == 3  \* WriteTimeout: 15 seconds
StopLimit  == 6  \* the context given to Shutdown: 30 seconds
NewLimit   == 2  \* Shutdown takes a connection that has been new for more than
                 \* 5 seconds for idle: it sees its second tick but no third

TypeOK ==
  /\ main \in {"boot", "serving", "draining", "exited"}
  /\ code \in {"none", "0", "1", "killed"} /\ (main = "exited" <=> code # "none")
  /\ signalled \in BOOLEAN /\ errCh \in BOOLEAN /\ deadline \in BOOLEAN
  /\ listener \in {"none", "open", "failed", "closed"}
  /\ conn \in [Conns -> {"none", "new", "idle", "active", "closed"}]
  /\ step \in [Conns -> {"wait", "read", "handle", "write"}]
  /\ token \in [Conns -> BOOLEAN]
  /\ age \in [Conns -> 0..WriteLimit] /\ sinceStop \in 0..StopLimit
  /\ late \subseteq Conns /\ cut \subseteq Conns
  /\ overran \subseteq Conns /\ unanswered \subseteq Conns
  /\ uses \in [Conns -> 0..MaxRequests]
  /\ \A c \in cut : conn[c] = "closed"

Init ==
  /\ main = "boot" /\ code = "none"
  /\ signalled = FALSE /\ listener = "none" /\ errCh = FALSE
  /\ deadline = FALSE /\ sinceStop = 0 /\ age = [c \in Conns |-> 0]
  /\ conn = [c \in Conns |-> "none"] /\ step = [c \in Conns |-> "wait"]
  /\ token = [c \in Conns |-> FALSE] /\ uses = [c \in Conns |-> 0]
  /\ late = {} /\ cut = {} /\ overran = {} /\ unanswered = {}

-----------------------------------------------------------------------------
\* main and Run.
Exit(c) == main' = "exited" /\ code' = c

\* --version, a configuration that is refused, or on to NewClient, NewServer,
\* NotifyContext and Run.
Boot ==
  /\ main = "boot"
  /\ \/ \E c \in {"0", "1"} : Exit(c)
     \/ main' = "serving" /\ UNCHANGED code
  /\ UNCHANGED <<signalled, listener, errCh, deadline, sinceStop, connVars>>

\* Before NotifyContext a signal kills.  A second one is taken and forgotten:
\* stop is only deferred.
Signal ==
  /\ \/ main = "boot" /\ Exit("killed") /\ UNCHANGED signalled
     \/ main \in {"serving", "draining"} /\ signalled' = TRUE /\ UNCHANGED <<main, code>>
  /\ UNCHANGED <<listener, errCh, deadline, sinceStop, connVars>>

\* The goroutine of ListenAndServe may come too late for any listening.  Its
\* ErrServerClosed is not an error.
Listen ==
  /\ listener = "none" /\ main \in {"serving", "draining"}
  /\ IF main = "draining"
     THEN listener' = "closed" /\ UNCHANGED errCh
     ELSE \/ listener' = "open" /\ UNCHANGED errCh
          \/ listener' = "failed" /\ errCh' = TRUE
  /\ UNCHANGED <<main, code, signalled, deadline, sinceStop, connVars>>

AcceptFails ==
  /\ listener = "open" /\ main = "serving"
  /\ listener' = "failed" /\ errCh' = TRUE
  /\ UNCHANGED <<main, code, signalled, deadline, sinceStop, connVars>>

\* The select, whose choice is open when both are ready.
RunFails ==
  /\ main = "serving" /\ errCh
  /\ Exit("1")
  /\ UNCHANGED <<signalled, listener, errCh, deadline, sinceStop, connVars>>

StartShutdown ==
  /\ main = "serving" /\ signalled
  /\ main' = "draining"
  /\ listener' = IF listener = "open" THEN "closed" ELSE listener
  /\ UNCHANGED <<code, signalled, errCh, deadline, sinceStop, connVars>>

Expire ==
  /\ main = "draining" /\ sinceStop = StopLimit /\ ~deadline /\ deadline' = TRUE
  /\ UNCHANGED <<main, code, signalled, listener, errCh, sinceStop, connVars>>

\* Mutant: a context that does not expire.
NeverGiveUp ==
  /\ main = "draining" /\ deadline /\ \A c \in Conns : step[c] = "wait"
  /\ Exit("1")
  /\ UNCHANGED <<signalled, listener, errCh, deadline, sinceStop, connVars>>

\* Shutdown gives up: the handlers that still run end with the process.
GiveUp ==
  /\ main = "draining" /\ deadline
  /\ Exit("1")
  /\ UNCHANGED <<signalled, listener, errCh, deadline, sinceStop, connVars>>

\* Mutant: srv.Close for srv.Shutdown.
AnyState(S) == \A c \in Conns : conn[c] \in {"none", "new", "idle", "active", "closed"}

Quiescent(S) == \A c \in Conns : conn[c] \in {"none", "closed"} \/ c \in S

\* One round of Shutdown's loop: it closes the connections that are idle and
\* those that for 5 seconds have been new, and returns nil if that were all.
Poll ==
  /\ main = "draining"
  /\ \E S \in SUBSET {c \in Conns : conn[c] \in {"new", "idle"}} :
       /\ \A c \in Conns : conn[c] = "idle" => c \in S
       /\ conn' = [c \in Conns |-> IF c \in S THEN "closed" ELSE conn[c]]
       /\ cut' = cut \cup {c \in S : step[c] # "wait"}
       /\ IF Quiescent(S) THEN Exit("0") ELSE UNCHANGED <<main, code>>
  /\ UNCHANGED <<signalled, listener, errCh, deadline, sinceStop, step, token, age, late, uses, overran, unanswered>>

Run == RunFails \/ StartShutdown \/ Poll \/ GiveUp

-----------------------------------------------------------------------------
\* A connection's goroutine.
Alive == main \in {"serving", "draining"}

Accept(c) ==
  /\ Alive /\ listener = "open" /\ conn[c] = "none"
  /\ conn' = [conn EXCEPT ![c] = "new"]
  /\ UNCHANGED <<runVars, step, token, age, late, uses, cut, overran, unanswered>>

\* The client leaves, or ReadTimeout or IdleTimeout passes.
HangUp(c) ==
  /\ Alive /\ conn[c] \in {"new", "idle"} /\ step[c] = "wait"
  /\ conn' = [conn EXCEPT ![c] = "closed"]
  /\ UNCHANGED <<runVars, step, token, age, late, uses, cut, overran, unanswered>>

\* A request's header has been read: net/http sets the connection's state only
\* afterwards.
ReadRequest(c) ==
  /\ Alive /\ conn[c] \in {"new", "idle"} /\ step[c] = "wait"
  /\ uses[c] < MaxRequests /\ uses' = [uses EXCEPT ![c] = @ + 1]
  /\ step' = [step EXCEPT ![c] = "read"]
  /\ \E t \in BOOLEAN : token' = [token EXCEPT ![c] = t]
  /\ age' = [age EXCEPT ![c] = 0]
  /\ UNCHANGED <<runVars, conn, late, cut, overran, unanswered>>

\* The state is set, the trace ID found, and bearerAuth asked; /health has no
\* bearerAuth.
Dispatch(c) ==
  /\ Alive /\ step[c] = "read"
  /\ conn' = [conn EXCEPT ![c] = IF @ = "closed" THEN @ ELSE "active"]
  /\ step' = [step EXCEPT ![c] = IF token[c] THEN "handle" ELSE "write"]
  /\ UNCHANGED <<runVars, token, age, late, uses, cut, overran, unanswered>>

Handle(c) ==
  /\ Alive /\ step[c] = "handle"
  /\ step' = [step EXCEPT ![c] = "write"]
  /\ UNCHANGED <<runVars, conn, token, age, late, uses, cut, overran, unanswered>>

InHand(c) == step[c] # "wait" /\ c \notin late

WriteTimeout(c) ==
  /\ Alive /\ InHand(c) /\ age[c] = WriteLimit
  /\ age' = [age EXCEPT ![c] = 0]
  /\ late' = late \cup {c} /\ overran' = overran \cup {c}
  /\ UNCHANGED <<runVars, conn, step, token, uses, cut, unanswered>>

\* writeJSON or writeError, and the request is logged as if it had arrived.
\* The connection is kept for another if all is well and no shutdown is on.
WriteAnswer(c) ==
  /\ Alive /\ step[c] = "write"
  /\ step' = [step EXCEPT ![c] = "wait"]
  /\ IF c \in late \/ conn[c] = "closed"
     THEN /\ unanswered' = unanswered \cup {c}
          /\ conn' = [conn EXCEPT ![c] = "closed"]
     ELSE /\ conn' = [conn EXCEPT ![c] = IF main = "draining" THEN "closed" ELSE "idle"]
          /\ UNCHANGED unanswered
  /\ late' = late \ {c} /\ age' = [age EXCEPT ![c] = 0]
  /\ UNCHANGED <<runVars, token, uses, cut, overran>>

\* Five seconds pass; no timer that is due is overslept.
Tick ==
  /\ Alive
  /\ \A c \in Conns : InHand(c) => age[c] < WriteLimit
  /\ main = "draining" =>
       /\ sinceStop < StopLimit
       /\ sinceStop >= NewLimit => \A c \in Conns : conn[c] \notin {"new", "idle"}
  /\ age' = [c \in Conns |-> IF InHand(c) THEN age[c] + 1 ELSE age[c]]
  /\ sinceStop' = IF main = "draining" THEN sinceStop + 1 ELSE sinceStop
  /\ UNCHANGED <<main, code, signalled, listener, errCh, deadline>>
  /\ UNCHANGED <<conn, step, token, late, uses, cut, overran, unanswered>>

Serve(c) == ReadRequest(c) \/ Dispatch(c) \/ Handle(c) \/ WriteTimeout(c) \/ WriteAnswer(c)

Next ==
  \/ Boot \/ Signal \/ Listen \/ AcceptFails \/ Expire \/ Run \/ Tick
  \/ \E c \in Conns : Accept(c) \/ HangUp(c) \/ Serve(c)

\* Run's goroutine is scheduled, time passes and timers fire.  Nothing is said
\* of the handlers: one may be stuck for ever.
Spec ==
  /\ Init /\ [][Next]_vars
  /\ WF_vars(Listen) /\ WF_vars(Tick) /\ WF_vars(Expire)
  /\ \A c \in Conns : WF_vars(WriteTimeout(c))
  /\ WF_vars(RunFails \/ StartShutdown) /\ WF_vars(Poll) /\ WF_vars(GiveUp)

-----------------------------------------------------------------------------
\* A gateway that was told to stop and exits with 0 has carried out and
\* answered every request it had read, except for answers that came too late,
\* and for requests on connections that Shutdown took for idle while their
\* headers were read.
CleanExit ==
  signalled /\ code = "0" =>
    \A c \in Conns : step[c] # "wait" \/ c \in unanswered => c \in cut \cup overran

\* Shutdown waits long enough: a gateway that was told to stop, whether it ends
\* with 0 or gives up, ends no request whose answer its client could still have
\* had, but for those on connections taken for idle.  The 30 seconds must
\* outlast WriteTimeout and what a new connection may yet bring.
NothingAnswerableDropped ==
  main = "exited" /\ signalled /\ (code = "0" \/ deadline) =>
    \A c \in Conns : step[c] # "wait" => c \in late \cup cut

\* However long the handlers take, a gateway that is told to stop, or cannot
\* listen, comes to its exit.
StopEnds == (signalled \/ errCh) ~> main = "exited"
=============================================================================
