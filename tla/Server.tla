-------------------------------- MODULE Server --------------------------------
(***************************************************************************)
(* run_server() (include/nanonet/sys/server.h, src/sys/server.cpp): the    *)
(* thread that calls it and retries to listen, the accept loop with its    *)
(* final wait for the connections, one detached thread per connection, and *)
(* the server_manager that joins a background server.                      *)
(*                                                                         *)
(* The accept loop and the connection threads share the running flag and   *)
(* the server_status, a local variable of the accept loop that connection  *)
(* threads use by reference: the count of connections kept in it is all    *)
(* that protects its lifetime.  Each call of the accept loop is an         *)
(* incarnation with a status of its own.                                   *)
(***************************************************************************)
EXTENDS Integers, FiniteSets

CONSTANTS
  Conns,            \* connections that clients may open (bounds the model)
  Parameters,       \* the calls of run_server(), records with the fields
                    \*   mode: "stdio", "foreground" or "background"
                    \*   n_listen_retries, shutdown_wait_for_client_close
                    \*   logGiven: the argument sl is not null
  MaxInterrupts     \* how often a signal interrupts sleep() (model bound)

Incarnations == 1..(MaxInterrupts + 1)

ASSUME ServerAssumption ==
  /\ IsFiniteSet(Conns)
  /\ Parameters \subseteq [mode : {"stdio", "foreground", "background"},
                           n_listen_retries : Int,
                           shutdown_wait_for_client_close : BOOLEAN,
                           logGiven : BOOLEAN]
  /\ MaxInterrupts \in Nat

VARIABLES
  params,       \* the arguments of run_server()
  running,      \* the running_flag
  mpc,          \* where the thread that called run_server() is
  retries,      \* listen_retries
  spc,          \* where server_thread::operator() is
  inc,          \* its incarnation, 0 before the first
  statusAlive,  \* incarnations whose server_status exists
  count,        \* count[i]: connections_current of incarnation i
  conn,         \* conn[c]: where the thread of connection c is
  of,           \* of[c]: the incarnation that accepted c
  inbox,        \* inbox[c]: c has unread input
  peerOpen,     \* peerOpen[c]: the client has not closed c
  manager,      \* the server_manager returned to the caller
  logAlive,     \* the stream that the manager logs to exists
  interrupts    \* signals that have interrupted a sleep()

mainVars   == <<mpc, retries, manager, logAlive>>
serverVars == <<spc, inc, statusAlive>>
connVars   == <<conn, of, inbox, peerOpen>>
vars == <<params, running, mainVars, serverVars, connVars, count, interrupts>>

\* The thread of c exists and holds the count_sentry.
ActivePC == {"handed", "welcome", "check", "reading", "draining", "closing"}
Active   == {c \in Conns : conn[c] \in ActivePC}
ActiveOf(i) == {c \in Active : of[c] = i}

Init == /\ params \in Parameters
        /\ running = TRUE
        /\ mpc = IF params.mode = "stdio" THEN "stdio" ELSE "loop"
        /\ retries = 0
        /\ spc = "none"
        /\ inc = 0
        /\ statusAlive = {}
        /\ count = [i \in Incarnations |-> 0]
        /\ conn = [c \in Conns |-> "none"]
        /\ of = [c \in Conns |-> 0]
        /\ inbox = [c \in Conns |-> FALSE]
        /\ peerOpen = [c \in Conns |-> FALSE]
        /\ manager = "none"
        /\ logAlive = TRUE
        /\ interrupts = 0

-----------------------------------------------------------------------------
(* run_server(), the thread of the caller *)

\* test:stdio: handle_connection() on standard input and output.  Exceptions
\* are logged and end the call, a shutdown_exception too: the running flag is
\* left alone.
StdioCheck == /\ mpc = "stdio"
              /\ running
              /\ mpc' = "stdio_read"
              /\ UNCHANGED <<params, running, retries, manager, logAlive,
                             serverVars, connVars, count, interrupts>>

StdioLine ==
  /\ mpc = "stdio_read"
  /\ \/ /\ mpc' = "stdio"                            \* handler returns true
        /\ UNCHANGED manager
     \/ /\ mpc' = "returned"                         \* false, EOF, exception
        /\ manager' = "noop"
  /\ UNCHANGED <<params, running, retries, logAlive, serverVars, connVars, count,
                 interrupts>>

\* The syslogger that run_server() creates for itself, unless it was given a
\* stream or uses standard output, is destroyed when it returns.
LogAfterReturn == params.logGiven \/ params.mode = "stdio"

\* Shut down already: run_server() returns a manager without a thread.
ReturnNotRunning ==
  /\ mpc \in {"loop", "stdio"}
  /\ ~running
  /\ mpc' = "returned"
  /\ manager' = "noop"
  /\ logAlive' = LogAfterReturn
  /\ UNCHANGED <<params, running, retries, serverVars, connVars, count,
                 interrupts>>

MainLoop == /\ mpc = "loop"
            /\ running
            /\ mpc' = "listen"
            /\ UNCHANGED <<params, running, retries, manager, logAlive,
                           serverVars, connVars, count, interrupts>>

\* The acceptor is bound and the accept loop starts, in this thread or in one
\* of its own; in the latter case run_server() returns, which destroys the
\* syslogger it created for itself.
Listen ==
  /\ mpc = "listen"
  /\ spc' = "check"
  /\ inc' = inc + 1
  /\ statusAlive' = statusAlive \cup {inc + 1}
  /\ \/ /\ params.mode = "foreground"
        /\ mpc' = "serve"
        /\ UNCHANGED <<manager, logAlive>>
     \/ /\ params.mode = "background"
        /\ mpc' = "returned"
        /\ manager' = "owning"
        /\ logAlive' = LogAfterReturn
  /\ UNCHANGED <<params, running, retries, connVars, count, interrupts>>

ListenFails == /\ mpc = "listen"
               /\ mpc' = "caught"
               /\ UNCHANGED <<params, running, retries, manager, logAlive,
                              serverVars, connVars, count, interrupts>>

\* Mutation: compares with < instead of <=.
RetryOrThrow_Strict ==
  /\ mpc = "caught"
  /\ \/ /\ params.n_listen_retries < 0
        /\ mpc' = "retry"
        /\ UNCHANGED retries
     \/ /\ params.n_listen_retries >= 0
        /\ retries' = retries + 1
        /\ mpc' = IF retries' < params.n_listen_retries THEN "retry" ELSE "threw"
  /\ UNCHANGED <<params, running, manager, logAlive, serverVars, connVars, count,
                 interrupts>>

\* The exception handler: retry or rethrow.
RetryOrThrow ==
  /\ mpc = "caught"
  /\ \/ /\ params.n_listen_retries < 0
        /\ mpc' = "retry"
        /\ UNCHANGED retries
     \/ /\ params.n_listen_retries >= 0
        /\ retries' = retries + 1
        /\ mpc' = IF retries' <= params.n_listen_retries THEN "retry" ELSE "threw"
  /\ UNCHANGED <<params, running, manager, logAlive, serverVars, connVars, count,
                 interrupts>>

\* sleep(listen_retry_time); interrupted, it throws out of run_server().
RetrySleep ==
  /\ mpc = "retry"
  /\ \/ mpc' = "loop" /\ UNCHANGED interrupts
     \/ /\ interrupts < MaxInterrupts
        /\ interrupts' = interrupts + 1
        /\ mpc' = "threw"
  /\ UNCHANGED <<params, running, retries, manager, logAlive, serverVars,
                 connVars, count>>

\* st() returned in the foreground.
ForegroundReturns ==
  /\ mpc = "serve"
  /\ spc = "done"
  /\ mpc' = "returned"
  /\ manager' = "noop"
  /\ logAlive' = LogAfterReturn
  /\ UNCHANGED <<params, running, retries, serverVars, connVars, count,
                 interrupts>>

\* ~server_manager(): logs and joins; the join returns when the thread ended.
DestroyManager ==
  /\ \/ manager = "owning" /\ manager' = "joining"
     \/ manager = "joining" /\ spc = "done" /\ manager' = "destroyed"
     \/ manager = "noop" /\ manager' = "destroyed"
  /\ UNCHANGED <<params, running, mpc, retries, logAlive, serverVars, connVars,
                 count, interrupts>>

MainStep == \/ StdioCheck \/ StdioLine \/ ReturnNotRunning \/ MainLoop \/ Listen
            \/ ListenFails \/ RetryOrThrow \/ RetrySleep \/ ForegroundReturns

-----------------------------------------------------------------------------
(* server_thread::operator() *)

ServerCheck == /\ spc = "check"
               /\ spc' = IF running THEN "accept" ELSE "wait"
               /\ UNCHANGED <<params, running, mainVars, inc, statusAlive,
                              connVars, count, interrupts>>

\* Mutation: the connection is counted by its own thread, too late.
Accept_NotCounted(c) == /\ spc = "accept"
                        /\ conn[c] = "arriving"
                        /\ of' = [of EXCEPT ![c] = inc]
                        /\ conn' = [conn EXCEPT ![c] = "handed"]
                        /\ spc' = "check"
                        /\ UNCHANGED <<params, running, mainVars, inc, count,
                                       statusAlive, inbox, peerOpen, interrupts>>

\* A connection comes in: its sentry increments the count before its thread
\* starts.
Accept(c) == /\ spc = "accept"
             /\ conn[c] = "arriving"
             /\ count' = [count EXCEPT ![inc] = @ + 1]
             /\ of' = [of EXCEPT ![c] = inc]
             /\ conn' = [conn EXCEPT ![c] = "handed"]
             /\ spc' = "check"
             /\ UNCHANGED <<params, running, mainVars, inc, statusAlive, inbox,
                            peerOpen, interrupts>>

\* timeout_exception
AcceptTimeout == /\ spc = "accept"
                 /\ spc' = "check"
                 /\ UNCHANGED <<params, running, mainVars, inc, statusAlive,
                                connVars, count, interrupts>>

\* accept(), setting the timeout or starting the thread fails.  In the latter
\* two cases a connection is closed again and its sentry, if it got one, is
\* undone before the handler runs.
AcceptFails == /\ spc = "accept"
               /\ spc' = "error"
               /\ \/ UNCHANGED conn
                  \/ \E c \in Conns : /\ conn[c] = "arriving"
                                      /\ conn' = [conn EXCEPT ![c] = "closed"]
               /\ UNCHANGED <<params, running, mainVars, inc, statusAlive, of,
                              inbox, peerOpen, count, interrupts>>

\* Mutation: does not wait for the connections.
CountZero_NoWait == /\ spc = "wait"
                    /\ spc' = "done"
                    /\ statusAlive' = statusAlive \ {inc}
                    /\ UNCHANGED <<params, running, mainVars, inc, connVars,
                                   count, interrupts>>

\* Reads connections_current: done when it is 0.
CountZero == /\ spc = "wait"
             /\ count[inc] = 0
             /\ spc' = "done"
             /\ statusAlive' = statusAlive \ {inc}
             /\ UNCHANGED <<params, running, mainVars, inc, connVars, count,
                            interrupts>>

CountPositive == /\ spc = "wait"
                 /\ count[inc] # 0
                 /\ spc' = "waiting"
                 /\ UNCHANGED <<params, running, mainVars, inc, statusAlive,
                                connVars, count, interrupts>>

\* sleep(1) after an error, or between two reads of the count.
ServerSleep == /\ \/ spc = "error" /\ spc' = "check"
                  \/ spc = "waiting" /\ spc' = "wait"
               /\ UNCHANGED <<params, running, mainVars, inc, statusAlive,
                              connVars, count, interrupts>>

\* A signal interrupts the sleep, which throws: the exception leaves
\* operator() and destroys the status.  In the foreground run_server()
\* catches it; on a thread of its own it calls std::terminate().
ServerSleepThrows ==
  /\ spc \in {"error", "waiting"}
  /\ interrupts < MaxInterrupts
  /\ interrupts' = interrupts + 1
  /\ statusAlive' = statusAlive \ {inc}
  /\ \/ params.mode = "foreground" /\ spc' = "none" /\ mpc' = "caught"
     \/ params.mode = "background" /\ spc' = "terminated" /\ UNCHANGED mpc
  /\ UNCHANGED <<params, running, retries, manager, logAlive, inc, connVars,
                 count>>

ServerStep == \/ ServerCheck \/ (\E c \in Conns : Accept(c)) \/ AcceptTimeout
              \/ AcceptFails \/ CountZero \/ CountPositive \/ ServerSleep
              \/ ServerSleepThrows

-----------------------------------------------------------------------------
(* connection_thread: operator(), then the destruction of its members *)

Goto(c, l) == conn' = [conn EXCEPT ![c] = l]

\* Shutting down already: return at once.
ConnBegin(c) == /\ conn[c] = "handed"
                /\ Goto(c, IF running THEN "welcome" ELSE "closing")
                /\ UNCHANGED <<params, running, mainVars, serverVars, of, inbox,
                               peerOpen, count, interrupts>>

\* What the welcome function and the handler may do: return (true), return
\* false or throw, or throw a shutdown_exception.
Calls(c) ==
  /\ \/ /\ Goto(c, "check")
        /\ UNCHANGED running
     \/ /\ Goto(c, "closing")
        /\ UNCHANGED running
     \/ /\ Goto(c, IF params.shutdown_wait_for_client_close THEN "draining" ELSE "closing")
        /\ running' = FALSE
  /\ UNCHANGED <<params, mainVars, serverVars, of, peerOpen, count, interrupts>>

Welcome(c) == conn[c] = "welcome" /\ Calls(c) /\ UNCHANGED inbox

\* Mutation: serves connections without looking at the flag.
ConnCheck_IgnoresFlag(c) ==
  /\ conn[c] = "check"
  /\ Goto(c, "reading")
  /\ UNCHANGED <<params, running, mainVars, serverVars, of, inbox, peerOpen,
                 count, interrupts>>

\* The condition of the loop in handle_connection().
ConnCheck(c) == /\ conn[c] = "check"
                /\ Goto(c, IF running THEN "reading" ELSE "closing")
                /\ UNCHANGED <<params, running, mainVars, serverVars, of, inbox,
                               peerOpen, count, interrupts>>

ConnLine(c) == /\ conn[c] = "reading"
               /\ inbox[c]
               /\ inbox' = [inbox EXCEPT ![c] = FALSE]
               /\ Calls(c)

\* Input ends because the client closed the connection or, as streams report
\* it, because nothing came in during params.timeout.
InputEnds(c) == /\ conn[c] \in {"reading", "draining"}
                /\ ~inbox[c]
                /\ Goto(c, "closing")
                /\ UNCHANGED <<params, running, mainVars, serverVars, of, inbox,
                               peerOpen, count, interrupts>>

\* while (is.get(c)) {}
Drain(c) == /\ conn[c] = "draining"
            /\ inbox[c]
            /\ inbox' = [inbox EXCEPT ![c] = FALSE]
            /\ UNCHANGED <<params, running, mainVars, serverVars, conn, of,
                           peerOpen, count, interrupts>>

\* Mutation: an explicit decrement beside the one of the sentry.
SentryReleased_Twice(c) ==
  /\ conn[c] = "closing"
  /\ count' = [count EXCEPT ![of[c]] = @ - 2]
  /\ Goto(c, "released")
  /\ UNCHANGED <<params, running, mainVars, serverVars, of, inbox, peerOpen,
                 interrupts>>

\* The members are destroyed in reverse order: first the sentry, then the
\* connection, whose socket is closed after the count has gone down.
SentryReleased(c) ==
  /\ conn[c] = "closing"
  /\ count' = [count EXCEPT ![of[c]] = @ - 1]
  /\ Goto(c, "released")
  /\ UNCHANGED <<params, running, mainVars, serverVars, of, inbox, peerOpen,
                 interrupts>>

SocketClosed(c) == /\ conn[c] = "released"
                   /\ Goto(c, "closed")
                   /\ UNCHANGED <<params, running, mainVars, serverVars, of,
                                  inbox, peerOpen, count, interrupts>>

ConnStep(c) == \/ ConnBegin(c) \/ Welcome(c) \/ ConnCheck(c) \/ ConnLine(c)
               \/ InputEnds(c) \/ Drain(c) \/ SentryReleased(c)
               \/ SocketClosed(c)

-----------------------------------------------------------------------------
(* The environment *)

ClientConnects(c) == /\ conn[c] = "none"
                     /\ Goto(c, "arriving")
                     /\ peerOpen' = [peerOpen EXCEPT ![c] = TRUE]
                     /\ UNCHANGED <<params, running, mainVars, serverVars, of,
                                    inbox, count, interrupts>>

ClientSends(c) == /\ peerOpen[c]
                  /\ conn[c] \in ActivePC \ {"closing"}
                  /\ ~inbox[c]
                  /\ inbox' = [inbox EXCEPT ![c] = TRUE]
                  /\ UNCHANGED <<params, running, mainVars, serverVars, conn, of,
                                 peerOpen, count, interrupts>>

ClientCloses(c) == /\ peerOpen[c]
                   /\ peerOpen' = [peerOpen EXCEPT ![c] = FALSE]
                   /\ UNCHANGED <<params, running, mainVars, serverVars, conn, of,
                                  inbox, count, interrupts>>

\* Another thread calls shutdown() on the running_flag.
ExternalShutdown == /\ running
                    /\ running' = FALSE
                    /\ UNCHANGED <<params, mainVars, serverVars, connVars, count,
                                   interrupts>>

Environment == \/ \E c \in Conns : \/ ClientConnects(c)
                                   \/ ClientSends(c)
                                   \/ ClientCloses(c)
               \/ ExternalShutdown

\* Nothing happens any more after std::terminate().
Process == spc # "terminated"

Next == \/ Process /\ MainStep
        \/ Process /\ DestroyManager
        \/ Process /\ ServerStep
        \/ Process /\ \E c \in Conns : ConnStep(c)
        \/ Process /\ Environment

Spec == Init /\ [][Next]_vars

\* The steps of run_server() that end by themselves: all but the read of
\* standard input in test mode, for which there is no timeout.
Unattended == MainStep /\ mpc # "stdio_read"

\* The threads keep running, and the functions given to the server return; a
\* read from a connection ends with the timeout (60 s by default), a blocked
\* accept() too.  Nothing is assumed of clients or of the user at standard
\* input, nor does anybody have to request a shutdown.
Fairness == /\ WF_vars(Process /\ Unattended)
            /\ WF_vars(Process /\ ServerStep)
            /\ \A c \in Conns : WF_vars(Process /\ ConnStep(c))

FairSpec == Spec /\ Fairness

-----------------------------------------------------------------------------
(* Properties *)

\* Every variable has its type; the accept loop runs only in an incarnation.
TypeOK ==
  /\ params \in Parameters
  /\ running \in BOOLEAN
  /\ mpc \in {"stdio", "stdio_read", "loop", "listen", "serve", "caught",
              "retry", "returned", "threw"}
  /\ retries \in Nat
  /\ spc \in {"none", "check", "accept", "error", "wait", "waiting", "done",
              "terminated"}
  /\ inc \in {0} \cup Incarnations
  /\ statusAlive \in SUBSET Incarnations
  /\ count \in [Incarnations -> Int]
  /\ conn \in [Conns -> ActivePC \cup {"none", "arriving", "released", "closed"}]
  /\ of \in [Conns -> {0} \cup Incarnations]
  /\ inbox \in [Conns -> BOOLEAN]
  /\ peerOpen \in [Conns -> BOOLEAN]
  /\ manager \in {"none", "noop", "owning", "joining", "destroyed"}
  /\ logAlive \in BOOLEAN
  /\ interrupts \in 0..MaxInterrupts
  /\ spc # "none" => inc # 0

\* connections_current of every incarnation is the number of the threads that
\* hold a sentry on it, although each is moved into its thread and released
\* by the thread on its own.
CountExact == \A i \in Incarnations : count[i] = Cardinality(ActiveOf(i))

\* No connection thread outlives the server_status it refers to, unless a
\* signal interrupts the wait for the connections.
StatusOutlivesThreads == interrupts = 0 => \A c \in Active : of[c] \in statusAlive

\* "Once the function returns without an exception, it is guaranteed that the
\* server shutdown is complete, i.e. there are no more connections active",
\* and the same when the destructor of the manager of a background server has
\* returned.
Returned == \/ params.mode = "foreground" /\ mpc = "returned"
            \/ manager = "destroyed"
ShutdownComplete == Returned => Active = {}

\* The guarantee as far as it goes: it holds if no signal interrupted the
\* server.
ShutdownCompleteUndisturbed == interrupts = 0 => ShutdownComplete

\* "Retry this many times", and indefinitely for -1: unless a signal
\* interrupts it, run_server() throws only after n_listen_retries + 1
\* failures.
ThrowsAfterRetries ==
  mpc = "threw" /\ interrupts = 0 =>
    params.n_listen_retries >= 0 /\ retries = params.n_listen_retries + 1

\* "The ostream *must* outlive the returned server_manager object since it is
\* used in its destructor": it exists when the destructor logs.
LogOutlivesManager == manager = "joining" => logAlive

\* A shutdown request, from a handler or from outside, ends the server: the
\* call of run_server() and the thread of a background server.  Two waits are
\* without limit, and nothing else may hold a shutdown up: the read of standard
\* input in test mode, and the drain of a connection whose client never stops
\* sending.
Stopped == mpc \in {"returned", "threw"} /\ spc \in {"none", "done"}
ShutdownEnds ==
  (\A c \in Conns : []<>(conn[c] # "draining"))
    => (~running ~> \/ Stopped
                    \/ ~Process
                    \/ mpc = "stdio_read")
=============================================================================
